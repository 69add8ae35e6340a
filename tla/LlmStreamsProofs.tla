-------------------------- MODULE LlmStreamsProofs --------------------------
(***************************************************************************)
(* Proofs about LlmStreams.  The inductive invariant is Inv, in four       *)
(* layers, each proved with the help of the ones before it:                *)
(*   - Base: the types, that a session without a stream is the new one,    *)
(*     and that every session counts the bytes of its frames;              *)
(*   - LifeInv: for each stream, what its session, its owner task, its     *)
(*     cancellation cause, its record and its history say of each other;   *)
(*   - ReadInv: the frames of a session are numbered without a gap up to   *)
(*     next_id, and what a body has delivered are the events after the id  *)
(*     it started from, the same ones in every body of the stream;         *)
(*   - AccountInv: the total is the sum of the sessions' bytes, and the    *)
(*     limits hold at every unlock.                                        *)
(* append, fail and purge_locked change frames and counters at once; one   *)
(* lemma for each says what it leaves behind (AppendIs, FailIs,            *)
(* PurgeStore), and each layer follows from that.  The sums are those of   *)
(* SumTheorems, so the byte counters are proved for any number of streams  *)
(* and frames.                                                             *)
(***************************************************************************)
EXTENDS LlmStreams, SumTheorems, SequenceTheorems, TLAPS

-----------------------------------------------------------------------------
(* Frames and bytes.                                                       *)

(* Sums of sizes and of bytes.                                             *)

\* Without its first k frames a sequence is k shorter and keeps the rest.
LEMMA DropFacts ==
    ASSUME NEW fs \in Seq(Frame), NEW k \in 0..Len(fs)
    PROVE  /\ Drop(fs, k) \in Seq(Frame) /\ Len(Drop(fs, k)) = Len(fs) - k
           /\ \A i \in 1..(Len(fs) - k) : Drop(fs, k)[i] = fs[i + k]
           /\ SubSeq(fs, 1, k) \in Seq(Frame) /\ Len(SubSeq(fs, 1, k)) = k
           /\ \A i \in 1..k : SubSeq(fs, 1, k)[i] = fs[i]
  <1>1. k \in Nat /\ k <= Len(fs) /\ Len(fs) \in Nat
    OBVIOUS
  <1> QED BY <1>1 DEF Drop

\* The sum is over the positions of the sequence.
SizeAt(fs) == [i \in 1..Len(fs) |-> fs[i].size]

\* The size of a sequence of frames is a sum over its indices.
LEMMA SizesAre ==
    ASSUME NEW fs \in Seq(Frame)
    PROVE  /\ SumSizes(fs) = SumFunctionOnSet(SizeAt(fs), 1..Len(fs))
           /\ \A i \in 1..Len(fs) : SizeAt(fs)[i] = fs[i].size /\ SizeAt(fs)[i] \in Nat
           /\ IsFiniteSet(1..Len(fs))
  <1>1. DOMAIN fs = 1..Len(fs) /\ Len(fs) \in Nat
    OBVIOUS
  <1>2. SumSizes(fs) = SumFunctionOnSet(SizeAt(fs), DOMAIN SizeAt(fs))
    BY <1>1, Zenon DEF SumSizes, SumFunction, SizeAt
  <1>3. DOMAIN SizeAt(fs) = 1..Len(fs)
    BY DEF SizeAt
  <1>4. \A i \in 1..Len(fs) : fs[i] \in Frame
    OBVIOUS
  <1>5. \A i \in 1..Len(fs) : SizeAt(fs)[i] = fs[i].size /\ SizeAt(fs)[i] \in Nat
    BY <1>4 DEF Frame, SizeAt
  <1>6. IsFiniteSet(1..Len(fs))
    BY <1>1, FS_Interval
  <1> QED BY <1>2, <1>3, <1>5, <1>6, Zenon

\* The size of a sequence of frames is a natural.
LEMMA SizesType ==
    ASSUME NEW fs \in Seq(Frame)
    PROVE  SumSizes(fs) \in Nat
  <1>1. SumFunctionOnSet(SizeAt(fs), 1..Len(fs)) \in Nat
    BY SizesAre, SumType
  <1> QED BY <1>1, SizesAre

\* No frames have no size.
LEMMA SizesEmpty == SumSizes(<<>>) = 0
  <1>1. <<>> \in Seq(Frame) /\ 1..Len(<<>>) = {}
    OBVIOUS
  <1>2. SumSizes(<<>>) = SumFunctionOnSet(SizeAt(<<>>), {})
    BY <1>1, SizesAre
  <1> QED BY <1>2, SumEmpty

\* What is cut off the front is what the sum loses.
LEMMA SizesCut ==
    ASSUME NEW fs \in Seq(Frame), NEW k \in 0..Len(fs)
    PROVE  SumSizes(fs) = SumSizes(SubSeq(fs, 1, k)) + SumSizes(Drop(fs, k))
  <1> DEFINE n == Len(fs)
             a == SubSeq(fs, 1, k)
             b == Drop(fs, k)
             w == SizeAt(fs)
             u == SizeAt(a)
             v == SizeAt(b)
  <1>1. n \in Nat /\ k \in Nat /\ k <= n /\ n - k \in Nat /\ k + (n - k) = n
    OBVIOUS
  <1>2. /\ a \in Seq(Frame) /\ Len(a) = k /\ \A i \in 1..k : a[i] = fs[i]
        /\ b \in Seq(Frame) /\ Len(b) = n - k /\ \A i \in 1..(n - k) : b[i] = fs[i + k]
    BY DropFacts
  <1> HIDE DEF a, b
  <1>3. /\ SumSizes(fs) = SumFunctionOnSet(w, 1..n)
        /\ \A i \in 1..n : w[i] = fs[i].size /\ w[i] \in Nat
        /\ IsFiniteSet(1..n)
    BY SizesAre
  <1>4. /\ SumSizes(a) = SumFunctionOnSet(u, 1..k)
        /\ \A i \in 1..k : u[i] = a[i].size
        /\ IsFiniteSet(1..k)
    BY <1>2, SizesAre
  <1>5. /\ SumSizes(b) = SumFunctionOnSet(v, 1..(n - k))
        /\ \A i \in 1..(n - k) : v[i] = b[i].size
    BY <1>2, SizesAre
  <1> HIDE DEF u, v, w, n
  <1>6. \A i \in 1..k : u[i] = w[i] /\ w[i] \in Nat
    <2> SUFFICES ASSUME NEW i \in 1..k PROVE u[i] = w[i] /\ w[i] \in Nat
      OBVIOUS
    <2>1. i \in 1..n
      BY <1>1
    <2>2. u[i] = a[i].size /\ a[i] = fs[i] /\ w[i] = fs[i].size
      BY <1>2, <1>3, <1>4, <2>1
    <2> QED BY <1>3, <2>1, <2>2
  <1>7. SumFunctionOnSet(u, 1..k) = SumFunctionOnSet(w, 1..k)
    BY <1>4, <1>6, SumSame
  <1>8. \A i \in 1..(n - k) : v[i] = w[i + k]
    <2> SUFFICES ASSUME NEW i \in 1..(n - k) PROVE v[i] = w[i + k]
      OBVIOUS
    <2>1. i + k \in 1..n
      BY <1>1
    <2>2. v[i] = b[i].size /\ b[i] = fs[i + k] /\ w[i + k] = fs[i + k].size
      BY <1>2, <1>3, <1>5, <2>1
    <2> QED BY <2>2
  <1>9. \A i \in (k + 1)..(k + (n - k)) : w[i] \in Nat
    BY <1>1, <1>3
  <1>10. SumFunctionOnSet(v, 1..(n - k)) = SumFunctionOnSet(w, (k + 1)..(k + (n - k)))
    <2> DEFINE m == n - k
    <2>1. m \in Nat /\ k \in Nat
      BY <1>1
    <2>2. /\ \A i \in 1..m : v[i] = w[i + k]
          /\ \A i \in (k + 1)..(k + m) : w[i] \in Nat
      BY <1>8, <1>9
    <2> HIDE DEF m
    <2>3. SumFunctionOnSet(v, 1..m) = SumFunctionOnSet(w, (k + 1)..(k + m))
      BY <2>1, <2>2, SumShift
    <2> QED BY <2>3 DEF m
  <1>11. (1..k) \in SUBSET (1..n) /\ (1..n) \ (1..k) = (k + 1)..(k + (n - k))
    BY <1>1
  <1>12. SumFunctionOnSet(w, 1..n)
            = SumFunctionOnSet(w, 1..k) + SumFunctionOnSet(w, (1..n) \ (1..k))
    <2> DEFINE A == 1..n
               B == 1..k
    <2>1. IsFiniteSet(A) /\ B \in SUBSET A /\ \A i \in A : w[i] \in Nat
      BY <1>3, <1>11
    <2> HIDE DEF A, B
    <2>2. SumFunctionOnSet(w, A) = SumFunctionOnSet(w, B) + SumFunctionOnSet(w, A \ B)
      BY <2>1, SumSplit
    <2> QED BY <2>2 DEF A, B
  <1>13. SumSizes(fs) = SumSizes(a) + SumSizes(b)
    BY <1>3, <1>4, <1>5, <1>7, <1>10, <1>11, <1>12
  <1> QED BY <1>13 DEF a, b

\* A frame appended adds its size.
LEMMA SizesAppend ==
    ASSUME NEW fs \in Seq(Frame), NEW fr \in Frame
    PROVE  SumSizes(Append(fs, fr)) = SumSizes(fs) + fr.size
  <1> DEFINE all == Append(fs, fr)
             n == Len(fs)
             w == SizeAt(all)
             u == SizeAt(fs)
  <1>1. /\ all \in Seq(Frame) /\ Len(all) = n + 1 /\ n \in Nat
        /\ all[n + 1] = fr /\ \A i \in 1..n : all[i] = fs[i]
    OBVIOUS
  <1> HIDE DEF all
  <1>2. /\ SumSizes(all) = SumFunctionOnSet(w, 1..(n + 1))
        /\ \A i \in 1..(n + 1) : w[i] = all[i].size /\ w[i] \in Nat
        /\ IsFiniteSet(1..(n + 1))
    BY <1>1, SizesAre
  <1>3. /\ SumSizes(fs) = SumFunctionOnSet(u, 1..n) /\ IsFiniteSet(1..n)
        /\ \A i \in 1..n : u[i] = fs[i].size /\ u[i] \in Nat
    BY SizesAre
  <1> HIDE DEF u, w, n
  <1>4. w[n + 1] = fr.size /\ \A i \in 1..n : w[i] = u[i]
    BY <1>1, <1>2, <1>3
  <1>5. n + 1 \in 1..(n + 1) /\ (1..(n + 1)) \ {n + 1} = 1..n
    BY <1>1
  <1>6. SumFunctionOnSet(w, 1..(n + 1))
           = w[n + 1] + SumFunctionOnSet(w, (1..(n + 1)) \ {n + 1})
    BY <1>2, <1>5, SumRemove
  <1>7. SumFunctionOnSet(w, 1..n) = SumFunctionOnSet(u, 1..n)
    BY <1>3, <1>4, SumSame
  <1>8. SumFunctionOnSet(w, 1..(n + 1)) = fr.size + SumFunctionOnSet(u, 1..n)
    BY <1>4, <1>5, <1>6, <1>7
  <1>9. SumSizes(fs) \in Nat /\ fr.size \in Nat
    BY SizesType DEF Frame
  <1> QED BY <1>2, <1>3, <1>8, <1>9 DEF all

-----------------------------------------------------------------------------
\* The bytes of some sessions are a sum over their streams.
LEMMA BytesAre ==
    ASSUME NEW S \in SUBSET Streams, NEW ss, \A s \in S : ss[s].bytes \in Nat
    PROVE  /\ SumBytes(ss, S) = SumFunctionOnSet([s \in S |-> ss[s].bytes], S)
           /\ \A s \in S : [t \in S |-> ss[t].bytes][s] = ss[s].bytes
           /\ IsFiniteSet(S)
  <1>1. SumBytes(ss, S) = SumFunctionOnSet([s \in S |-> ss[s].bytes],
                                           DOMAIN [s \in S |-> ss[s].bytes])
    BY Zenon DEF SumBytes, SumFunction
  <1>2. DOMAIN [s \in S |-> ss[s].bytes] = S
    OBVIOUS
  <1>3. IsFiniteSet(S)
    BY DomainAssumption, FS_Subset
  <1> QED BY <1>1, <1>2, <1>3, Zenon

\* The bytes of some sessions are a natural.
LEMMA BytesType ==
    ASSUME NEW S \in SUBSET Streams, NEW ss, \A s \in S : ss[s].bytes \in Nat
    PROVE  SumBytes(ss, S) \in Nat
  <1> DEFINE w == [s \in S |-> ss[s].bytes]
  <1>1. \A s \in S : w[s] \in Nat
    OBVIOUS
  <1>2. IsFiniteSet(S) /\ SumBytes(ss, S) = SumFunctionOnSet(w, S)
    BY BytesAre
  <1> HIDE DEF w
  <1> QED BY <1>1, <1>2, SumType

\* The bytes of some sessions, part by part.
LEMMA BytesSplit ==
    ASSUME NEW S \in SUBSET Streams, NEW ss, \A s \in S : ss[s].bytes \in Nat,
           NEW R \in SUBSET S
    PROVE  SumBytes(ss, S) = SumBytes(ss, R) + SumBytes(ss, S \ R)
  <1> DEFINE w == [s \in S |-> ss[s].bytes]
             u == [s \in R |-> ss[s].bytes]
             v == [s \in S \ R |-> ss[s].bytes]
  <1>1. IsFiniteSet(S) /\ SumBytes(ss, S) = SumFunctionOnSet(w, S)
    BY BytesAre
  <1>2. IsFiniteSet(R) /\ SumBytes(ss, R) = SumFunctionOnSet(u, R)
    BY BytesAre
  <1>3. IsFiniteSet(S \ R) /\ SumBytes(ss, S \ R) = SumFunctionOnSet(v, S \ R)
    BY BytesAre
  <1>4. /\ \A s \in S : w[s] \in Nat
        /\ \A s \in R : u[s] = w[s] /\ w[s] \in Nat
        /\ \A s \in S \ R : v[s] = w[s] /\ w[s] \in Nat
    OBVIOUS
  <1> HIDE DEF u, v, w
  <1>5. SumFunctionOnSet(u, R) = SumFunctionOnSet(w, R)
    BY <1>2, <1>4, SumSame
  <1>6. SumFunctionOnSet(v, S \ R) = SumFunctionOnSet(w, S \ R)
    BY <1>3, <1>4, SumSame
  <1>7. SumFunctionOnSet(w, S) = SumFunctionOnSet(w, R) + SumFunctionOnSet(w, S \ R)
    BY <1>1, <1>4, SumSplit
  <1> QED BY <1>1, <1>2, <1>3, <1>5, <1>6, <1>7

\* Sessions of the same bytes have the same total.
LEMMA BytesSame ==
    ASSUME NEW S \in SUBSET Streams, NEW ss, \A s \in S : ss[s].bytes \in Nat,
           NEW tt, \A s \in S : tt[s].bytes = ss[s].bytes
    PROVE  SumBytes(tt, S) = SumBytes(ss, S)
  <1> DEFINE w == [s \in S |-> ss[s].bytes]
             u == [s \in S |-> tt[s].bytes]
  <1>1. IsFiniteSet(S) /\ SumBytes(ss, S) = SumFunctionOnSet(w, S)
    BY BytesAre
  <1>2. SumBytes(tt, S) = SumFunctionOnSet(u, S)
    BY BytesAre
  <1>3. \A s \in S : w[s] \in Nat /\ u[s] = w[s]
    OBVIOUS
  <1> HIDE DEF u, w
  <1> QED BY <1>1, <1>2, <1>3, SumSame

\* The bytes of one session and of the others.
LEMMA BytesOne ==
    ASSUME NEW S \in SUBSET Streams, NEW ss, \A s \in S : ss[s].bytes \in Nat,
           NEW s \in S
    PROVE  SumBytes(ss, S) = ss[s].bytes + SumBytes(ss, S \ {s})
  <1> DEFINE w == [t \in S |-> ss[t].bytes]
             v == [t \in S \ {s} |-> ss[t].bytes]
  <1>1. IsFiniteSet(S) /\ SumBytes(ss, S) = SumFunctionOnSet(w, S)
    BY BytesAre
  <1>2. IsFiniteSet(S \ {s}) /\ SumBytes(ss, S \ {s}) = SumFunctionOnSet(v, S \ {s})
    BY BytesAre
  <1>3. /\ \A t \in S : w[t] \in Nat
        /\ \A t \in S \ {s} : v[t] = w[t] /\ w[t] \in Nat
        /\ w[s] = ss[s].bytes
    OBVIOUS
  <1> HIDE DEF v, w
  <1>4. SumFunctionOnSet(v, S \ {s}) = SumFunctionOnSet(w, S \ {s})
    BY <1>2, <1>3, SumSame
  <1>5. SumFunctionOnSet(w, S) = w[s] + SumFunctionOnSet(w, S \ {s})
    BY <1>1, <1>3, SumRemove
  <1> QED BY <1>1, <1>2, <1>3, <1>4, <1>5

\* No sessions have no bytes.
LEMMA BytesEmpty ==
    ASSUME NEW ss PROVE SumBytes(ss, {}) = 0
  <1>1. SumBytes(ss, {}) = SumFunctionOnSet([s \in {} |-> ss[s].bytes], {})
    BY BytesAre
  <1> QED BY <1>1, SumEmpty

\* What Append does.
LEMMA AppendFacts ==
    ASSUME NEW fs \in Seq(Frame), NEW fr \in Frame
    PROVE  /\ Append(fs, fr) \in Seq(Frame) /\ Len(Append(fs, fr)) = Len(fs) + 1
           /\ Append(fs, fr)[Len(fs) + 1] = fr
           /\ \A i \in 1..Len(fs) : Append(fs, fr)[i] = fs[i]
           /\ Len(fs) \in Nat
  OBVIOUS

\* Nothing is left of a sequence without all its frames, everything without none.
LEMMA DropEnds ==
    ASSUME NEW fs \in Seq(Frame)
    PROVE  /\ Drop(fs, Len(fs)) = <<>> /\ Drop(fs, 0) = fs
           /\ Len(fs) \in 0..Len(fs) /\ 0 \in 0..Len(fs)
           /\ SubSeq(fs, 1, 0) = <<>> /\ Len(fs) \in Nat
  <1>1. Len(fs) \in 0..Len(fs) /\ 0 \in 0..Len(fs) /\ Len(fs) \in Nat
    OBVIOUS
  <1>2. Drop(fs, Len(fs)) \in Seq(Frame) /\ Len(Drop(fs, Len(fs))) = 0
    BY <1>1, DropFacts
  <1>3. \A gs \in Seq(Frame) : Len(gs) = 0 => gs = <<>>
    OBVIOUS
  <1>4. /\ Drop(fs, 0) \in Seq(Frame) /\ Len(Drop(fs, 0)) = Len(fs)
        /\ \A i \in 1..Len(fs) : Drop(fs, 0)[i] = fs[i]
        /\ SubSeq(fs, 1, 0) \in Seq(Frame) /\ Len(SubSeq(fs, 1, 0)) = 0
    <2>1. \A i \in 1..(Len(fs) - 0) : Drop(fs, 0)[i] = fs[i + 0]
      BY <1>1, DropFacts
    <2>2. Len(fs) - 0 = Len(fs) /\ \A i \in 1..Len(fs) : i + 0 = i
      BY <1>1
    <2>3. /\ Drop(fs, 0) \in Seq(Frame) /\ Len(Drop(fs, 0)) = Len(fs) - 0
          /\ SubSeq(fs, 1, 0) \in Seq(Frame) /\ Len(SubSeq(fs, 1, 0)) = 0
      BY <1>1, DropFacts
    <2> QED BY <2>1, <2>2, <2>3
  <1>5. Drop(fs, 0) = fs
    BY <1>4, SeqEqual
  <1> QED BY <1>1, <1>2, <1>3, <1>4, <1>5

Sized(x) == x \in Session /\ x.bytes = SumSizes(x.frames)

\* The frame that append retains, and the error frame of fail.
DataFrame(id, size) == [id |-> id, size |-> size, error |-> FALSE]
ErrorFrame(id) == [id |-> id, size |-> ErrorSize, error |-> TRUE]

\* The session insert() stores counts its bytes.
LEMMA NewSized == Sized(NewSession)
  <1>1. <<>> \in Seq(Frame)
    OBVIOUS
  <1> QED BY <1>1, SizesEmpty DEF Sized, NewSession, Session, Status

\* A session without its first k frames.
LEMMA CutSized ==
    ASSUME NEW x, Sized(x), NEW k \in 0..Len(x.frames)
    PROVE  /\ Less(x.bytes, SumSizes(SubSeq(x.frames, 1, k))) = SumSizes(Drop(x.frames, k))
           /\ Drop(x.frames, k) \in Seq(Frame)
           /\ SumSizes(Drop(x.frames, k)) \in Nat
           /\ SumSizes(SubSeq(x.frames, 1, k)) \in Nat
           /\ x.bytes = SumSizes(SubSeq(x.frames, 1, k)) + SumSizes(Drop(x.frames, k))
  <1> DEFINE fs == x.frames
  <1>1. fs \in Seq(Frame) /\ x.bytes = SumSizes(fs) /\ k \in 0..Len(fs)
    BY DEF Sized, Session
  <1> HIDE DEF fs
  <1>2. /\ SumSizes(fs) = SumSizes(SubSeq(fs, 1, k)) + SumSizes(Drop(fs, k))
        /\ Drop(fs, k) \in Seq(Frame) /\ SubSeq(fs, 1, k) \in Seq(Frame)
    BY <1>1, SizesCut, DropFacts
  <1>3. SumSizes(Drop(fs, k)) \in Nat /\ SumSizes(SubSeq(fs, 1, k)) \in Nat
    BY <1>2, SizesType
  <1>4. Less(x.bytes, SumSizes(SubSeq(fs, 1, k))) = SumSizes(Drop(fs, k))
    BY <1>1, <1>2, <1>3 DEF Less
  <1>5. x.bytes = SumSizes(SubSeq(fs, 1, k)) + SumSizes(Drop(fs, k))
    BY <1>1, <1>2
  <1> QED BY <1>2, <1>3, <1>4, <1>5 DEF fs

\* Cutting the front and appending commute.
LEMMA DropAppend ==
    ASSUME NEW fs \in Seq(Frame), NEW fr \in Frame, NEW k \in 0..Len(fs)
    PROVE  /\ Drop(Append(fs, fr), k) = Append(Drop(fs, k), fr)
           /\ SubSeq(Append(fs, fr), 1, k) = SubSeq(fs, 1, k)
           /\ Append(Drop(fs, k), fr) \in Seq(Frame)
           /\ SumSizes(Append(Drop(fs, k), fr)) = SumSizes(Drop(fs, k)) + fr.size
           /\ SubSeq(Append(Drop(fs, k), fr), 1, Len(Append(Drop(fs, k), fr)) - 1)
                = Drop(fs, k)
  <1> DEFINE all == Append(fs, fr)
             b == Drop(fs, k)
  <1>1. /\ all \in Seq(Frame) /\ Len(all) = Len(fs) + 1 /\ Len(fs) \in Nat
        /\ all[Len(fs) + 1] = fr /\ \A i \in 1..Len(fs) : all[i] = fs[i]
        /\ k \in Nat /\ k <= Len(fs) /\ k \in 0..Len(all)
    OBVIOUS
  <1>2. /\ b \in Seq(Frame) /\ Len(b) = Len(fs) - k
        /\ \A i \in 1..(Len(fs) - k) : b[i] = fs[i + k]
        /\ SubSeq(fs, 1, k) \in Seq(Frame) /\ Len(SubSeq(fs, 1, k)) = k
        /\ \A i \in 1..k : SubSeq(fs, 1, k)[i] = fs[i]
    BY DropFacts
  <1> HIDE DEF all, b
  <1>3. /\ Drop(all, k) \in Seq(Frame) /\ Len(Drop(all, k)) = Len(all) - k
        /\ \A i \in 1..(Len(all) - k) : Drop(all, k)[i] = all[i + k]
        /\ SubSeq(all, 1, k) \in Seq(Frame) /\ Len(SubSeq(all, 1, k)) = k
        /\ \A i \in 1..k : SubSeq(all, 1, k)[i] = all[i]
    BY <1>1, DropFacts
  <1>4. /\ Append(b, fr) \in Seq(Frame) /\ Len(Append(b, fr)) = Len(b) + 1
        /\ Append(b, fr)[Len(b) + 1] = fr
        /\ \A i \in 1..Len(b) : Append(b, fr)[i] = b[i]
    BY <1>2, AppendFacts
  <1>5. Drop(all, k) = Append(b, fr)
    <2>1. Len(Drop(all, k)) = Len(Append(b, fr))
      BY <1>1, <1>2, <1>3, <1>4
    <2>2. ASSUME NEW i \in 1..Len(Drop(all, k))
          PROVE  Drop(all, k)[i] = Append(b, fr)[i]
      <3>1. CASE i = Len(b) + 1
        <4>1. i + k = Len(fs) + 1 /\ i \in 1..(Len(all) - k)
          BY <1>1, <1>2, <1>3, <3>1
        <4> QED BY <1>1, <1>3, <1>4, <3>1, <4>1
      <3>2. CASE i # Len(b) + 1
        <4>1. i \in 1..Len(b) /\ i + k \in 1..Len(fs) /\ i \in 1..(Len(all) - k)
              /\ i \in 1..(Len(fs) - k)
          <5>1. i \in 1..(Len(b) + 1) /\ i # Len(b) + 1 /\ Len(b) \in Nat
            BY <1>1, <1>2, <1>3, <3>2
          <5>2. i \in 1..Len(b)
            BY <5>1
          <5> QED BY <1>1, <1>2, <5>2
        <4> QED BY <1>1, <1>2, <1>3, <1>4, <4>1
      <3> QED BY <3>1, <3>2
    <2> QED BY <1>3, <1>4, <2>1, <2>2, SeqEqual
  <1>6. SubSeq(all, 1, k) = SubSeq(fs, 1, k)
    <2>1. ASSUME NEW i \in 1..k PROVE SubSeq(all, 1, k)[i] = SubSeq(fs, 1, k)[i]
      <3>1. i \in 1..Len(fs)
        BY <1>1, <2>1
      <3>2. SubSeq(all, 1, k)[i] = all[i] /\ SubSeq(fs, 1, k)[i] = fs[i]
        BY <1>2, <1>3, <2>1
      <3> QED BY <1>1, <3>1, <3>2
    <2> QED BY <1>2, <1>3, <2>1, SeqEqual
  <1>7. SumSizes(Append(b, fr)) = SumSizes(b) + fr.size
    BY <1>2, SizesAppend
  <1>8. SubSeq(Append(b, fr), 1, Len(Append(b, fr)) - 1) = b
    <2>1. Len(Append(b, fr)) - 1 = Len(b) /\ Len(b) \in 0..Len(Append(b, fr)) /\ Len(b) \in Nat
      BY <1>2, <1>4
    <2>2. /\ SubSeq(Append(b, fr), 1, Len(b)) \in Seq(Frame)
          /\ Len(SubSeq(Append(b, fr), 1, Len(b))) = Len(b)
          /\ \A i \in 1..Len(b) : SubSeq(Append(b, fr), 1, Len(b))[i] = Append(b, fr)[i]
      BY <1>4, <2>1, DropFacts
    <2>3. SubSeq(Append(b, fr), 1, Len(b)) = b
      BY <1>2, <1>4, <2>2, SeqEqual
    <2> QED BY <2>1, <2>3
  <1> QED BY <1>4, <1>5, <1>6, <1>7, <1>8 DEF all, b

\* append's loop stops at the latest where the frames fit.
LEMMA FirstFit ==
    ASSUME NEW all \in Seq(Frame), NEW n \in 0..Len(all), ~Over(Drop(all, n))
    PROVE  LET k == CHOOSE k \in 0..Len(all) :
                      ~Over(Drop(all, k)) /\ \A j \in 0..(k - 1) : Over(Drop(all, j))
           IN  k \in 0..n /\ ~Over(Drop(all, k))
  <1> DEFINE P(k) == ~Over(Drop(all, k)) /\ \A j \in 0..(k - 1) : Over(Drop(all, j))
             T == {j \in 0..n : ~Over(Drop(all, j))}
  <1>1. T \in SUBSET Nat /\ T # {} /\ n \in Nat /\ n <= Len(all) /\ Len(all) \in Nat
    OBVIOUS
  <1>2. PICK j \in T : \A i \in T : j <= i
    BY <1>1, LeastNatural
  <1>3. j \in 0..Len(all) /\ P(j) /\ j \in 0..n
    BY <1>1, <1>2
  <1>4. \A k \in 0..Len(all) : P(k) => k <= j
    BY <1>1, <1>3
  <1> DEFINE k == CHOOSE k \in 0..Len(all) : P(k)
  <1>5. k \in 0..Len(all) /\ P(k)
    BY <1>3
  <1>6. k \in 0..n /\ ~Over(Drop(all, k))
    BY <1>1, <1>3, <1>4, <1>5
  <1> QED BY <1>6

\* What append stores: the frame, behind what is left of the older ones.
LEMMA PushedIs ==
    ASSUME NEW x, Sized(x), NEW size \in Nat \ {0}, size <= MaxBytes
    PROVE  \E k \in 0..Len(x.frames) :
              LET fs == Append(Drop(x.frames, k), DataFrame(x.next_id, size))
              IN  /\ fs \in Seq(Frame) /\ SumSizes(fs) \in Nat
                  /\ SumSizes(fs) <= MaxBytes /\ Len(fs) <= MaxEvents
                  /\ SumSizes(fs) = SumSizes(Drop(x.frames, k)) + size
                  /\ Pushed(x, size) = [x EXCEPT !.frames = fs, !.bytes = SumSizes(fs),
                                                 !.next_id = @ + 1]
                  /\ SubSeq(fs, 1, Len(fs) - 1) = Drop(x.frames, k)
  <1> DEFINE old == x.frames
             fr == DataFrame(x.next_id, size)
             all == Append(old, fr)
             k == CHOOSE k \in 0..Len(all) :
                    ~Over(Drop(all, k)) /\ \A j \in 0..(k - 1) : Over(Drop(all, j))
  <1>1. /\ old \in Seq(Frame) /\ x.bytes = SumSizes(old) /\ fr \in Frame
        /\ fr.size = size /\ x \in Session /\ x.next_id \in Nat /\ x.bytes \in Nat
    BY DEF Sized, Session, Frame, DataFrame
  <1>2. Pushed(x, size) = [x EXCEPT !.frames = Drop(all, k), !.next_id = @ + 1,
                               !.bytes = @ + size - SumSizes(SubSeq(all, 1, k))]
    BY DEF Pushed, DataFrame
  <1> HIDE DEF fr
  <1>3. /\ all \in Seq(Frame) /\ Len(all) = Len(old) + 1 /\ Len(old) \in Nat
        /\ Len(old) \in 0..Len(old) /\ Len(old) \in 0..Len(all)
    BY <1>1
  <1>4. ~Over(Drop(all, Len(old)))
    <2>3. /\ Drop(all, Len(old)) = Append(Drop(old, Len(old)), fr)
          /\ SumSizes(Append(Drop(old, Len(old)), fr)) = SumSizes(Drop(old, Len(old))) + fr.size
      BY <1>1, <1>3, DropAppend
    <2> HIDE DEF all, old
    <2>2. Drop(old, Len(old)) = <<>>
      BY <1>1, DropEnds
    <2>4. SumSizes(Drop(all, Len(old))) = size
      BY <1>1, <2>2, <2>3, SizesEmpty
    <2>6. Len(Drop(all, Len(old))) = Len(all) - Len(old)
      BY <1>3, DropFacts
    <2>5. Len(Drop(all, Len(old))) = 1
      BY <1>3, <2>6
    <2> QED BY <2>4, <2>5, PolicyAssumption DEF Over
  <1>5. k \in 0..Len(old) /\ ~Over(Drop(all, k))
    <2> HIDE DEF all, old
    <2> QED BY <1>3, <1>4, FirstFit
  <1> HIDE DEF k
  <1>6. /\ Drop(all, k) = Append(Drop(old, k), fr) /\ SubSeq(all, 1, k) = SubSeq(old, 1, k)
        /\ Append(Drop(old, k), fr) \in Seq(Frame)
        /\ SumSizes(Append(Drop(old, k), fr)) = SumSizes(Drop(old, k)) + fr.size
        /\ SubSeq(Append(Drop(old, k), fr), 1, Len(Append(Drop(old, k), fr)) - 1) = Drop(old, k)
    <2> HIDE DEF old
    <2> QED BY <1>1, <1>5, DropAppend
  <1>7. /\ SumSizes(Drop(old, k)) \in Nat /\ SumSizes(SubSeq(old, 1, k)) \in Nat
        /\ x.bytes = SumSizes(SubSeq(old, 1, k)) + SumSizes(Drop(old, k))
    BY <1>5, CutSized
  <1> DEFINE fs == Append(Drop(old, k), fr)
  <1>8. /\ Drop(all, k) = fs /\ SubSeq(all, 1, k) = SubSeq(old, 1, k)
        /\ fs \in Seq(Frame) /\ SumSizes(fs) = SumSizes(Drop(old, k)) + size
        /\ SubSeq(fs, 1, Len(fs) - 1) = Drop(old, k)
    BY <1>1, <1>6
  <1> HIDE DEF fs, all
  <1>9. ~Over(fs) /\ SumSizes(fs) \in Nat /\ Len(fs) \in Nat
    BY <1>5, <1>7, <1>8
  <1>10. SumSizes(fs) <= MaxBytes /\ Len(fs) <= MaxEvents
    BY <1>9, PolicyAssumption DEF Over
  <1>11. x.bytes + size - SumSizes(SubSeq(all, 1, k)) = SumSizes(fs)
    <2>1. size \in Nat
      OBVIOUS
    <2>2. SubSeq(all, 1, k) = SubSeq(old, 1, k)
      BY <1>8
    <2> HIDE DEF old
    <2>3. x.bytes + size - SumSizes(SubSeq(old, 1, k)) = SumSizes(Drop(old, k)) + size
      BY <1>7, <2>1
    <2> QED BY <1>8, <2>2, <2>3
  <1>12. Pushed(x, size) = [x EXCEPT !.frames = fs, !.bytes = SumSizes(fs), !.next_id = @ + 1]
    BY <1>1, <1>2, <1>8, <1>11 DEF Session
  <1> QED BY <1>5, <1>8, <1>9, <1>10, <1>12 DEF fs, fr

-----------------------------------------------------------------------------
(* The base: types, and what every session counts.                         *)

StoreOK ==
    /\ live \subseteq Streams
    /\ sessions \in [Streams -> Session]
    /\ total_bytes \in Nat
    /\ \A s \in Streams : Sized(sessions[s])
    /\ \A s \in Streams \ live : sessions[s] = NewSession

TaskOK ==
    /\ clock \in Nat /\ horizon \in 0..clock
    /\ shutdown \in BOOLEAN
    /\ owner \in [Streams -> {"new", "checked", "refused", "run", "ended",
                              "failed", "override", "done"}
                             \cup DOMAIN AfterFail]
    /\ cancelled \in [Streams -> BOOLEAN]
    /\ signal \in [Streams -> {"pending", "completed", "failed"}]
    /\ cause \in [Streams -> Causes]
    /\ controls \subseteq Streams
    /\ activity \in [Streams -> {"open"} \cup (Status \ {"active"})]
    /\ sent \in [Streams -> 0..MaxFrames]
    /\ past \in [Streams -> [error : Nat, deleted : BOOLEAN, stamp : Nat,
                             terminals : Nat]]

BodiesOK == follower \in [Followers -> Body]

Base == StoreOK /\ TaskOK /\ BodiesOK

\* The base of the invariant gives the types.
LEMMA BaseType == Base => TypeOK
  BY DEF Base, StoreOK, TaskOK, BodiesOK, TypeOK

\* The base of the invariant holds at the start.
LEMMA BaseInit == Init => Base
  <1> SUFFICES ASSUME Init PROVE Base
    OBVIOUS
  <1>1. Sized(NewSession) /\ NewSession \in Session
    BY NewSized DEF Sized
  <1>2. StoreOK
    BY <1>1 DEF Init, StoreOK
  <1>3. TaskOK
    <2>0. shutdown \in BOOLEAN /\ cancelled \in [Streams -> BOOLEAN]
      BY DEF Init
    <2>1. /\ clock \in Nat /\ horizon \in 0..clock /\ controls \subseteq Streams
          /\ signal \in [Streams -> {"pending", "completed", "failed"}]
      BY DEF Init
    <2>2. owner \in [Streams -> {"new", "checked", "refused", "run", "ended",
                                "failed", "override", "done"}
                               \cup DOMAIN AfterFail]
      BY DEF Init
    <2>3. cause \in [Streams -> Causes]
          /\ activity \in [Streams -> {"open"} \cup (Status \ {"active"})]
      BY DEF Init, Causes
    <2>4. sent \in [Streams -> 0..MaxFrames]
      BY DomainAssumption DEF Init
    <2>5. past \in [Streams -> [error : Nat, deleted : BOOLEAN, stamp : Nat,
                               terminals : Nat]]
      BY DEF Init
    <2> QED BY <2>0, <2>1, <2>2, <2>3, <2>4, <2>5 DEF TaskOK
  <1>4. NoBody \in Body
    <2>1. <<>> \in Seq(Frame)
      OBVIOUS
    <2> QED BY <2>1 DEF NoBody, Body
  <1> QED BY <1>2, <1>3, <1>4 DEF Init, Base, BodiesOK

\* Taking streams away leaves a sound store.
LEMMA RemovedOK ==
    ASSUME NEW ss \in [Streams -> Session], \A t \in Streams : Sized(ss[t]),
           \A t \in Streams \ live : ss[t] = NewSession, live \subseteq Streams,
           NEW gone \in SUBSET Streams, NEW more \in SUBSET Streams,
           live' = (live \ gone) \cup more, sessions' = Removed(ss, gone),
           total_bytes' \in Nat
    PROVE  StoreOK'
  <1>1. Sized(NewSession) /\ NewSession \in Session
    BY NewSized DEF Sized
  <1>2. \A t \in Streams : sessions'[t] = IF t \in gone THEN NewSession ELSE ss[t]
    BY DEF Removed
  <1>3. sessions' \in [Streams -> Session]
    BY <1>1 DEF Removed
  <1>4. \A t \in Streams : Sized(sessions'[t])
    BY <1>1, <1>2
  <1>5. \A t \in Streams \ live' : sessions'[t] = NewSession
    BY <1>2
  <1> QED BY <1>3, <1>4, <1>5 DEF StoreOK, Sized

\* Notified bodies are bodies.
LEMMA NotifiedOK ==
    ASSUME NEW bodies \in [Followers -> Body], NEW S
    PROVE  Notified(bodies, S) \in [Followers -> Body]
  BY DEF Notified, Body

\* purge_locked removes sessions whose owner is gone or whose ttl is over.
LEMMA PurgedAre ==
    ASSUME NEW ss
    PROVE  /\ Purged(ss) \subseteq live
           /\ \A t \in Purged(ss) : \/ ~ss[t].owner_active
                                    \/ ss[t].terminal_at \in 1..horizon
  BY DEF Purged, Expired, Surplus, Retained

\* A saturating difference is a natural.
LEMMA LessType ==
    ASSUME NEW a \in Int, NEW b \in Int
    PROVE  Less(a, b) \in Nat
  BY DEF Less

\* purge_locked keeps the sessions and the bodies well formed.
LEMMA PurgeOK ==
    ASSUME StoreOK, NEW ss \in [Streams -> Session],
           \A t \in Streams : Sized(ss[t]),
           \A t \in Streams \ live : ss[t] = NewSession,
           NEW bodies \in [Followers -> Body], NEW more \in SUBSET Streams,
           PurgeLocked(ss, bodies, more)
    PROVE  StoreOK' /\ BodiesOK'
  <1> DEFINE gone == Purged(ss)
  <1>1. gone \subseteq live /\ live \subseteq Streams /\ total_bytes \in Nat
    BY PurgedAre DEF StoreOK
  <1>2. /\ live' = (live \ gone) \cup more /\ sessions' = Removed(ss, gone)
        /\ total_bytes' = TotalWithout(total_bytes, ss, gone)
        /\ follower' = Notified(bodies, gone)
    BY DEF PurgeLocked
  <1> HIDE DEF gone
  <1>3. \A t \in gone : ss[t].bytes \in Nat
    BY <1>1 DEF Session
  <1>4. SumBytes(ss, gone) \in Nat
    BY <1>1, <1>3, BytesType
  <1>5. total_bytes' \in Nat
    BY <1>1, <1>2, <1>4, LessType DEF TotalWithout
  <1>6. StoreOK'
    BY <1>1, <1>2, <1>5, RemovedOK
  <1>7. BodiesOK'
    BY <1>2, NotifiedOK DEF BodiesOK
  <1> QED BY <1>6, <1>7

\* A session keeps its frames.
LEMMA SameFrames ==
    ASSUME NEW x, Sized(x), NEW y \in Session, y.frames = x.frames, y.bytes = x.bytes
    PROVE  Sized(y)
  BY DEF Sized

\* What start and attach return is a body.
LEMMA NewBody ==
    ASSUME NEW s \in Streams, NEW after \in Nat, NEW follow \in BOOLEAN
    PROVE  [NoBody EXCEPT !.pc = "ready", !.stream = s, !.after = after,
                          !.cursor = after, !.follow = follow] \in Body
  <1>1. <<>> \in Seq(Frame)
    OBVIOUS
  <1> QED BY <1>1 DEF NoBody, Body

\* A step that leaves the store leaves it well formed.
LEMMA StoreSame ==
    ASSUME StoreOK, UNCHANGED store
    PROVE  StoreOK'
  BY DEF StoreOK, store, Sized

\* A step that leaves the bodies leaves them well formed.
LEMMA BodiesSame ==
    ASSUME BodiesOK, UNCHANGED follower
    PROVE  BodiesOK'
  BY DEF BodiesOK

\* A step that leaves the tasks leaves them well formed.
LEMMA TaskSame ==
    ASSUME TaskOK, UNCHANGED <<time, shutdown, task, past>>
    PROVE  TaskOK'
  BY DEF TaskOK, time, task

\* Writing one field of a session leaves the others.
LEMMA FieldOf ==
    ASSUME NEW x \in Session
    PROVE  /\ \A fs \in Seq(Frame) : LET y == [x EXCEPT !.frames = fs] IN
              /\ y \in Session /\ y.frames = fs /\ y.bytes = x.bytes
              /\ y.next_id = x.next_id
           /\ \A b \in Nat : LET y == [x EXCEPT !.bytes = b] IN
              /\ y \in Session /\ y.frames = x.frames /\ y.bytes = b
              /\ y.next_id = x.next_id
           /\ \A n \in Nat : LET y == [x EXCEPT !.next_id = n] IN
              /\ y \in Session /\ y.frames = x.frames /\ y.bytes = x.bytes
              /\ y.next_id = n
           /\ \A st \in Status : LET y == [x EXCEPT !.status = st] IN
              /\ y \in Session /\ y.frames = x.frames /\ y.bytes = x.bytes
              /\ y.next_id = x.next_id
           /\ \A stamp \in Nat : LET y == [x EXCEPT !.terminal_at = stamp] IN
              /\ y \in Session /\ y.frames = x.frames /\ y.bytes = x.bytes
              /\ y.next_id = x.next_id
  BY DEF Session

\* The fields that append, the cut of fail and fail itself write.
Cut(x, fs, b) == [x EXCEPT !.frames = fs, !.bytes = b]
Written(x, fs, b, n) == [x EXCEPT !.frames = fs, !.bytes = b, !.next_id = n]
Failed(x, fs, b, n, stamp) ==
    [x EXCEPT !.frames = fs, !.bytes = b, !.next_id = n, !.status = "failed",
              !.terminal_at = stamp]

\* The fields of a session whose frames are cut.
LEMMA CutFields ==
    ASSUME NEW x \in Session, NEW fs \in Seq(Frame), NEW b \in Nat
    PROVE  /\ Cut(x, fs, b) \in Session
           /\ Cut(x, fs, b).frames = fs /\ Cut(x, fs, b).bytes = b
  <1> DEFINE y == [x EXCEPT !.frames = fs]
  <1>1. y \in Session /\ y.frames = fs
    BY FieldOf
  <1>2. Cut(x, fs, b) = [y EXCEPT !.bytes = b]
    BY DEF Cut
  <1> HIDE DEF y
  <1> QED BY <1>1, <1>2, FieldOf

\* The fields of a session that append has written.
LEMMA WrittenFields ==
    ASSUME NEW x \in Session, NEW fs \in Seq(Frame), NEW b \in Nat, NEW n \in Nat
    PROVE  /\ Written(x, fs, b, n) \in Session
           /\ Written(x, fs, b, n).frames = fs /\ Written(x, fs, b, n).bytes = b
           /\ Written(x, fs, b, n).next_id = n
  <1> DEFINE y == Cut(x, fs, b)
  <1>1. y \in Session /\ y.frames = fs /\ y.bytes = b
    BY CutFields
  <1>2. Written(x, fs, b, n) = [y EXCEPT !.next_id = n]
    BY DEF Cut, Written
  <1> HIDE DEF y
  <1> QED BY <1>1, <1>2, FieldOf

\* The fields of a session that fail has ended.
LEMMA FailedFields ==
    ASSUME NEW x \in Session, NEW fs \in Seq(Frame), NEW b \in Nat, NEW n \in Nat,
           NEW stamp \in Nat
    PROVE  /\ Failed(x, fs, b, n, stamp) \in Session
           /\ Failed(x, fs, b, n, stamp).frames = fs
           /\ Failed(x, fs, b, n, stamp).bytes = b
  <1> DEFINE y == Written(x, fs, b, n)
             z == [y EXCEPT !.status = "failed"]
  <1>1. y \in Session /\ y.frames = fs /\ y.bytes = b
    BY WrittenFields
  <1>2. Failed(x, fs, b, n, stamp) = [z EXCEPT !.terminal_at = stamp]
    BY DEF Failed, Written
  <1> HIDE DEF y
  <1>3. z \in Session /\ z.frames = fs /\ z.bytes = b
    BY <1>1, FieldOf DEF Status
  <1> HIDE DEF z
  <1> QED BY <1>2, <1>3, FieldOf

\* The frames a session gets from append and from fail.
LEMMA PushedSized ==
    ASSUME NEW x, Sized(x), NEW size \in Nat \ {0}, size <= MaxBytes
    PROVE  /\ Sized(Pushed(x, size))
           /\ Sized([Pushed(x, size) EXCEPT !.frames = SubSeq(@, 1, Len(@) - 1),
                        !.bytes = Less(@, size), !.next_id = @ - 1])
  <1>1. x \in Session /\ x.next_id \in Nat
    BY DEF Sized, Session
  <1>2. PICK k \in 0..Len(x.frames) :
           LET fs == Append(Drop(x.frames, k), DataFrame(x.next_id, size))
           IN  /\ fs \in Seq(Frame) /\ SumSizes(fs) \in Nat
               /\ SumSizes(fs) = SumSizes(Drop(x.frames, k)) + size
               /\ Pushed(x, size) = [x EXCEPT !.frames = fs, !.bytes = SumSizes(fs),
                                              !.next_id = @ + 1]
               /\ SubSeq(fs, 1, Len(fs) - 1) = Drop(x.frames, k)
    BY PushedIs
  <1> DEFINE fs == Append(Drop(x.frames, k), DataFrame(x.next_id, size))
             old == Drop(x.frames, k)
             p == Written(x, fs, SumSizes(fs), x.next_id + 1)
             back == [p EXCEPT !.frames = SubSeq(@, 1, Len(@) - 1),
                               !.bytes = Less(@, size), !.next_id = @ - 1]
  <1>3. /\ fs \in Seq(Frame) /\ SumSizes(fs) \in Nat
        /\ SumSizes(fs) = SumSizes(old) + size
        /\ SubSeq(fs, 1, Len(fs) - 1) = old
        /\ Pushed(x, size) = p
    BY <1>2 DEF Written
  <1>4. old \in Seq(Frame) /\ SumSizes(old) \in Nat
    BY CutSized
  <1> HIDE DEF fs, old, p, back
  <1>5. p \in Session /\ p.frames = fs /\ p.bytes = SumSizes(fs)
        /\ p.next_id = x.next_id + 1
    <2> DEFINE n == x.next_id + 1
               b == SumSizes(fs)
    <2>1. n \in Nat /\ b \in Nat /\ p = Written(x, fs, b, n)
      BY <1>1, <1>3 DEF p
    <2> HIDE DEF n, b
    <2>3. x \in Session /\ fs \in Seq(Frame) /\ b \in Nat /\ n \in Nat
      BY <1>1, <1>3, <2>1
    <2>4. Written(x, fs, b, n).frames = fs
      BY <2>3, WrittenFields
    <2>5. Written(x, fs, b, n) \in Session
      BY <2>3, WrittenFields
    <2>6. Written(x, fs, b, n).bytes = b
      BY <2>3, WrittenFields
    <2>7. Written(x, fs, b, n).next_id = n
      BY <2>3, WrittenFields
    <2>2. p \in Session /\ p.frames = fs /\ p.bytes = b /\ p.next_id = n
      BY <2>1, <2>4, <2>5, <2>6, <2>7
    <2> QED BY <2>2 DEF n, b
  <1>6. Less(SumSizes(fs), size) = SumSizes(old)
    BY <1>3, <1>4 DEF Less
  <1> DEFINE n == p.next_id - 1
  <1>7. back = Written(p, old, SumSizes(old), n)
    BY <1>3, <1>5, <1>6 DEF back, Written
  <1>8. n \in Nat
    BY <1>1, <1>5
  <1> HIDE DEF n
  <1>9. back \in Session /\ back.frames = old /\ back.bytes = SumSizes(old)
    <2> DEFINE b == SumSizes(old)
    <2>1. b \in Nat /\ back = Written(p, old, b, n)
      BY <1>4, <1>7
    <2> HIDE DEF b
    <2>3. p \in Session /\ old \in Seq(Frame) /\ b \in Nat /\ n \in Nat
      BY <1>4, <1>5, <1>8, <2>1
    <2>4. Written(p, old, b, n).frames = old
      BY <2>3, WrittenFields
    <2>5. Written(p, old, b, n).bytes = b
      BY <2>3, WrittenFields
    <2>6. Written(p, old, b, n) \in Session
      BY <2>3, WrittenFields
    <2>2. back \in Session /\ back.frames = old /\ back.bytes = b
      BY <2>1, <2>4, <2>5, <2>6
    <2> QED BY <2>2 DEF b
  <1> QED BY <1>3, <1>5, <1>9 DEF Sized, back

\* A session of fail without its first frames.
LEMMA CutOK ==
    ASSUME NEW x, Sized(x), NEW k \in 0..Len(x.frames)
    PROVE  LET y == [x EXCEPT !.frames = Drop(@, k),
                              !.bytes = Less(@, SumSizes(SubSeq(x.frames, 1, k)))]
               fs == Drop(x.frames, k)
           IN  Sized(y) /\ y = Cut(x, fs, SumSizes(fs))
  <1> DEFINE fs == Drop(x.frames, k)
             e == SumSizes(fs)
             y == [x EXCEPT !.frames = Drop(@, k),
                            !.bytes = Less(@, SumSizes(SubSeq(x.frames, 1, k)))]
  <1>1. /\ fs \in Seq(Frame) /\ e \in Nat /\ x \in Session
        /\ Less(x.bytes, SumSizes(SubSeq(x.frames, 1, k))) = e
    BY CutSized DEF Sized
  <1>2. y = Cut(x, fs, e)
    BY <1>1 DEF Cut, Session
  <1>3. e = SumSizes(fs)
    OBVIOUS
  <1> HIDE DEF y, fs, e
  <1>4. Cut(x, fs, e) \in Session
    BY <1>1, CutFields
  <1>5. Cut(x, fs, e).frames = fs
    BY <1>1, CutFields
  <1>6. Cut(x, fs, e).bytes = e
    BY <1>1, CutFields
  <1>7. Sized(y)
    BY <1>2, <1>3, <1>4, <1>5, <1>6 DEF Sized
  <1> QED BY <1>2, <1>7 DEF y, fs, e

\* The error frame of fail fits any session.
LEMMA ErrorOK ==
    ASSUME NEW x, Sized(x), clock \in Nat
    PROVE  LET fs == Append(x.frames, ErrorFrame(x.next_id))
           IN  /\ Sized(WithError(x))
               /\ WithError(x) = Failed(x, fs, x.bytes + ErrorSize, x.next_id + 1, clock + 1)
               /\ fs \in Seq(Frame)
  <1> DEFINE fr == ErrorFrame(x.next_id)
             fs == Append(x.frames, fr)
             b == x.bytes + ErrorSize
             n == x.next_id + 1
             stamp == clock + 1
  <1>1. x \in Session /\ x.frames \in Seq(Frame) /\ x.next_id \in Nat
        /\ x.bytes \in Nat /\ x.bytes = SumSizes(x.frames)
    BY DEF Sized, Session
  <1>2. ErrorSize \in Nat
    BY PolicyAssumption
  <1>3. fr \in Frame /\ fr.size = ErrorSize
    BY <1>1, <1>2 DEF Frame, ErrorFrame
  <1>4. fs \in Seq(Frame) /\ SumSizes(fs) = b
    <2> HIDE DEF fr
    <2> QED BY <1>1, <1>3, SizesAppend, AppendFacts
  <1>5. b \in Nat /\ n \in Nat /\ stamp \in Nat
    BY <1>1, <1>2
  <1>6. WithError(x) = Failed(x, fs, b, n, stamp)
    BY <1>1 DEF Failed, WithError, ErrorFrame
  <1> HIDE DEF fs, fr, b, n, stamp
  <1>7. /\ WithError(x) \in Session /\ WithError(x).frames = fs
        /\ WithError(x).bytes = b
    <2>1. Failed(x, fs, b, n, stamp).frames = fs
      BY <1>1, <1>4, <1>5, FailedFields
    <2>2. Failed(x, fs, b, n, stamp).bytes = b
      BY <1>1, <1>4, <1>5, FailedFields
    <2>3. Failed(x, fs, b, n, stamp) \in Session
      BY <1>1, <1>4, <1>5, FailedFields
    <2> QED BY <1>6, <2>1, <2>2, <2>3
  <1>8. Sized(WithError(x))
    BY <1>4, <1>7 DEF Sized
  <1> QED BY <1>4, <1>6, <1>8 DEF fs, fr, b, n, stamp

\* The sources: what the generation does.
LEMMA SourceBase ==
    ASSUME Base, NEW s \in Streams,
           \/ Complete(s) \/ SignalFailure(s) \/ AppendDropped(s)
           \/ SourceEnd(s) \/ SourceError(s)
           \/ \E size \in Sizes : AppendOversize(s, size)
    PROVE  Base'
  <1>1. UNCHANGED store /\ UNCHANGED follower
    BY DEF Complete, SignalFailure, AppendDropped, SourceEnd, SourceError,
           AppendOversize, store
  <1>2. TaskOK
    BY DEF Base
  <1>3. TaskOK'
    <2>1. CASE Complete(s)
      BY <1>2, <2>1 DEF TaskOK, Complete, time
    <2>2. CASE SignalFailure(s)
      BY <1>2, <2>2 DEF TaskOK, SignalFailure, time, Status
    <2>3. CASE AppendDropped(s)
      BY <1>2, <2>3, DomainAssumption DEF TaskOK, AppendDropped, time
    <2>4. CASE SourceEnd(s)
      BY <1>2, <2>4 DEF TaskOK, SourceEnd, Unregister, time
    <2>5. CASE SourceError(s)
      BY <1>2, <2>5 DEF TaskOK, SourceError, time, AfterFail
    <2>6. ASSUME NEW size \in Sizes, AppendOversize(s, size) PROVE TaskOK'
      BY <1>2, <2>6, DomainAssumption DEF TaskOK, AppendOversize, CancelWith, time,
         Causes, AfterFail
    <2> QED BY <2>1, <2>2, <2>3, <2>4, <2>5, <2>6
  <1> QED BY <1>1, <1>3, StoreSame, BodiesSame DEF Base

\* append.
LEMMA AppendBase ==
    ASSUME Base, NEW s \in Streams, NEW size \in Sizes, AppendFrame(s, size)
    PROVE  Base'
  <1> DEFINE new == Pushed(sessions[s], size)
             grown == total_bytes + new.bytes - sessions[s].bytes
             gone == Evicted(grown)
             total == TotalWithout(grown, sessions, gone)
             back == [new EXCEPT
                       !.frames = SubSeq(@, 1, Len(@) - 1),
                       !.bytes = Less(@, size), !.next_id = @ - 1]
             kept == [sessions EXCEPT ![s] = new]
             undone == [sessions EXCEPT ![s] = back]
  <1>1. StoreOK /\ TaskOK /\ BodiesOK
    BY DEF Base
  <1>2. size \in Nat \ {0} /\ size <= MaxBytes /\ size \in Nat
    BY DomainAssumption DEF AppendFrame
  <1>3. sessions[s] \in Session /\ Sized(sessions[s]) /\ s \in live
    BY <1>1 DEF StoreOK, AppendFrame, Accepts
  <1>4. Sized(new) /\ Sized(back)
    BY <1>2, <1>3, PushedSized
  <1> HIDE DEF new, back
  <1>5. /\ kept \in [Streams -> Session] /\ undone \in [Streams -> Session]
        /\ \A t \in Streams : Sized(kept[t]) /\ Sized(undone[t])
        /\ \A t \in Streams \ live : kept[t] = NewSession /\ undone[t] = NewSession
    BY <1>1, <1>3, <1>4 DEF StoreOK, Sized
  <1>6. gone \subseteq live /\ live \subseteq Streams /\ gone \in SUBSET Streams
    BY <1>1 DEF Evicted, Retained, StoreOK
  <1>7. total \in Nat
    <2>1. total_bytes \in Int /\ new.bytes \in Int /\ sessions[s].bytes \in Int
      BY <1>1, <1>3, <1>4 DEF StoreOK, Sized, Session
    <2>2. grown \in Int
      BY <2>1
    <2>3. \A t \in gone : sessions[t].bytes \in Nat
      BY <1>1, <1>6 DEF StoreOK, Session
    <2>4. SumBytes(sessions, gone) \in Nat
      BY <1>6, <2>3, BytesType
    <2> HIDE DEF gone, grown
    <2>5. SumBytes(sessions, gone) \in Int
      BY <2>4
    <2> QED BY <2>2, <2>5, LessType, Zenon DEF TotalWithout
  <1>8. \/ /\ total <= MaxTotal
           /\ sessions' = Removed(kept, gone) /\ total_bytes' = total
           /\ follower' = Notified(follower, gone \cup {s})
           /\ UNCHANGED <<owner, cause>>
        \/ /\ total > MaxTotal
           /\ sessions' = Removed(undone, gone) /\ total_bytes' = Less(total, size)
           /\ follower' = Notified(follower, gone)
           /\ CancelWith(s, "ResourceExhausted")
           /\ owner' = [owner EXCEPT ![s] = "failing"]
    BY DEF AppendFrame, new, back
  <1>9. live' = (live \ gone) \cup {}
    BY DEF AppendFrame, new
  <1>10. /\ sent' = [sent EXCEPT ![s] = @ + 1] /\ sent[s] < MaxFrames
         /\ UNCHANGED <<time, shutdown, cancelled, signal, controls, activity, past>>
    BY DEF AppendFrame
  <1> HIDE DEF gone, grown, total, kept, undone
  <1>12. BodiesOK'
    BY <1>1, <1>8, NotifiedOK DEF BodiesOK
  <1>13. TaskOK'
    <2>1. CASE UNCHANGED <<owner, cause>>
      BY <1>1, <1>10, <2>1, DomainAssumption DEF TaskOK, time
    <2>2. CASE CancelWith(s, "ResourceExhausted") /\ owner' = [owner EXCEPT ![s] = "failing"]
      BY <1>1, <1>10, <2>2, DomainAssumption DEF TaskOK, time, CancelWith, Causes, AfterFail
    <2> QED BY <1>8, <2>1, <2>2
  <1>14. total_bytes' \in Nat
    <2>1. total \in Int /\ size \in Int
      BY <1>2, <1>7
    <2>2. Less(total, size) \in Nat
      BY <2>1, LessType, Zenon
    <2> QED BY <1>7, <1>8, <2>2
  <1>15. StoreOK'
    <2>1. CASE sessions' = Removed(kept, gone)
      BY <1>5, <1>6, <1>9, <1>14, <2>1, RemovedOK
    <2>2. CASE sessions' = Removed(undone, gone)
      BY <1>5, <1>6, <1>9, <1>14, <2>2, RemovedOK
    <2> QED BY <1>8, <2>1, <2>2
  <1> QED BY <1>12, <1>13, <1>15 DEF Base

Pops(pop) == \A t \in live : pop[t] \in 0..Len(sessions[t].frames)

\* The loop of fail pops frames that are there.
LEMMA PopsAre ==
    ASSUME StoreOK, NEW s \in live, NEW pop \in [live -> 0..MaxEvents], MakesRoom(s, pop)
    PROVE  Pops(pop)
  <1>1. \A t \in live : pop[t] <= Len(sessions[t].frames)
    <2> SUFFICES ASSUME NEW t \in live PROVE pop[t] <= Len(sessions[t].frames)
      OBVIOUS
    <2> DEFINE m == Len(sessions[t].frames)
               own == CHOOSE k \in 0..Len(sessions[s].frames) : 
                         /\ Len(sessions[s].frames) - k < MaxEvents
                         /\ Less(sessions[s].bytes, SumSizes(SubSeq(sessions[s].frames, 1, k)))
                               + ErrorSize <= MaxBytes
                         /\ \A j \in 0..(k - 1) :
                              ~(/\ Len(sessions[s].frames) - j < MaxEvents
                                /\ Less(sessions[s].bytes, SumSizes(SubSeq(sessions[s].frames, 1, j)))
                                      + ErrorSize <= MaxBytes)
               a == IF t = s THEN own ELSE 0
    <2>1. pop[t] \in a..m
      BY Zenon DEF MakesRoom
    <2>2. m \in Nat /\ pop[t] \in Nat
      BY PolicyAssumption DEF StoreOK, Session
    <2> HIDE DEF m, a
    <2>3. pop[t] <= m
      BY <2>1, <2>2
    <2> QED BY <2>3 DEF m
  <1>2. \A t \in live : pop[t] \in Nat /\ Len(sessions[t].frames) \in Nat
    BY PolicyAssumption DEF StoreOK, Session
  <1> QED BY <1>1, <1>2 DEF Pops

\* What the loop of fail leaves of a session.
LEMMA ShortenedAre ==
    ASSUME StoreOK, NEW pop, Pops(pop), NEW t \in Streams
    PROVE  /\ Sized(Shortened(pop)[t])
           /\ t \notin live => Shortened(pop)[t] = NewSession
           /\ t \in live => Shortened(pop)[t] = Cut(sessions[t], Drop(sessions[t].frames, pop[t]),
                                       SumSizes(Drop(sessions[t].frames, pop[t])))
  <1>1. CASE t \notin live
    <2>1. Shortened(pop)[t] = sessions[t]
      BY <1>1 DEF Shortened
    <2> QED BY <1>1, <2>1 DEF StoreOK
  <1>2. CASE t \in live
    <2> DEFINE x == sessions[t]
               k == pop[t]
    <2>1. Sized(x) /\ k \in 0..Len(x.frames)
      BY <1>2 DEF StoreOK, Pops
    <2>2. Shortened(pop)[t] = [x EXCEPT !.frames = Drop(@, k),
                                  !.bytes = Less(@, SumSizes(SubSeq(x.frames, 1, k)))]
      BY <1>2 DEF Shortened
    <2> HIDE DEF x, k
    <2> DEFINE y == [x EXCEPT !.frames = Drop(@, k),
                              !.bytes = Less(@, SumSizes(SubSeq(x.frames, 1, k)))]
    <2>3. Sized(y) /\ y = Cut(x, Drop(x.frames, k), SumSizes(Drop(x.frames, k)))
      BY <2>1, CutOK
    <2> HIDE DEF y
    <2>4. Shortened(pop)[t] = y
      BY <2>2 DEF y
    <2> QED BY <1>2, <2>3, <2>4 DEF x, k
  <1> QED BY <1>1, <1>2

\* What fail does to the sessions, with the frames it pops.
LEMMA FailIs ==
    ASSUME StoreOK, NEW s \in Streams, Fail(s), Failable(s)
    PROVE  \E pop \in [live -> 0..MaxEvents] :
              /\ MakesRoom(s, pop) /\ Pops(pop)
              /\ sessions' = [Shortened(pop) EXCEPT ![s] = WithError(@)]
              /\ Shortened(pop)[s].next_id = sessions[s].next_id
              /\ total_bytes' = ErrorSize + Less(total_bytes,
                    SumBytes(sessions, live) - SumBytes(Shortened(pop), live))
              /\ clock' = clock + 1
              /\ past' = [past EXCEPT ![s].error = sessions[s].next_id,
                    ![s].stamp = clock + 1, ![s].terminals = @ + 1]
              /\ follower' = Wakes(s)
  <1>0. s \in live /\ s \in Streams
    BY DEF Failable
  <1>1. PICK pop \in [live -> 0..MaxEvents] :
              /\ MakesRoom(s, pop)
              /\ sessions' = [Shortened(pop) EXCEPT ![s] = WithError(@)]
              /\ total_bytes' = ErrorSize + Less(total_bytes,
                    SumBytes(sessions, live) - SumBytes(Shortened(pop), live))
              /\ clock' = clock + 1
              /\ past' = [past EXCEPT ![s].error = sessions[s].next_id,
                    ![s].stamp = clock + 1, ![s].terminals = @ + 1]
              /\ follower' = Wakes(s)
    BY DEF Fail
  <1>2. Pops(pop)
    BY <1>0, <1>1, PopsAre
  <1>3. Shortened(pop)[s].next_id = sessions[s].next_id
    <2>1. Shortened(pop)[s] = Cut(sessions[s], Drop(sessions[s].frames, pop[s]),
                                       SumSizes(Drop(sessions[s].frames, pop[s])))
      BY <1>0, <1>2, ShortenedAre
    <2>2. sessions[s] \in Session
      BY DEF StoreOK
    <2> QED BY <2>1, <2>2 DEF Cut, Session
  <1> QED BY <1>1, <1>2, <1>3

\* fail.
LEMMA FailBase ==
    ASSUME Base, NEW s \in Streams, Fail(s)
    PROVE  Base'
  <1>1. StoreOK /\ TaskOK /\ BodiesOK
    BY DEF Base
  <1>2. /\ owner' = [owner EXCEPT ![s] = AfterFail[@]] /\ owner[s] \in DOMAIN AfterFail
        /\ cancelled' = [cancelled EXCEPT ![s] = @ \/ owner[s] = "failing"]
        /\ UNCHANGED <<live, horizon, shutdown, signal, cause, controls, activity, sent>>
    BY DEF Fail
  <1>3. /\ owner' \in [Streams -> {"new", "checked", "refused", "run", "ended",
                                   "failed", "override", "done"}
                                  \cup DOMAIN AfterFail]
        /\ cancelled' \in [Streams -> BOOLEAN]
    <2>1. AfterFail[owner[s]] \in {"run", "ended", "failed", "override"}
      BY <1>2 DEF AfterFail
    <2>2. cancelled' \in [Streams -> BOOLEAN]
      BY <1>1, <1>2, Zenon DEF TaskOK
    <2> QED BY <1>1, <1>2, <2>1, <2>2 DEF TaskOK
  <1>4. CASE ~Failable(s)
    <2>1. UNCHANGED <<sessions, total_bytes, clock, past, follower>>
      BY <1>4 DEF Fail
    <2>2. TaskOK'
      BY <1>1, <1>2, <1>3, <2>1 DEF TaskOK
    <2> QED BY <1>1, <1>2, <2>1, <2>2, StoreSame, BodiesSame DEF Base, store
  <1>5. CASE Failable(s)
    <2>1. PICK pop \in [live -> 0..MaxEvents] :
              /\ Pops(pop)
              /\ sessions' = [Shortened(pop) EXCEPT ![s] = WithError(@)]
              /\ total_bytes' = ErrorSize + Less(total_bytes,
                    SumBytes(sessions, live) - SumBytes(Shortened(pop), live))
              /\ clock' = clock + 1
              /\ past' = [past EXCEPT ![s].error = sessions[s].next_id,
                    ![s].stamp = clock + 1, ![s].terminals = @ + 1]
              /\ follower' = Wakes(s)
      BY <1>1, <1>5, FailIs
    <2>2. \A t \in Streams : Sized(Shortened(pop)[t])
      BY <1>1, <2>1, ShortenedAre
    <2>3. Sized(WithError(Shortened(pop)[s]))
      <3>1. Sized(Shortened(pop)[s]) /\ clock \in Nat
        BY <1>1, <2>2 DEF TaskOK
      <3> QED BY <3>1, ErrorOK
    <2>4. \A t \in Streams : sessions'[t] = IF t = s THEN WithError(Shortened(pop)[s])
                                            ELSE Shortened(pop)[t]
      BY <2>1 DEF Shortened
    <2>5. \A t \in Streams : Sized(sessions'[t])
      BY <2>2, <2>3, <2>4
    <2>6. \A t \in Streams \ live : sessions'[t] = NewSession
      BY <1>1, <1>5, <2>1, <2>4, ShortenedAre DEF Failable
    <2>7. sessions' \in [Streams -> Session]
      <3>1. DOMAIN sessions' = Streams
        BY <2>1 DEF Shortened
      <3>2. \A t \in Streams : sessions'[t] \in Session
        BY <2>5 DEF Sized
      <3>3. sessions' = [t \in Streams |-> sessions'[t]]
        BY <2>1, <3>1 DEF Shortened
      <3> QED BY <3>2, <3>3
    <2>8. total_bytes' \in Nat
      <3>1. SumBytes(sessions, live) \in Nat
        BY <1>1, BytesType DEF StoreOK, Session
      <3>2. \A t \in live : Shortened(pop)[t].bytes \in Nat
        BY <1>1, <2>2 DEF StoreOK, Sized, Session
      <3>3. SumBytes(Shortened(pop), live) \in Nat
        BY <1>1, <3>2, BytesType DEF StoreOK
      <3> DEFINE d == SumBytes(sessions, live) - SumBytes(Shortened(pop), live)
      <3>4. d \in Int /\ total_bytes \in Int
        BY <1>1, <3>1, <3>3 DEF StoreOK
      <3> HIDE DEF d
      <3>5. Less(total_bytes, d) \in Nat
        BY <3>4, LessType
      <3>6. total_bytes' = ErrorSize + Less(total_bytes, d)
        BY <2>1 DEF d
      <3> QED BY <3>5, <3>6, PolicyAssumption
    <2>9. StoreOK'
      BY <1>1, <1>2, <2>5, <2>6, <2>7, <2>8 DEF StoreOK, Sized
    <2>10. TaskOK'
      <3>1. sessions[s].next_id \in Nat
        BY <1>1 DEF StoreOK, Session
      <3>2. past' \in [Streams -> [error : Nat, deleted : BOOLEAN, stamp : Nat,
                                   terminals : Nat]]
        BY <1>1, <2>1, <3>1 DEF TaskOK
      <3>3. clock' \in Nat /\ horizon' \in 0..clock'
        BY <1>1, <1>2, <2>1 DEF TaskOK
      <3> QED BY <1>1, <1>2, <1>3, <3>2, <3>3 DEF TaskOK
    <2>11. BodiesOK'
      BY <1>1, <2>1, NotifiedOK DEF BodiesOK, Wakes
    <2> QED BY <2>9, <2>10, <2>11 DEF Base
  <1> QED BY <1>4, <1>5

\* A session whose frames stay.
LEMMA Kept ==
    ASSUME StoreOK, NEW ss, NEW s \in Streams, NEW y \in Session,
           y.frames = sessions[s].frames, y.bytes = sessions[s].bytes, s \in live,
           ss = [sessions EXCEPT ![s] = y]
    PROVE  /\ ss \in [Streams -> Session] /\ \A t \in Streams : Sized(ss[t])
           /\ \A t \in Streams \ live : ss[t] = NewSession
  BY SameFrames DEF StoreOK

\* A call that changes one session, but not its frames, keeps the store well formed.
LEMMA StoreKept ==
    ASSUME StoreOK, NEW s \in Streams, NEW y \in Session,
           y.frames = sessions[s].frames, y.bytes = sessions[s].bytes, s \in live,
           sessions' = [sessions EXCEPT ![s] = y], UNCHANGED <<live, total_bytes>>
    PROVE  StoreOK'
  <1>1. /\ sessions' \in [Streams -> Session] /\ \A t \in Streams : Sized(sessions'[t])
        /\ \A t \in Streams \ live : sessions'[t] = NewSession
    BY Kept
  <1> QED BY <1>1 DEF StoreOK, Sized

\* A session that becomes terminal.
LEMMA EndedIs ==
    ASSUME NEW x \in Session, NEW st \in Status, clock \in Nat
    PROVE  /\ LET y == [x EXCEPT !.owner_active = FALSE, !.status = st,
                                 !.terminal_at = clock + 1]
              IN  /\ y \in Session /\ y.frames = x.frames /\ y.bytes = x.bytes
           /\ LET y == [x EXCEPT !.deleted = TRUE, !.status = st,
                                 !.terminal_at = clock + 1]
              IN  /\ y \in Session /\ y.frames = x.frames /\ y.bytes = x.bytes
  <1> DEFINE stamp == clock + 1
             a == [x EXCEPT !.owner_active = FALSE]
             b == [x EXCEPT !.deleted = TRUE]
  <1>1. /\ a \in Session /\ a.frames = x.frames /\ a.bytes = x.bytes
        /\ b \in Session /\ b.frames = x.frames /\ b.bytes = x.bytes
    BY DEF Session
  <1>5. stamp \in Nat
    OBVIOUS
  <1>2. \A y \in Session : LET z == [y EXCEPT !.status = st] IN
           z \in Session /\ z.frames = y.frames /\ z.bytes = y.bytes
    BY FieldOf
  <1> HIDE DEF stamp, a, b
  <1>3. \A y \in Session : LET z == [y EXCEPT !.terminal_at = stamp] IN
           z \in Session /\ z.frames = y.frames /\ z.bytes = y.bytes
    BY <1>5, FieldOf
  <1>4. \A y \in Session : LET z == [y EXCEPT !.status = st, !.terminal_at = stamp] IN
           z \in Session /\ z.frames = y.frames /\ z.bytes = y.bytes
    BY <1>2, <1>3
  <1> QED BY <1>1, <1>4 DEF stamp, a, b

\* The store as it is can be purged.
LEMMA PurgeNow ==
    ASSUME StoreOK, NEW bodies \in [Followers -> Body], NEW more \in SUBSET Streams,
           PurgeLocked(sessions, bodies, more)
    PROVE  StoreOK' /\ BodiesOK'
  BY PurgeOK DEF StoreOK

\* The owner task besides fail.
LEMMA OwnerBase ==
    ASSUME Base, NEW s \in Streams,
           Override(s) \/ Missing(s) \/ Finish(s) \/ SeeShutdown(s)
    PROVE  Base'
  <1>1. StoreOK /\ TaskOK /\ BodiesOK
    BY DEF Base
  <1>2. sessions[s] \in Session
    BY <1>1 DEF StoreOK
  <1>3. CASE Override(s)
    <2>1. TaskOK'
      BY <1>1, <1>3 DEF Override, TaskOK, time
    <2>2. BodiesOK'
      BY <1>1, <1>3, BodiesSame DEF Override
    <2>3. StoreOK'
      <3>1. CASE s \in live
        <4> DEFINE y == [sessions[s] EXCEPT !.status = "cancelled"]
        <4>1. y \in Session /\ y.frames = sessions[s].frames /\ y.bytes = sessions[s].bytes
          BY <1>2 DEF Session, Status
        <4>2. sessions' = [sessions EXCEPT ![s] = y] /\ UNCHANGED <<live, total_bytes>>
          BY <1>1, <1>3, <3>1 DEF Override, StoreOK
        <4> HIDE DEF y
        <4> QED BY <1>1, <3>1, <4>1, <4>2, StoreKept
      <3>2. CASE s \notin live
        BY <1>1, <1>3, <3>2, StoreSame DEF Override, store
      <3> QED BY <3>1, <3>2
    <2> QED BY <2>1, <2>2, <2>3 DEF Base
  <1>4. CASE Missing(s)
    <2>1. TaskOK'
      BY <1>1, <1>4 DEF Missing, TaskOK, time, AfterFail
    <2> QED BY <1>1, <1>4, <2>1, StoreSame, BodiesSame DEF Missing, Base
  <1>5. CASE SeeShutdown(s)
    <2>1. TaskOK'
      BY <1>1, <1>5 DEF SeeShutdown, TaskOK, time, AfterFail, CancelWith, Causes
    <2> QED BY <1>1, <1>5, <2>1, StoreSame, BodiesSame DEF SeeShutdown, Base
  <1>6. CASE Finish(s)
    <2>1. /\ owner' = [owner EXCEPT ![s] = "done"] /\ controls' = controls \ {s}
          /\ UNCHANGED <<horizon, shutdown, cancelled, signal, cause, sent>>
      BY <1>6 DEF Finish, Unregister
    <2>2. /\ owner' \in [Streams -> {"new", "checked", "refused", "run", "ended",
                                     "failed", "override", "done"}
                                    \cup DOMAIN AfterFail]
          /\ controls' \subseteq Streams
      BY <1>1, <2>1 DEF TaskOK
    <2>3. Outcome(s) \in Status \ {"active"}
      BY <1>1 DEF Outcome, Status, TaskOK
    <2>4. Wakes(s) \in [Followers -> Body]
      BY <1>1, NotifiedOK DEF Wakes, BodiesOK
    <2>5. CASE s \in live /\ sessions[s].status = "active"
      <3> DEFINE y == [sessions[s] EXCEPT !.owner_active = FALSE, !.status = Outcome(s),
                                          !.terminal_at = clock + 1]
                 ss == [sessions EXCEPT ![s] = y]
      <3>1. PurgeLocked(ss, Wakes(s), {}) /\ Stamp(s)
            /\ activity' = [activity EXCEPT ![s] = IF @ = "open" THEN Outcome(s) ELSE @]
        BY <1>6, <2>5 DEF Finish
      <3>2. y \in Session /\ y.frames = sessions[s].frames /\ y.bytes = sessions[s].bytes
        BY <1>1, <1>2, <2>3, EndedIs DEF TaskOK
      <3> HIDE DEF y
      <3>3. /\ ss \in [Streams -> Session] /\ \A t \in Streams : Sized(ss[t])
            /\ \A t \in Streams \ live : ss[t] = NewSession
        BY <1>1, <2>5, <3>2, Kept
      <3> HIDE DEF ss
      <3>4. StoreOK' /\ BodiesOK'
        BY <1>1, <2>4, <3>1, <3>3, PurgeOK
      <3>5. activity' \in [Streams -> {"open"} \cup (Status \ {"active"})]
        BY <1>1, <2>3, <3>1 DEF TaskOK
      <3>6. /\ clock' \in Nat /\ horizon' \in 0..clock'
            /\ past' \in [Streams -> [error : Nat, deleted : BOOLEAN, stamp : Nat,
                                      terminals : Nat]]
        BY <1>1, <2>1, <3>1 DEF TaskOK, Stamp
      <3>7. TaskOK'
        BY <1>1, <2>1, <2>2, <3>5, <3>6 DEF TaskOK
      <3> QED BY <3>4, <3>7 DEF Base
    <2>6. CASE s \in live /\ sessions[s].status # "active"
      <3> DEFINE y == [sessions[s] EXCEPT !.owner_active = FALSE]
                 ss == [sessions EXCEPT ![s] = y]
      <3>1. PurgeLocked(ss, Wakes(s), {}) /\ UNCHANGED <<clock, past>>
            /\ activity' = [activity EXCEPT ![s] = IF @ = "open" THEN Reported(s) ELSE @]
        BY <1>6, <2>6 DEF Finish
      <3>2. y \in Session /\ y.frames = sessions[s].frames /\ y.bytes = sessions[s].bytes
        BY <1>1, <1>2, <2>3 DEF Session, TaskOK
      <3> HIDE DEF y
      <3>3. /\ ss \in [Streams -> Session] /\ \A t \in Streams : Sized(ss[t])
            /\ \A t \in Streams \ live : ss[t] = NewSession
        BY <1>1, <2>6, <3>2, Kept
      <3> HIDE DEF ss
      <3>4. StoreOK' /\ BodiesOK'
        BY <1>1, <2>4, <3>1, <3>3, PurgeOK
      <3>5. activity' \in [Streams -> {"open"} \cup (Status \ {"active"})]
        <4>1. Reported(s) \in Status \ {"active"}
          BY <1>2, <2>6 DEF Reported, Session
        <4> QED BY <1>1, <3>1, <4>1 DEF TaskOK
      <3>6. TaskOK'
        BY <1>1, <2>1, <2>2, <3>1, <3>5 DEF TaskOK
      <3> QED BY <3>4, <3>6 DEF Base
    <2>7. CASE s \notin live
      <3>1. UNCHANGED <<store, follower, clock, past, activity>>
        BY <1>6, <2>7 DEF Finish
      <3>2. TaskOK'
        BY <1>1, <2>1, <2>2, <3>1 DEF TaskOK
      <3> QED BY <1>1, <3>1, <3>2, StoreSame, BodiesSame DEF Base
    <2> QED BY <2>5, <2>6, <2>7
  <1> QED BY <1>3, <1>4, <1>5, <1>6

\* The calls of clients keep the base of the invariant.
LEMMA ClientBase ==
    ASSUME Base, NEW s \in Streams, ClientStep(s)
    PROVE  Base'
  <1>1. StoreOK /\ TaskOK /\ BodiesOK /\ sessions[s] \in Session
    BY DEF Base, StoreOK
  <1>2. CASE CheckStart(s)
    <2>1. TaskOK'
      BY <1>1, <1>2 DEF CheckStart, TaskOK, time
    <2> QED BY <1>1, <1>2, <2>1, StoreSame, BodiesSame DEF CheckStart, Base
  <1>3. CASE Refuse(s)
    <2>1. TaskOK'
      BY <1>1, <1>3 DEF Refuse, TaskOK, time, Unregister
    <2>2. StoreOK' /\ BodiesOK'
      BY <1>1, <1>3, PurgeNow DEF Refuse, BodiesOK
    <2> QED BY <2>1, <2>2 DEF Base
  <1>4. ASSUME NEW f \in Followers, Start(s, f) PROVE Base'
    <2>1. TaskOK'
      BY <1>1, <1>4 DEF Start, TaskOK, time
    <2> DEFINE new == [NoBody EXCEPT !.pc = "ready", !.stream = s, !.follow = TRUE]
               bodies == [follower EXCEPT ![f] = new]
    <2>2. new \in Body
      <3>1. <<>> \in Seq(Frame)
        OBVIOUS
      <3> QED BY <3>1 DEF NoBody, Body
    <2> HIDE DEF new
    <2>3. bodies \in [Followers -> Body]
      BY <1>1, <2>2 DEF BodiesOK
    <2>4. PurgeLocked(sessions, bodies, {s})
      BY <1>4 DEF Start, new
    <2> HIDE DEF bodies
    <2>5. StoreOK' /\ BodiesOK'
      BY <1>1, <2>3, <2>4, PurgeNow
    <2> QED BY <2>1, <2>5 DEF Base
  <1>5. CASE Delete(s)
    <2>1. /\ s \in live /\ follower' = Wakes(s)
          /\ UNCHANGED <<live, total_bytes, horizon, shutdown, owner, cancelled,
                         signal, activity, sent>>
          /\ controls' = controls \ {s}
      BY <1>5 DEF Delete, Unregister
    <2>2. BodiesOK'
      BY <1>1, <2>1, NotifiedOK DEF Wakes, BodiesOK
    <2>3. CASE sessions[s].status = "active"
      <3> DEFINE y == [sessions[s] EXCEPT !.deleted = TRUE, !.status = "cancelled",
                                          !.terminal_at = clock + 1]
      <3>1. /\ sessions' = [sessions EXCEPT ![s] = y] /\ clock' = clock + 1
            /\ past' = [past EXCEPT ![s].deleted = TRUE,
                          ![s].stamp = clock + 1, ![s].terminals = @ + 1]
            /\ CancelWith(s, "UserDeleted")
        BY <1>5, <2>3 DEF Delete
      <3>2. y \in Session /\ y.frames = sessions[s].frames /\ y.bytes = sessions[s].bytes
        BY <1>1, EndedIs DEF TaskOK, Status
      <3> HIDE DEF y
      <3>3. StoreOK'
        BY <1>1, <2>1, <3>1, <3>2, StoreKept
      <3>4. past' \in [Streams -> [error : Nat, deleted : BOOLEAN, stamp : Nat,
                                   terminals : Nat]]
        BY <1>1, <3>1 DEF TaskOK
      <3>5. TaskOK'
        BY <1>1, <2>1, <3>1, <3>4 DEF TaskOK, CancelWith, Causes
      <3> QED BY <2>2, <3>3, <3>5 DEF Base
    <2>4. CASE sessions[s].status # "active"
      <3> DEFINE y == [sessions[s] EXCEPT !.deleted = TRUE]
      <3>1. /\ sessions' = [sessions EXCEPT ![s] = y]
            /\ past' = [past EXCEPT ![s].deleted = TRUE] /\ UNCHANGED <<clock, cause>>
        BY <1>5, <2>4 DEF Delete
      <3>2. y \in Session /\ y.frames = sessions[s].frames /\ y.bytes = sessions[s].bytes
        BY <1>1 DEF Session
      <3> HIDE DEF y
      <3>3. StoreOK'
        BY <1>1, <2>1, <3>1, <3>2, StoreKept
      <3>4. TaskOK'
        BY <1>1, <2>1, <3>1 DEF TaskOK
      <3> QED BY <2>2, <3>3, <3>4 DEF Base
    <2> QED BY <2>3, <2>4
  <1> QED BY <1>2, <1>3, <1>4, <1>5 DEF ClientStep

\* The minimum of a set of naturals.
LEMMA MinIs ==
    ASSUME NEW T \in SUBSET Nat, T # {}
    PROVE  Min(T) \in T /\ \A i \in T : Min(T) <= i
  <1>1. \E x \in T : \A y \in T : x <= y
    BY LeastNatural
  <1> QED BY <1>1 DEF Min

\* The frames after a cursor, and the one a body reads next.
Unread(fs, cursor) == {i \in DOMAIN fs : fs[i].id > cursor}

\* Follower::next leaves a body.
LEMMA ReadType ==
    ASSUME StoreOK, BodiesOK, NEW f \in Followers
    PROVE  Read(f) \in Body
  <1> DEFINE body == follower[f]
             s == body.stream
             fs == sessions[s].frames
             unread == Unread(fs, body.cursor)
             frame == fs[Min(unread)]
  <1>1. body \in Body /\ live \subseteq Streams /\ sessions \in [Streams -> Session]
    BY DEF StoreOK, BodiesOK
  <1>2. CASE s \notin live
    <2>1. Read(f) = [body EXCEPT !.pc = "ending", !.result = "eof"]
      BY <1>2 DEF Read
    <2> QED BY <1>1, <2>1 DEF Body
  <1>3. CASE s \in live
    <2>1. fs \in Seq(Frame)
      BY <1>1, <1>3 DEF Session
    <2>2. unread # {} => frame \in Frame /\ frame.id \in Nat
      <3> SUFFICES ASSUME unread # {} PROVE frame \in Frame /\ frame.id \in Nat
        OBVIOUS
      <3> HIDE DEF fs
      <3>1. unread \in SUBSET Nat /\ DOMAIN fs = 1..Len(fs)
        BY <2>1 DEF Unread
      <3>2. Min(unread) \in unread
        BY <3>1, MinIs
      <3>3. Min(unread) \in 1..Len(fs)
        BY <3>1, <3>2 DEF Unread
      <3>4. frame \in Frame
        BY <2>1, <3>3
      <3> QED BY <3>4 DEF Frame
    <2>3. \/ Read(f) = [body EXCEPT !.pc = "ending", !.result = "eof"]
          \/ Read(f) = [body EXCEPT !.pc = "ending", !.result = "lost"]
          \/ unread # {} /\ Read(f) = [body EXCEPT !.cursor = frame.id, !.got = Append(body.got, frame)]
          \/ Read(f) = [body EXCEPT !.pc = "waiting"]
      BY DEF Read, Unread
    <2>4. CASE unread # {} /\ Read(f) = [body EXCEPT !.cursor = frame.id, !.got = Append(body.got, frame)]
      <3> HIDE DEF frame, body
      <3>1. body.got \in Seq(Frame) /\ frame \in Frame /\ frame.id \in Nat
        BY <1>1, <2>2, <2>4 DEF Body
      <3>2. Append(body.got, frame) \in Seq(Frame)
        BY <3>1, AppendFacts
      <3> DEFINE g == Append(body.got, frame)
                 c == frame.id
      <3>3. g \in Seq(Frame) /\ c \in Nat /\ Read(f) = [body EXCEPT !.cursor = c, !.got = g]
        BY <2>4, <3>1, <3>2
      <3> HIDE DEF g, c
      <3> QED BY <1>1, <3>3 DEF Body
    <2>5. CASE Read(f) = [body EXCEPT !.pc = "waiting"]
      BY <1>1, <2>5 DEF Body
    <2>6. CASE Read(f) = [body EXCEPT !.pc = "ending", !.result = "eof"]
      BY <1>1, <2>6 DEF Body
    <2>7. CASE Read(f) = [body EXCEPT !.pc = "ending", !.result = "lost"]
      BY <1>1, <2>7 DEF Body
    <2> QED BY <2>3, <2>4, <2>5, <2>6, <2>7
  <1> QED BY <1>2, <1>3

\* The steps of bodies keep the base of the invariant.
LEMMA FollowerBase ==
    ASSUME Base, NEW f \in Followers, FollowerStep(f)
    PROVE  Base'
  <1>1. StoreOK /\ TaskOK /\ BodiesOK /\ follower[f] \in Body
    BY DEF Base, BodiesOK
  <1>2. TaskOK'
    <2>1. UNCHANGED <<time, shutdown, task, past>>
      BY DEF FollowerStep, CheckAttach, NextFrame, Wake, DropBody, Attach
    <2> QED BY <1>1, <2>1, TaskSame
  <1>3. CASE CheckAttach(f)
    <2>1. follower' = [follower EXCEPT ![f].pc = "checked"] /\ UNCHANGED store
      BY <1>3 DEF CheckAttach
    <2>2. BodiesOK'
      BY <1>1, <2>1 DEF BodiesOK, Body
    <2> QED BY <1>1, <1>2, <2>1, <2>2, StoreSame DEF Base
  <1>4. CASE NextFrame(f)
    <2>1. follower' = [follower EXCEPT ![f] = Read(f)] /\ UNCHANGED store
      BY <1>4 DEF NextFrame
    <2>2. BodiesOK'
      BY <1>1, <2>1, ReadType DEF BodiesOK
    <2> QED BY <1>1, <1>2, <2>1, <2>2, StoreSame DEF Base
  <1>5. CASE Wake(f)
    <2>1. follower' = [follower EXCEPT ![f].pc = "ready", ![f].dirty = FALSE] /\ UNCHANGED store
      BY <1>5 DEF Wake
    <2>2. BodiesOK'
      BY <1>1, <2>1 DEF BodiesOK, Body
    <2> QED BY <1>1, <1>2, <2>1, <2>2, StoreSame DEF Base
  <1>6. CASE DropBody(f)
    <2> DEFINE s == follower[f].stream
    <2>1. /\ follower' = [follower EXCEPT ![f].pc = "closed",
                             ![f].result = IF @ = "open" THEN "left" ELSE @]
          /\ sessions' = IF s \in live THEN [sessions EXCEPT ![s].followers = Less(@, 1)]
                         ELSE sessions
          /\ UNCHANGED <<live, total_bytes>>
      BY <1>6 DEF DropBody
    <2>2. BodiesOK'
      BY <1>1, <2>1 DEF BodiesOK, Body
    <2>3. CASE s \in live
      <3> DEFINE n == Less(sessions[s].followers, 1)
                 y == [sessions[s] EXCEPT !.followers = n]
      <3>1. s \in Streams /\ sessions[s] \in Session
        BY <1>1, <2>3 DEF StoreOK
      <3>2. n \in Nat
        <4> DEFINE m == sessions[s].followers
        <4>1. m \in Int /\ 1 \in Int
          BY <3>1 DEF Session
        <4> HIDE DEF m
        <4>2. Less(m, 1) \in Nat
          BY <4>1 DEF Less
        <4> QED BY <4>2 DEF m
      <3>3. sessions' = [sessions EXCEPT ![s] = y]
        BY <1>1, <2>1, <2>3, <3>1 DEF StoreOK
      <3> HIDE DEF n
      <3>4. y \in Session /\ y.frames = sessions[s].frames /\ y.bytes = sessions[s].bytes
        BY <3>1, <3>2 DEF Session
      <3> HIDE DEF y, s
      <3>5. StoreOK'
        BY <1>1, <2>1, <2>3, <3>1, <3>3, <3>4, StoreKept
      <3> QED BY <1>2, <2>2, <3>5 DEF Base
    <2>4. CASE s \notin live
      BY <1>1, <1>2, <2>1, <2>2, <2>4, StoreSame DEF Base, store
    <2> QED BY <2>3, <2>4
  <1>7. ASSUME NEW s \in Streams, NEW after \in 0..(MaxFrames + 2), NEW follow \in BOOLEAN,
               Attach(f, s, after, follow)
        PROVE  Base'
    <2> DEFINE new == [NoBody EXCEPT !.pc = "ready", !.stream = s, !.after = after,
                                     !.cursor = after, !.follow = follow]
    <2>1. CASE Attachable(s, after)
      <3> DEFINE y == [sessions[s] EXCEPT !.followers = @ + 1]
                 ss == [sessions EXCEPT ![s] = y]
                 bodies == [follower EXCEPT ![f] = new]
      <3>1. s \in live /\ sessions[s] \in Session /\ after \in Nat
        BY <1>1, <2>1 DEF Attachable, StoreOK
      <3>2. y \in Session /\ y.frames = sessions[s].frames /\ y.bytes = sessions[s].bytes
        BY <3>1 DEF Session
      <3>3. new \in Body
        BY <3>1, NewBody
      <3>4. PurgeLocked(ss, bodies, {})
        <4>1. PurgeLocked([sessions EXCEPT ![s].followers = @ + 1], bodies, {})
          BY <1>7, <2>1 DEF Attach
        <4>2. [sessions EXCEPT ![s].followers = @ + 1] = ss
          BY <1>1, <3>1 DEF StoreOK
        <4> QED BY <4>1, <4>2, Zenon
      <3> HIDE DEF new, y
      <3>5. bodies \in [Followers -> Body]
        BY <1>1, <3>3 DEF BodiesOK
      <3>6. /\ ss \in [Streams -> Session] /\ \A t \in Streams : Sized(ss[t])
            /\ \A t \in Streams \ live : ss[t] = NewSession
        BY <1>1, <3>1, <3>2, Kept
      <3> HIDE DEF ss, bodies
      <3>7. StoreOK' /\ BodiesOK'
        BY <1>1, <3>4, <3>5, <3>6, PurgeOK
      <3> QED BY <1>2, <3>7 DEF Base
    <2>2. CASE ~Attachable(s, after)
      <3> DEFINE bodies == [follower EXCEPT ![f].pc = "idle"]
      <3>1. PurgeLocked(sessions, bodies, {})
        BY <1>7, <2>2 DEF Attach
      <3>2. bodies \in [Followers -> Body]
        BY <1>1 DEF BodiesOK, Body
      <3> HIDE DEF bodies
      <3>3. StoreOK' /\ BodiesOK'
        BY <1>1, <3>1, <3>2, PurgeNow
      <3> QED BY <1>2, <3>3 DEF Base
    <2> QED BY <2>1, <2>2
  <1> QED BY <1>3, <1>4, <1>5, <1>6, <1>7 DEF FollowerStep

\* Reads, clocks and the shutdown keep the base of the invariant.
LEMMA WorldBase ==
    ASSUME Base, Observe \/ ClearControls \/ Elapse \/ Trigger
    PROVE  Base'
  <1>1. StoreOK /\ TaskOK /\ BodiesOK
    BY DEF Base
  <1>2. CASE Observe
    <2>1. PurgeLocked(sessions, follower, {}) /\ UNCHANGED <<time, shutdown, task, past>>
      BY <1>2 DEF Observe
    <2>2. StoreOK' /\ BodiesOK'
      BY <1>1, <2>1, PurgeNow DEF BodiesOK
    <2> QED BY <1>1, <2>1, <2>2, TaskSame DEF Base
  <1>3. CASE ClearControls
    <2>1. TaskOK'
      BY <1>1, <1>3 DEF ClearControls, TaskOK, time
    <2> QED BY <1>1, <1>3, <2>1, StoreSame, BodiesSame DEF ClearControls, Base
  <1>4. CASE Elapse
    <2>1. clock' = clock /\ horizon' \in (horizon + 1)..clock
      BY <1>4 DEF Elapse
    <2>2. horizon' \in 0..clock' /\ clock' \in Nat
      BY <1>1, <2>1 DEF TaskOK
    <2>3. TaskOK'
      BY <1>1, <1>4, <2>1, <2>2 DEF Elapse, TaskOK, task
    <2> QED BY <1>1, <1>4, <2>3, StoreSame, BodiesSame DEF Elapse, Base
  <1>5. CASE Trigger
    <2>1. TaskOK'
      BY <1>1, <1>5 DEF Trigger, TaskOK, time, task
    <2> QED BY <1>1, <1>5, <2>1, StoreSame, BodiesSame DEF Trigger, Base
  <1> QED BY <1>2, <1>3, <1>4, <1>5

\* Every step keeps the base of the invariant.
LEMMA BaseNext ==
    ASSUME Base, [Next]_vars
    PROVE  Base'
  <1>1. ASSUME NEW s \in Streams, OwnerStep(s) PROVE Base'
    BY <1>1, FailBase, OwnerBase DEF OwnerStep
  <1>2. ASSUME NEW s \in Streams, SourceStep(s) PROVE Base'
    BY <1>2, SourceBase, AppendBase DEF SourceStep
  <1>3. CASE UNCHANGED vars
    BY <1>3, StoreSame, TaskSame, BodiesSame DEF Base, vars
  <1> QED BY <1>1, <1>2, <1>3, ClientBase, FollowerBase, WorldBase DEF Next

-----------------------------------------------------------------------------
(* The life of a stream.                                                   *)

Unstarted == {"new", "checked", "refused"}
NoPast == [error |-> 0, deleted |-> FALSE, stamp |-> 0, terminals |-> 0]

\* A stream that has not started has left no trace.
Untouched(s) ==
    owner[s] \in Unstarted =>
        /\ s \notin live /\ past[s] = NoPast
        /\ cause[s] = "none" /\ activity[s] = "open"

\* What the session of a stream says of its owner and of its past.
Truthful(s) ==
    s \in live =>
        /\ sessions[s].owner_active <=> owner[s] # "done"
        /\ sessions[s].terminal_at = past[s].stamp
        /\ sessions[s].status = "active" <=> past[s].stamp = 0
        /\ sessions[s].status = "active" => ~sessions[s].deleted
        /\ sessions[s].status = "active" /\ cause[s] # "none"
              => owner[s] \in {"failing", "shutting"}
        /\ owner[s] = "override" => sessions[s].status # "active"
        /\ owner[s] # "done" => sessions[s].status # "completed"

\* The history of a stream, and where its session went.
History(s) ==
    /\ past[s].stamp <= clock
    /\ past[s].terminals = IF past[s].stamp = 0 THEN 0 ELSE 1
    /\ past[s].error # 0 => past[s].stamp # 0
    /\ owner[s] = "done" => past[s].stamp # 0
    /\ s \notin live /\ owner[s] \notin Unstarted \cup {"done"}
          => past[s].stamp \in 1..horizon

\* Who has told the generation to stop.
Told(s) ==
    /\ owner[s] \in {"failing", "shutting", "override"} => cause[s] # "none"
    /\ owner[s] = "run" /\ ~Accepts(s) => cause[s] # "none"

\* What the record of the request says.
Recorded(s) ==
    /\ activity[s] = "completed" =>
          owner[s] = "done" /\ cause[s] = "none" /\ past[s].error = 0
    /\ owner[s] = "done" /\ activity[s] = "open" =>
          s \notin live /\ past[s].stamp \in 1..horizon
    /\ s \in controls =>
          owner[s] \notin {"new", "refused", "done"} /\ ~past[s].deleted

Life(s) == Untouched(s) /\ Truthful(s) /\ History(s) /\ Told(s) /\ Recorded(s)
LifeInv == \A s \in Streams : Life(s)

\* No stream has lived at the start.
LEMMA LifeInit == Init => LifeInv
  BY DEF Init, LifeInv, Life, Untouched, Truthful, History, Told, Recorded,
         Unstarted, NoPast, NewSession, Accepts

\* A step of somebody else: the session may go, when it may.
Undisturbed(t) ==
    /\ owner'[t] = owner[t] /\ past'[t] = past[t]
    /\ cause'[t] = cause[t] /\ activity'[t] = activity[t]
    /\ t \in controls' => t \in controls
    /\ t \in live' => /\ t \in live
                      /\ sessions'[t].status = sessions[t].status
                      /\ sessions'[t].owner_active = sessions[t].owner_active
                      /\ sessions'[t].terminal_at = sessions[t].terminal_at
                      /\ sessions'[t].deleted = sessions[t].deleted
    /\ t \in live /\ t \notin live' =>
          \/ ~sessions[t].owner_active
          \/ sessions[t].terminal_at \in 1..horizon

Later == /\ clock \in Nat /\ clock' \in Nat /\ horizon \in 0..clock /\ horizon' \in 0..clock'
         /\ clock <= clock' /\ horizon <= horizon'

\* The life of a stream that a step does not disturb.
LEMMA LifeElsewhere ==
    ASSUME NEW t \in Streams, Life(t), Undisturbed(t), Later, past[t].stamp \in Nat
    PROVE  Life(t)'
  <1>1. 1..horizon \subseteq 1..horizon'
    BY DEF Later
  <1>2. Untouched(t)'
    BY DEF Life, Untouched, Undisturbed, Unstarted
  <1>3. Truthful(t)'
    BY DEF Life, Truthful, Undisturbed
  <1>4. t \in live /\ t \notin live' =>
           \/ owner[t] = "done"
           \/ past[t].stamp \in 1..horizon /\ sessions[t].status # "active"
    <2>1. past[t].stamp \in 1..horizon => past[t].stamp # 0
      BY DEF Later
    <2> QED BY <2>1 DEF Life, Truthful, Undisturbed
  <1>5. History(t)'
    <2>1. past'[t].stamp <= clock'
      BY DEF Life, History, Undisturbed, Later
    <2>2. /\ past'[t].terminals = IF past'[t].stamp = 0 THEN 0 ELSE 1
          /\ past'[t].error # 0 => past'[t].stamp # 0
          /\ owner'[t] = "done" => past'[t].stamp # 0
      BY DEF Life, History, Undisturbed
    <2>3. t \notin live' /\ owner'[t] \notin Unstarted \cup {"done"}
             => past'[t].stamp \in 1..horizon'
      BY <1>1, <1>4 DEF Life, History, Undisturbed
    <2> QED BY <2>1, <2>2, <2>3 DEF History
  <1>6. Told(t)'
    <2>1. Accepts(t) /\ t \in live' => Accepts(t)'
      BY DEF Accepts, Undisturbed
    <2>2. Accepts(t) /\ t \notin live' => owner[t] = "done"
      BY <1>4 DEF Accepts
    <2> QED BY <2>1, <2>2 DEF Life, Told, Undisturbed
  <1>7. Recorded(t)'
    <2>1. owner'[t] = "done" /\ activity'[t] = "open" =>
             t \notin live' /\ past'[t].stamp \in 1..horizon'
      BY <1>1 DEF Life, Recorded, Undisturbed
    <2> QED BY <2>1 DEF Life, Recorded, Undisturbed
  <1> QED BY <1>2, <1>3, <1>5, <1>6, <1>7 DEF Life

\* A step that leaves the store and the clock.
LEMMA QuietLife ==
    ASSUME TaskOK, NEW s \in Streams, LifeInv, UNCHANGED <<live, sessions, clock, horizon>>,
           \A t \in Streams \ {s} : /\ owner'[t] = owner[t] /\ past'[t] = past[t]
                                    /\ cause'[t] = cause[t] /\ activity'[t] = activity[t]
                                    /\ t \in controls' => t \in controls,
           Life(s)'
    PROVE  LifeInv'
  <1>1. Later
    BY DEF TaskOK, Later
  <1>2. \A t \in Streams \ {s} : Undisturbed(t) /\ past[t].stamp \in Nat
    BY DEF Undisturbed, TaskOK
  <1> QED BY <1>1, <1>2, LifeElsewhere DEF LifeInv

\* What purge_locked leaves of the sessions.
LEMMA PurgeStore ==
    ASSUME NEW ss, NEW bodies, NEW more, PurgeLocked(ss, bodies, more)
    PROVE  \A t \in Streams :
              /\ t \in live' <=> t \in live \ Purged(ss) \/ t \in more
              /\ sessions'[t] = IF t \in Purged(ss) THEN NewSession ELSE ss[t]
              /\ t \in Purged(ss) => /\ t \in live
                                     /\ \/ ~ss[t].owner_active
                                        \/ ss[t].terminal_at \in 1..horizon
  BY PurgedAre DEF PurgeLocked, Removed

\* A purge disturbs nobody whose session it found unchanged.
LEMMA PurgeUndisturbed ==
    ASSUME NEW ss, NEW bodies, NEW more, PurgeLocked(ss, bodies, more),
           NEW t \in Streams, t \notin more,
           ss[t].status = sessions[t].status,
           ss[t].owner_active = sessions[t].owner_active,
           ss[t].terminal_at = sessions[t].terminal_at,
           ss[t].deleted = sessions[t].deleted,
           owner'[t] = owner[t], past'[t] = past[t],
           cause'[t] = cause[t], activity'[t] = activity[t],
           t \in controls' => t \in controls
    PROVE  Undisturbed(t)
  BY PurgeStore DEF Undisturbed

-----------------------------------------------------------------------------
\* What the source reports keeps the life of the streams, append aside.
LEMMA SourceLife ==
    ASSUME Base, LifeInv, NEW s \in Streams,
           \/ Complete(s) \/ SignalFailure(s) \/ AppendDropped(s)
           \/ SourceEnd(s) \/ SourceError(s)
           \/ \E size \in Sizes : AppendOversize(s, size)
    PROVE  LifeInv'
  <1>1. TaskOK /\ Life(s)
    BY DEF Base, LifeInv
  <1>2. UNCHANGED <<live, sessions, clock, horizon, past>>
    BY DEF Complete, SignalFailure, AppendDropped, SourceEnd, SourceError,
           AppendOversize, store, time
  <1>3. Accepts(s)' <=> Accepts(s)
    BY <1>2 DEF Accepts
  <1>4. CASE Complete(s)
    <2>1. UNCHANGED <<owner, cause, activity, controls>>
      BY <1>4 DEF Complete
    <2> QED BY <1>1, <1>2, <2>1, QuietLife DEF Life, Untouched, Truthful, History, Told,
            Recorded, Accepts
  <1>5. CASE SignalFailure(s)
    <2>1. UNCHANGED <<owner, cause, controls>> /\ owner[s] = "run"
          /\ activity' = [activity EXCEPT ![s] = IF @ = "open" THEN "failed" ELSE @]
      BY <1>5 DEF SignalFailure
    <2>2. /\ \A t \in Streams \ {s} : activity'[t] = activity[t]
          /\ activity'[s] = IF activity[s] = "open" THEN "failed" ELSE activity[s]
      BY <1>1, <2>1 DEF TaskOK
    <2>3. Life(s)'
      BY <1>1, <1>2, <1>3, <2>1, <2>2 DEF Life, Untouched, Truthful, History, Told, Recorded,
         Unstarted
    <2> QED BY <1>1, <1>2, <2>1, <2>2, <2>3, QuietLife
  <1>6. CASE AppendDropped(s)
    <2>1. UNCHANGED <<owner, cause, activity, controls>>
      BY <1>6 DEF AppendDropped
    <2> QED BY <1>1, <1>2, <2>1, QuietLife DEF Life, Untouched, Truthful, History, Told,
            Recorded, Accepts
  <1>7. CASE SourceEnd(s)
    <2>1. UNCHANGED <<cause, activity>> /\ owner[s] = "run"
          /\ owner' = [owner EXCEPT ![s] = "ended"] /\ controls' = controls \ {s}
      BY <1>7 DEF SourceEnd, Unregister
    <2>2. owner'[s] = "ended" /\ \A t \in Streams \ {s} : owner'[t] = owner[t]
      BY <1>1, <2>1 DEF TaskOK
    <2>3. Life(s)'
      BY <1>1, <1>2, <1>3, <2>1, <2>2 DEF Life, Untouched, Truthful, History, Told, Recorded,
         Unstarted
    <2> QED BY <1>1, <1>2, <2>1, <2>2, <2>3, QuietLife
  <1>8. CASE SourceError(s)
    <2>1. UNCHANGED <<cause, activity, controls>> /\ owner[s] = "run"
          /\ owner' = [owner EXCEPT ![s] = "transport"]
      BY <1>8 DEF SourceError
    <2>2. owner'[s] = "transport" /\ \A t \in Streams \ {s} : owner'[t] = owner[t]
      BY <1>1, <2>1 DEF TaskOK
    <2>3. Life(s)'
      BY <1>1, <1>2, <1>3, <2>1, <2>2 DEF Life, Untouched, Truthful, History, Told, Recorded,
         Unstarted
    <2> QED BY <1>1, <1>2, <2>1, <2>2, <2>3, QuietLife
  <1>9. ASSUME NEW size \in Sizes, AppendOversize(s, size) PROVE LifeInv'
    <2>1. UNCHANGED <<activity, controls>> /\ owner[s] = "run"
          /\ owner' = [owner EXCEPT ![s] = "failing"]
          /\ CancelWith(s, "StreamBufferExceeded")
      BY <1>9 DEF AppendOversize
    <2>2. /\ owner'[s] = "failing" /\ cause'[s] # "none"
          /\ \A t \in Streams \ {s} : owner'[t] = owner[t] /\ cause'[t] = cause[t]
      BY <1>1, <2>1 DEF TaskOK, CancelWith
    <2>3. Life(s)'
      BY <1>1, <1>2, <1>3, <2>1, <2>2 DEF Life, Untouched, Truthful, History, Told, Recorded,
         Unstarted
    <2> QED BY <1>1, <1>2, <2>1, <2>2, <2>3, QuietLife
  <1> QED BY <1>4, <1>5, <1>6, <1>7, <1>8, <1>9

\* Only the frames of the session differ.
SameState(x, y) ==
    /\ y.status = x.status /\ y.owner_active = x.owner_active
    /\ y.terminal_at = x.terminal_at /\ y.deleted = x.deleted
    /\ y.followers = x.followers

\* The session with the frame that append took back.
TakenBack(x, size) ==
    [Pushed(x, size) EXCEPT !.frames = SubSeq(@, 1, Len(@) - 1),
                            !.bytes = Less(@, size), !.next_id = @ - 1]

\* append changes nothing but the frames and their numbers.
LEMMA SamePushed ==
    ASSUME NEW x \in Session, NEW size
    PROVE  SameState(x, Pushed(x, size)) /\ SameState(x, TakenBack(x, size))
  <1>1. ASSUME NEW fs, NEW n, NEW b
        PROVE  SameState(x, [x EXCEPT !.frames = fs, !.next_id = n, !.bytes = b])
    BY DEF SameState, Session
  <1>2. SameState(x, Pushed(x, size))
    BY <1>1 DEF Pushed
  <1>3. ASSUME NEW fs, NEW n, NEW b, NEW gs, NEW m, NEW c
        PROVE  SameState(x, [[x EXCEPT !.frames = fs, !.next_id = n, !.bytes = b]
                               EXCEPT !.frames = gs, !.bytes = c, !.next_id = m])
    BY DEF SameState, Session
  <1>4. SameState(x, TakenBack(x, size))
    BY <1>3 DEF TakenBack, Pushed
  <1> QED BY <1>2, <1>4

\* A cut changes nothing but the frames.
LEMMA SameCut ==
    ASSUME NEW x \in Session, NEW fs, NEW b
    PROVE  SameState(x, Cut(x, fs, b)) /\ Cut(x, fs, b).next_id = x.next_id
  BY DEF SameState, Session, Cut

\* What append does to the sessions: its own is in the store, and those that
\* go to make room have no owner.
LEMMA AppendIs ==
    ASSUME StoreOK, NEW s \in Streams, NEW size \in Sizes, AppendFrame(s, size)
    PROVE  \E gone \in SUBSET live :
              LET total == TotalWithout(total_bytes + Pushed(sessions[s], size).bytes
                                           - sessions[s].bytes, sessions, gone)
              IN
              /\ gone = Evicted(total_bytes + Pushed(sessions[s], size).bytes
                                           - sessions[s].bytes)
              /\ \A t \in gone : ~sessions[t].owner_active
              /\ live' = live \ gone
              /\ \/ /\ \A t \in Streams : sessions'[t] =
                          IF t \in gone THEN NewSession
                          ELSE IF t = s THEN Pushed(sessions[s], size) ELSE sessions[t]
                    /\ total <= MaxTotal /\ total_bytes' = total
                    /\ follower' = Notified(follower, gone \cup {s})
                    /\ UNCHANGED <<owner, cause>>
                 \/ /\ \A t \in Streams : sessions'[t] =
                          IF t \in gone THEN NewSession
                          ELSE IF t = s THEN TakenBack(sessions[s], size) ELSE sessions[t]
                    /\ total > MaxTotal /\ total_bytes' = Less(total, size)
                    /\ follower' = Notified(follower, gone)
                    /\ CancelWith(s, "ResourceExhausted")
                    /\ owner' = [owner EXCEPT ![s] = "failing"]
  <1> DEFINE new == Pushed(sessions[s], size)
             back == TakenBack(sessions[s], size)
             grown == total_bytes + new.bytes - sessions[s].bytes
             gone == Evicted(grown)
             total == TotalWithout(grown, sessions, gone)
  <1>1. gone \in SUBSET live /\ \A t \in gone : ~sessions[t].owner_active
    BY DEF Evicted, Retained
  <1>2. live' = live \ gone
    BY DEF AppendFrame
  <1>3. \/ /\ total <= MaxTotal
           /\ sessions' = Removed([sessions EXCEPT ![s] = new], gone)
           /\ total_bytes' = total
           /\ follower' = Notified(follower, gone \cup {s})
           /\ UNCHANGED <<owner, cause>>
        \/ /\ total > MaxTotal
           /\ sessions' = Removed([sessions EXCEPT ![s] = back], gone)
           /\ total_bytes' = Less(total, size)
           /\ follower' = Notified(follower, gone)
           /\ CancelWith(s, "ResourceExhausted")
           /\ owner' = [owner EXCEPT ![s] = "failing"]
    BY DEF AppendFrame, TakenBack
  <1>4. ASSUME NEW y, sessions' = Removed([sessions EXCEPT ![s] = y], gone)
        PROVE  \A t \in Streams : sessions'[t] = IF t \in gone THEN NewSession
                  ELSE IF t = s THEN y ELSE sessions[t]
    <2> HIDE DEF gone
    <2> QED BY <1>4 DEF Removed, StoreOK
  <1> HIDE DEF new, back, gone
  <1>5. CASE sessions' = Removed([sessions EXCEPT ![s] = new], gone)
    BY <1>1, <1>2, <1>3, <1>4, <1>5 DEF new, back, gone
  <1>6. CASE sessions' = Removed([sessions EXCEPT ![s] = back], gone)
    BY <1>1, <1>2, <1>3, <1>4, <1>6 DEF new, back, gone
  <1> QED BY <1>3, <1>5, <1>6

\* append keeps the life of the streams.
LEMMA AppendLife ==
    ASSUME Base, LifeInv, NEW s \in Streams, NEW size \in Sizes, AppendFrame(s, size)
    PROVE  LifeInv'
  <1>1. TaskOK /\ StoreOK /\ Life(s) /\ s \in live /\ sessions[s] \in Session
    BY DEF Base, LifeInv, AppendFrame, Accepts, StoreOK
  <1>2. PICK gone \in SUBSET live :
              /\ \A t \in gone : ~sessions[t].owner_active
              /\ live' = live \ gone
              /\ \/ /\ \A t \in Streams : sessions'[t] =
                          IF t \in gone THEN NewSession
                          ELSE IF t = s THEN Pushed(sessions[s], size) ELSE sessions[t]
                    /\ UNCHANGED <<owner, cause>>
                 \/ /\ \A t \in Streams : sessions'[t] =
                          IF t \in gone THEN NewSession
                          ELSE IF t = s THEN TakenBack(sessions[s], size) ELSE sessions[t]
                    /\ CancelWith(s, "ResourceExhausted")
                    /\ owner' = [owner EXCEPT ![s] = "failing"]
    BY <1>1, AppendIs, Zenon
  <1>3. /\ owner[s] = "run" /\ Accepts(s)
        /\ UNCHANGED <<clock, horizon, past, activity, controls>>
    BY DEF AppendFrame, time
  <1>4. sessions[s].owner_active
    BY <1>1, <1>3 DEF Life, Truthful
  <1>5. /\ s \in live' /\ SameState(sessions[s], sessions'[s])
        /\ \A t \in Streams \ {s} : t \notin gone => sessions'[t] = sessions[t]
    BY <1>1, <1>2, <1>4, SamePushed
  <1>6. /\ \A t \in Streams \ {s} : owner'[t] = owner[t] /\ cause'[t] = cause[t]
        /\ \/ owner'[s] = owner[s] /\ cause'[s] = cause[s]
           \/ owner'[s] = "failing" /\ cause'[s] # "none"
    BY <1>1, <1>2 DEF TaskOK, CancelWith
  <1>7. Later
    BY <1>1, <1>3 DEF TaskOK, Later
  <1>8. ASSUME NEW t \in Streams, t # s PROVE Life(t)'
    <2>1. Undisturbed(t) /\ past[t].stamp \in Nat /\ Life(t)
      BY <1>1, <1>2, <1>3, <1>5, <1>6, <1>8 DEF Undisturbed, TaskOK, LifeInv
    <2> QED BY <1>7, <2>1, LifeElsewhere
  <1>9. Life(s)'
    <2>1. Accepts(s)'
      BY <1>3, <1>5 DEF Accepts, SameState
    <2> QED BY <1>1, <1>3, <1>5, <1>6, <2>1 DEF Life, Untouched, Truthful, History, Told,
            Recorded, SameState, Unstarted
  <1> QED BY <1>8, <1>9 DEF LifeInv

\* What fail does to the sessions.
LEMMA FailStore ==
    ASSUME Base, NEW s \in Streams, Fail(s), Failable(s)
    PROVE  /\ \A t \in Streams \ {s} : SameState(sessions[t], sessions'[t])
           /\ sessions'[s].status = "failed" /\ sessions'[s].terminal_at = clock + 1
           /\ sessions'[s].owner_active = sessions[s].owner_active
           /\ sessions'[s].deleted = sessions[s].deleted
           /\ sessions'[s].followers = sessions[s].followers
           /\ clock' = clock + 1
           /\ past' = [past EXCEPT ![s].error = sessions[s].next_id,
                         ![s].stamp = clock + 1, ![s].terminals = @ + 1]
  <1>1. StoreOK /\ TaskOK /\ s \in live
    BY DEF Base, Failable
  <1>2. PICK pop \in [live -> 0..MaxEvents] :
              /\ Pops(pop)
              /\ sessions' = [Shortened(pop) EXCEPT ![s] = WithError(@)]
              /\ clock' = clock + 1
              /\ past' = [past EXCEPT ![s].error = sessions[s].next_id,
                    ![s].stamp = clock + 1, ![s].terminals = @ + 1]
    BY <1>1, FailIs
  <1>3. \A t \in Streams : SameState(sessions[t], Shortened(pop)[t])
    <2> SUFFICES ASSUME NEW t \in Streams PROVE SameState(sessions[t], Shortened(pop)[t])
      OBVIOUS
    <2>1. sessions[t] \in Session
      BY <1>1 DEF StoreOK
    <2>2. CASE t \in live
      BY <1>1, <1>2, <2>1, <2>2, ShortenedAre, SameCut
    <2>3. CASE t \notin live
      BY <1>1, <2>3 DEF Shortened, SameState
    <2> QED BY <2>2, <2>3
  <1>4. Shortened(pop)[s] \in Session
    BY <1>1, <1>2, ShortenedAre DEF Sized
  <1>5. /\ sessions'[s] = WithError(Shortened(pop)[s])
        /\ \A t \in Streams \ {s} : sessions'[t] = Shortened(pop)[t]
    BY <1>2 DEF Shortened
  <1> DEFINE x == Shortened(pop)[s]
  <1>6. x \in Session /\ SameState(sessions[s], x) /\ sessions'[s] = WithError(x)
    BY <1>3, <1>4, <1>5
  <1> HIDE DEF x
  <1> DEFINE b == x.bytes + ErrorSize
             n == x.next_id + 1
             stamp == clock + 1
             fs == Append(x.frames, ErrorFrame(x.next_id))
  <1>7. /\ sessions'[s] = Failed(x, fs, b, n, stamp) 
    BY <1>1, <1>4, <1>6 DEF Session, Failed, WithError, ErrorFrame
  <1> HIDE DEF b, n, fs, stamp
  <1>8. /\ sessions'[s].status = "failed" /\ sessions'[s].terminal_at = stamp
        /\ sessions'[s].owner_active = x.owner_active
        /\ sessions'[s].deleted = x.deleted
        /\ sessions'[s].followers = x.followers
    BY <1>6, <1>7 DEF Failed, Session
  <1>9. clock' = clock + 1
    BY <1>2
  <1> QED BY <1>2, <1>3, <1>5, <1>6, <1>8, <1>9 DEF SameState, stamp

\* fail keeps the life of the streams: it ends an active session only.
LEMMA FailLife ==
    ASSUME Base, LifeInv, NEW s \in Streams, Fail(s)
    PROVE  LifeInv'
  <1>1. TaskOK /\ StoreOK /\ Life(s) /\ sessions[s] \in Session
    BY DEF Base, LifeInv, StoreOK
  <1>2. /\ owner' = [owner EXCEPT ![s] = AfterFail[@]]
        /\ owner[s] \in {"failing", "transport", "missing", "shutting"}
        /\ UNCHANGED <<live, horizon, cause, controls, activity>>
    BY DEF Fail, AfterFail
  <1>3. /\ owner'[s] = AfterFail[owner[s]]
        /\ \A t \in Streams \ {s} : owner'[t] = owner[t]
    BY <1>1, <1>2 DEF TaskOK
  <1>4. \/ owner[s] = "failing" /\ owner'[s] = "run"
        \/ owner[s] = "transport" /\ owner'[s] = "ended"
        \/ owner[s] = "missing" /\ owner'[s] = "failed"
        \/ owner[s] = "shutting" /\ owner'[s] = "override"
    BY <1>2, <1>3 DEF AfterFail
  <1>5. CASE ~Failable(s)
    <2>1. UNCHANGED <<sessions, clock, past>>
      BY <1>5 DEF Fail
    <2>2. Life(s)'
      BY <1>1, <1>2, <1>4, <1>5, <2>1 DEF Life, Untouched, Truthful, History, Told,
         Recorded, Unstarted, Failable
    <2> QED BY <1>1, <1>2, <1>3, <2>1, <2>2, QuietLife
  <1>6. CASE Failable(s)
    <2>1. /\ \A t \in Streams \ {s} : SameState(sessions[t], sessions'[t])
          /\ sessions'[s].status = "failed" /\ sessions'[s].terminal_at = clock + 1
          /\ sessions'[s].owner_active = sessions[s].owner_active
          /\ sessions'[s].deleted = sessions[s].deleted
          /\ clock' = clock + 1
          /\ past' = [past EXCEPT ![s].error = sessions[s].next_id,
                        ![s].stamp = clock + 1, ![s].terminals = @ + 1]
      BY <1>6, FailStore
    <2>2. s \in live /\ sessions[s].status = "active" /\ past[s].stamp = 0 /\ past[s].terminals = 0
          /\ ~sessions[s].deleted
      BY <1>1, <1>6 DEF Failable, Life, Truthful, History
    <2>3. /\ past'[s].stamp = clock + 1 /\ past'[s].terminals = 1
          /\ past'[s].deleted = past[s].deleted
          /\ \A t \in Streams \ {s} : past'[t] = past[t]
      BY <1>1, <2>1, <2>2 DEF TaskOK
    <2>4. Later /\ clock + 1 # 0 /\ clock + 1 \in Nat
      BY <1>1, <1>2, <2>1 DEF TaskOK, Later
    <2>5. ASSUME NEW t \in Streams, t # s PROVE Life(t)'
      <3>1. Undisturbed(t) /\ past[t].stamp \in Nat /\ Life(t)
        BY <1>1, <1>2, <1>3, <2>1, <2>3, <2>5 DEF Undisturbed, TaskOK, LifeInv, SameState
      <3> QED BY <2>4, <3>1, LifeElsewhere
    <2>6. Life(s)'
      <3>1. Untouched(s)'
        BY <1>4 DEF Untouched, Unstarted
      <3>2. Truthful(s)'
        BY <1>1, <1>2, <1>4, <2>1, <2>3, <2>4 DEF Life, Truthful, Unstarted
      <3>3. History(s)'
        BY <1>1, <1>2, <1>4, <2>1, <2>2, <2>3, <2>4 DEF Life, History
      <3>4. Told(s)'
        BY <1>1, <1>2, <1>4 DEF Life, Told
      <3>5. Recorded(s)'
        BY <1>1, <1>2, <1>4, <2>3 DEF Life, Recorded
      <3> QED BY <3>1, <3>2, <3>3, <3>4, <3>5 DEF Life
    <2> QED BY <2>5, <2>6 DEF LifeInv
  <1> QED BY <1>5, <1>6

\* The other steps of an owner keep the life of the streams.
LEMMA OwnerLife ==
    ASSUME Base, LifeInv, NEW s \in Streams,
           Override(s) \/ Missing(s) \/ SeeShutdown(s)
    PROVE  LifeInv'
  <1>1. TaskOK /\ StoreOK /\ Life(s) /\ sessions[s] \in Session
    BY DEF Base, LifeInv, StoreOK
  <1>2. CASE Missing(s)
    <2>1. /\ UNCHANGED <<live, sessions, clock, horizon, past, cause, activity, controls>>
          /\ owner[s] = "ended" /\ owner' = [owner EXCEPT ![s] = "missing"]
      BY <1>2 DEF Missing, store, time
    <2>2. owner'[s] = "missing" /\ \A t \in Streams \ {s} : owner'[t] = owner[t]
      BY <1>1, <2>1 DEF TaskOK
    <2>3. Life(s)'
      BY <1>1, <2>1, <2>2 DEF Life, Untouched, Truthful, History, Told, Recorded, Unstarted
    <2> QED BY <1>1, <2>1, <2>2, <2>3, QuietLife
  <1>3. CASE SeeShutdown(s)
    <2>1. /\ UNCHANGED <<live, sessions, clock, horizon, past, activity, controls>>
          /\ owner[s] = "run" /\ owner' = [owner EXCEPT ![s] = "shutting"]
          /\ IF s \in live THEN CancelWith(s, "ServerShutdown") ELSE UNCHANGED cause
      BY <1>3 DEF SeeShutdown, store, time
    <2>2. /\ owner'[s] = "shutting"
          /\ \A t \in Streams \ {s} : owner'[t] = owner[t] /\ cause'[t] = cause[t]
          /\ s \in live => cause'[s] # "none"
          /\ s \notin live => cause'[s] = cause[s]
      BY <1>1, <2>1 DEF TaskOK, CancelWith
    <2>3. cause'[s] # "none"
      BY <1>1, <2>1, <2>2 DEF Life, Told, Accepts
    <2>4. Life(s)'
      BY <1>1, <2>1, <2>2, <2>3 DEF Life, Untouched, Truthful, History, Told, Recorded, Unstarted
    <2> QED BY <1>1, <2>1, <2>2, <2>4, QuietLife
  <1>4. CASE Override(s)
    <2>1. /\ UNCHANGED <<live, clock, horizon, past, cause, activity, controls>>
          /\ owner[s] = "override" /\ owner' = [owner EXCEPT ![s] = "run"]
          /\ sessions' = IF s \in live THEN [sessions EXCEPT ![s].status = "cancelled"]
                         ELSE sessions
      BY <1>4 DEF Override, time
    <2>2. /\ owner'[s] = "run" /\ \A t \in Streams \ {s} : owner'[t] = owner[t]
          /\ \A t \in Streams \ {s} : sessions'[t] = sessions[t]
      BY <1>1, <2>1 DEF TaskOK, StoreOK
    <2>3. s \in live => /\ sessions'[s].status = "cancelled"
                        /\ sessions'[s].owner_active = sessions[s].owner_active
                        /\ sessions'[s].terminal_at = sessions[s].terminal_at
      BY <1>1, <2>1 DEF StoreOK, Session
    <2>4. Life(s)'
      BY <1>1, <2>1, <2>2, <2>3 DEF Life, Untouched, Truthful, History, Told, Recorded, Unstarted
    <2>5. Later
      BY <1>1, <2>1 DEF TaskOK, Later
    <2>6. ASSUME NEW t \in Streams, t # s PROVE Life(t)'
      <3>1. Undisturbed(t) /\ past[t].stamp \in Nat /\ Life(t)
        BY <1>1, <2>1, <2>2, <2>6 DEF Undisturbed, TaskOK, LifeInv
      <3> QED BY <2>5, <3>1, LifeElsewhere
    <2> QED BY <2>4, <2>6 DEF LifeInv
  <1> QED BY <1>2, <1>3, <1>4

\* finish keeps the life of the streams: it ends a session nobody has ended.
LEMMA FinishLife ==
    ASSUME Base, LifeInv, NEW s \in Streams, Finish(s)
    PROVE  LifeInv'
  <1>1. TaskOK /\ StoreOK /\ Life(s) /\ sessions[s] \in Session
    BY DEF Base, LifeInv, StoreOK
  <1>2. /\ owner' = [owner EXCEPT ![s] = "done"] /\ controls' = controls \ {s}
        /\ \/ owner[s] = "failed"
           \/ owner[s] = "ended" /\ (signal[s] # "pending" \/ cancelled[s])
        /\ UNCHANGED <<horizon, cause>>
    BY DEF Finish, Unregister
  <1>3. owner'[s] = "done" /\ \A t \in Streams \ {s} : owner'[t] = owner[t]
    BY <1>1, <1>2 DEF TaskOK
  <1>4. owner[s] \in {"failed", "ended"} /\ activity[s] # "completed"
    BY <1>1, <1>2 DEF Life, Recorded
  <1>5. CASE s \notin live
    <2>1. UNCHANGED <<live, sessions, clock, past, activity>>
      BY <1>5 DEF Finish, store
    <2>2. past[s].stamp \in 1..horizon /\ past[s].stamp # 0
      BY <1>1, <1>4, <1>5 DEF Life, History, Unstarted, TaskOK
    <2>3. Life(s)'
      BY <1>1, <1>2, <1>3, <1>4, <1>5, <2>1, <2>2 DEF Life, Untouched, Truthful, History,
         Told, Recorded, Unstarted
    <2> QED BY <1>1, <1>2, <1>3, <2>1, <2>3, QuietLife
  <1>6. CASE s \in live /\ sessions[s].status # "active"
    <2> DEFINE y == [sessions[s] EXCEPT !.owner_active = FALSE]
               ss == [sessions EXCEPT ![s] = y]
    <2>1. /\ PurgeLocked(ss, Wakes(s), {}) /\ UNCHANGED <<clock, past>>
          /\ activity' = [activity EXCEPT ![s] = IF @ = "open" THEN Reported(s) ELSE @]
      <3>1. PurgeLocked([sessions EXCEPT ![s].owner_active = FALSE], Wakes(s), {})
        BY <1>6 DEF Finish
      <3>2. [sessions EXCEPT ![s].owner_active = FALSE] = ss
        OBVIOUS
      <3>3. /\ UNCHANGED <<clock, past>>
            /\ activity' = [activity EXCEPT ![s] = IF @ = "open" THEN Reported(s) ELSE @]
        BY <1>6 DEF Finish
      <3> QED BY <3>1, <3>2, <3>3, Zenon
    <2>2. /\ y.status = sessions[s].status /\ y.terminal_at = sessions[s].terminal_at
          /\ y.deleted = sessions[s].deleted /\ ~y.owner_active
      BY <1>1 DEF Session
    <2>3. ss[s] = y /\ \A t \in Streams \ {s} : ss[t] = sessions[t]
      BY <1>1 DEF StoreOK
    <2>4. /\ activity'[s] = IF activity[s] = "open" THEN Reported(s) ELSE activity[s]
          /\ \A t \in Streams \ {s} : activity'[t] = activity[t]
      BY <1>1, <2>1 DEF TaskOK
    <2> HIDE DEF y, ss
    <2>5. ASSUME NEW t \in Streams, t # s PROVE Life(t)'
      <3>1. Undisturbed(t)
        BY <1>2, <1>3, <2>1, <2>3, <2>4, <2>5, PurgeUndisturbed
      <3>2. Later /\ past[t].stamp \in Nat /\ Life(t)
        BY <1>1, <1>2, <2>1 DEF Later, TaskOK, LifeInv
      <3> QED BY <3>1, <3>2, LifeElsewhere
    <2>6. /\ s \in live' => sessions'[s] = y
          /\ \A t \in {s} : t \in live' => t \in live
      BY <2>1, <2>3, PurgeStore
    <2>7. past[s].stamp # 0 /\ sessions[s].status \in {"failed", "cancelled"}
          /\ sessions[s].terminal_at = past[s].stamp
      BY <1>1, <1>4, <1>6 DEF Life, Truthful, Session, Status
    <2>8. Life(s)'
      <3>1. activity'[s] # "open" /\ activity'[s] # "completed"
        BY <1>4, <2>4, <2>7 DEF Reported
      <3>2. Untouched(s)' /\ Told(s)'
        BY <1>3 DEF Untouched, Told, Unstarted
      <3>3. Truthful(s)'
        BY <1>2, <1>3, <2>1, <2>2, <2>6, <2>7 DEF Truthful
      <3>4. History(s)'
        BY <1>1, <1>2, <1>3, <2>1, <2>7 DEF Life, History
      <3>5. Recorded(s)'
        BY <1>2, <1>3, <3>1 DEF Recorded
      <3> QED BY <3>2, <3>3, <3>4, <3>5 DEF Life
    <2> QED BY <2>5, <2>8 DEF LifeInv
  <1>7. CASE s \in live /\ sessions[s].status = "active"
    <2> DEFINE stamp == clock + 1
               y == [sessions[s] EXCEPT !.owner_active = FALSE, !.status = Outcome(s),
                                        !.terminal_at = stamp]
               ss == [sessions EXCEPT ![s] = y]
    <2>1. /\ PurgeLocked(ss, Wakes(s), {}) /\ Stamp(s)
          /\ activity' = [activity EXCEPT ![s] = IF @ = "open" THEN Outcome(s) ELSE @]
      BY <1>7 DEF Finish
    <2>0. stamp \in Nat /\ stamp # 0 /\ stamp = clock + 1
      BY <1>1 DEF TaskOK
    <2> HIDE DEF stamp
    <2>2. /\ y.status = Outcome(s) /\ y.terminal_at = stamp
          /\ y.deleted = sessions[s].deleted /\ ~y.owner_active
      BY <1>1 DEF Session
    <2>3. ss[s] = y /\ \A t \in Streams \ {s} : ss[t] = sessions[t]
      BY <1>1 DEF StoreOK
    <2>4. /\ activity'[s] = IF activity[s] = "open" THEN Outcome(s) ELSE activity[s]
          /\ \A t \in Streams \ {s} : activity'[t] = activity[t]
      BY <1>1, <2>1 DEF TaskOK
    <2> HIDE DEF y, ss
    <2>5. /\ past'[s].stamp = stamp /\ past'[s].terminals = past[s].terminals + 1
          /\ past'[s].deleted = past[s].deleted /\ past'[s].error = past[s].error
          /\ \A t \in Streams \ {s} : past'[t] = past[t]
          /\ clock' = stamp
      BY <1>1, <2>0, <2>1 DEF TaskOK, Stamp
    <2>6. Later
      BY <1>1, <1>2, <2>0, <2>5 DEF TaskOK, Later
    <2>7. ASSUME NEW t \in Streams, t # s PROVE Life(t)'
      <3>1. Undisturbed(t)
        BY <1>2, <1>3, <2>1, <2>3, <2>4, <2>5, <2>7, PurgeUndisturbed
      <3>2. past[t].stamp \in Nat /\ Life(t)
        BY <1>1 DEF TaskOK, LifeInv
      <3> QED BY <2>6, <3>1, <3>2, LifeElsewhere
    <2>8. /\ s \in live' => sessions'[s] = y
          /\ \A t \in {s} : t \in live' => t \in live
      BY <2>1, <2>3, PurgeStore
    <2>9. /\ past[s].stamp = 0 /\ past[s].terminals = 0 /\ past[s].error = 0
          /\ ~sessions[s].deleted /\ cause[s] = "none"
      BY <1>1, <1>4, <1>7 DEF Life, Truthful, History
    <2>10. Outcome(s) \in {"completed", "failed", "cancelled"}
      BY <1>1 DEF Outcome, TaskOK
    <2>11. Life(s)'
      <3>1. activity'[s] # "open"
        BY <2>4, <2>10
      <3>2. Untouched(s)' /\ Told(s)'
        BY <1>3 DEF Untouched, Told, Unstarted
      <3>3. Truthful(s)'
        BY <1>2, <1>3, <2>0, <2>1, <2>2, <2>5, <2>8, <2>9, <2>10 DEF Truthful
      <3>4. History(s)'
        BY <1>1, <1>2, <1>3, <2>0, <2>5, <2>9 DEF History
      <3>5. Recorded(s)'
        BY <1>2, <1>3, <2>5, <2>9, <3>1 DEF Recorded
      <3> QED BY <3>2, <3>3, <3>4, <3>5 DEF Life
    <2> QED BY <2>7, <2>11 DEF LifeInv
  <1> QED BY <1>5, <1>6, <1>7

\* A purge by a step that changes no session and no clock.
LEMMA PurgeLife ==
    ASSUME TaskOK, NEW s \in Streams, LifeInv, UNCHANGED time,
           NEW bodies, NEW more \in SUBSET {s}, PurgeLocked(sessions, bodies, more),
           \A t \in Streams \ {s} : /\ owner'[t] = owner[t] /\ past'[t] = past[t]
                                    /\ cause'[t] = cause[t] /\ activity'[t] = activity[t]
                                    /\ t \in controls' => t \in controls,
           Life(s)'
    PROVE  LifeInv'
  <1>1. Later
    BY DEF TaskOK, Later, time
  <1>2. ASSUME NEW t \in Streams, t # s PROVE Life(t)'
    <2>1. Undisturbed(t)
      BY <1>2, PurgeUndisturbed
    <2>2. past[t].stamp \in Nat /\ Life(t)
      BY DEF TaskOK, LifeInv
    <2> QED BY <1>1, <2>1, <2>2, LifeElsewhere
  <1> QED BY <1>2 DEF LifeInv

\* The calls of clients keep the life of the streams.
LEMMA ClientLife ==
    ASSUME Base, LifeInv, NEW s \in Streams, ClientStep(s)
    PROVE  LifeInv'
  <1>1. TaskOK /\ StoreOK /\ Life(s) /\ sessions[s] \in Session
    BY DEF Base, LifeInv, StoreOK
  <1>2. CASE CheckStart(s)
    <2>1. /\ UNCHANGED <<live, sessions, clock, horizon, past, cause, activity>>
          /\ owner[s] = "new" /\ owner' = [owner EXCEPT ![s] = "checked"]
          /\ controls' = controls \cup {s}
      BY <1>2 DEF CheckStart, store, time
    <2>2. owner'[s] = "checked" /\ \A t \in Streams \ {s} : owner'[t] = owner[t]
      BY <1>1, <2>1 DEF TaskOK
    <2>3. ~past[s].deleted
      BY <1>1, <2>1 DEF Life, Untouched, Unstarted, NoPast
    <2>4. Life(s)'
      BY <1>1, <2>1, <2>2, <2>3 DEF Life, Untouched, Truthful, History, Told, Recorded, Unstarted
    <2> QED BY <1>1, <2>1, <2>2, <2>4, QuietLife
  <1>3. CASE Refuse(s)
    <2>1. /\ UNCHANGED <<past, cause, activity>> /\ UNCHANGED time
          /\ owner[s] = "checked" /\ owner' = [owner EXCEPT ![s] = "refused"]
          /\ controls' = controls \ {s} /\ PurgeLocked(sessions, follower, {})
      BY <1>3 DEF Refuse, Unregister
    <2>2. owner'[s] = "refused" /\ \A t \in Streams \ {s} : owner'[t] = owner[t]
      BY <1>1, <2>1 DEF TaskOK
    <2>3. s \notin live /\ s \notin live'
      BY <1>1, <2>1, PurgeStore DEF Life, Untouched, Unstarted
    <2>4. Life(s)'
      BY <1>1, <2>1, <2>2, <2>3 DEF Life, Untouched, Truthful, History, Told, Recorded,
         Unstarted, NoPast, time
    <2> QED BY <1>1, <2>1, <2>2, <2>4, PurgeLife
  <1>4. ASSUME NEW f \in Followers, Start(s, f) PROVE LifeInv'
    <2> DEFINE bodies == [follower EXCEPT ![f] = [NoBody EXCEPT
                            !.pc = "ready", !.stream = s, !.follow = TRUE]]
    <2>1. /\ UNCHANGED <<past, cause, controls, activity>> /\ UNCHANGED time
          /\ owner[s] = "checked" /\ owner' = [owner EXCEPT ![s] = "run"]
          /\ PurgeLocked(sessions, bodies, {s})
      BY <1>4 DEF Start
    <2> HIDE DEF bodies
    <2>2. owner'[s] = "run" /\ \A t \in Streams \ {s} : owner'[t] = owner[t]
      BY <1>1, <2>1 DEF TaskOK
    <2>3. s \notin live /\ past[s] = NoPast /\ cause[s] = "none" /\ activity[s] = "open"
      BY <1>1, <2>1 DEF Life, Untouched, Unstarted
    <2>4. s \in live' /\ sessions'[s] = NewSession
      <3>1. sessions[s] = NewSession
        BY <1>1, <2>3 DEF StoreOK
      <3> QED BY <2>1, <3>1, PurgeStore
    <2>5. Life(s)'
      BY <1>1, <2>1, <2>2, <2>3, <2>4 DEF Life, Untouched, Truthful, History, Told, Recorded,
         Unstarted, NoPast, NewSession, Accepts, time
    <2> QED BY <1>1, <2>1, <2>2, <2>5, PurgeLife
  <1>5. CASE Delete(s)
    <2>1. /\ s \in live /\ ~sessions[s].deleted /\ controls' = controls \ {s}
          /\ UNCHANGED <<live, horizon, owner, activity>>
      BY <1>5 DEF Delete, Unregister
    <2>2. CASE sessions[s].status = "active"
      <3> DEFINE stamp == clock + 1
                 y == [sessions[s] EXCEPT !.deleted = TRUE, !.status = "cancelled",
                                          !.terminal_at = stamp]
      <3>1. /\ sessions' = [sessions EXCEPT ![s] = y] /\ clock' = stamp
            /\ past' = [past EXCEPT ![s].deleted = TRUE,
                          ![s].stamp = stamp, ![s].terminals = @ + 1]
            /\ CancelWith(s, "UserDeleted")
        BY <1>5, <2>2 DEF Delete
      <3>2. stamp \in Nat /\ stamp # 0 /\ stamp = clock + 1
        BY <1>1 DEF TaskOK
      <3> HIDE DEF stamp
      <3>3. /\ y.status = "cancelled" /\ y.terminal_at = stamp
            /\ y.deleted /\ y.owner_active = sessions[s].owner_active
        BY <1>1 DEF Session
      <3> HIDE DEF y
      <3>4. sessions'[s] = y /\ \A t \in Streams \ {s} : sessions'[t] = sessions[t]
        BY <1>1, <3>1 DEF StoreOK
      <3>5. /\ past'[s].stamp = stamp /\ past'[s].terminals = past[s].terminals + 1
            /\ past'[s].deleted /\ past'[s].error = past[s].error
            /\ \A t \in Streams \ {s} : past'[t] = past[t]
        BY <1>1, <3>1 DEF TaskOK
      <3>6. cause'[s] # "none" /\ \A t \in Streams \ {s} : cause'[t] = cause[t]
        BY <1>1, <3>1 DEF TaskOK, CancelWith
      <3>7. Later
        BY <1>1, <2>1, <3>1, <3>2 DEF TaskOK, Later
      <3>8. ASSUME NEW t \in Streams, t # s PROVE Life(t)'
        <4>1. Undisturbed(t) /\ past[t].stamp \in Nat /\ Life(t)
          BY <1>1, <2>1, <3>4, <3>5, <3>6, <3>8 DEF Undisturbed, TaskOK, LifeInv
        <4> QED BY <3>7, <4>1, LifeElsewhere
      <3>9. past[s].stamp = 0 /\ past[s].terminals = 0 /\ past[s].error = 0
            /\ owner[s] \notin Unstarted \cup {"done"}
        BY <1>1, <2>1, <2>2 DEF Life, Untouched, Truthful, History
      <3>10. Life(s)'
        <4>1. Untouched(s)' /\ Told(s)' /\ Recorded(s)'
          BY <1>1, <2>1, <3>1, <3>6, <3>9 DEF Life, Untouched, Told, Recorded
        <4>2. Truthful(s)'
          BY <1>1, <2>1, <3>2, <3>3, <3>4, <3>5, <3>9 DEF Life, Truthful
        <4>3. History(s)'
          BY <1>1, <2>1, <3>1, <3>2, <3>5, <3>9 DEF Life, History
        <4> QED BY <4>1, <4>2, <4>3 DEF Life
      <3> QED BY <3>8, <3>10 DEF LifeInv
    <2>3. CASE sessions[s].status # "active"
      <3> DEFINE y == [sessions[s] EXCEPT !.deleted = TRUE]
      <3>1. /\ sessions' = [sessions EXCEPT ![s] = y] /\ UNCHANGED <<clock, cause>>
            /\ past' = [past EXCEPT ![s].deleted = TRUE]
        BY <1>5, <2>3 DEF Delete
      <3>2. /\ y.status = sessions[s].status /\ y.terminal_at = sessions[s].terminal_at
            /\ y.owner_active = sessions[s].owner_active
        BY <1>1 DEF Session
      <3> HIDE DEF y
      <3>3. sessions'[s] = y /\ \A t \in Streams \ {s} : sessions'[t] = sessions[t]
        BY <1>1, <3>1 DEF StoreOK
      <3>4. /\ past'[s].stamp = past[s].stamp /\ past'[s].terminals = past[s].terminals
            /\ past'[s].error = past[s].error
            /\ \A t \in Streams \ {s} : past'[t] = past[t]
        BY <1>1, <3>1 DEF TaskOK
      <3>5. Later
        BY <1>1, <2>1, <3>1 DEF TaskOK, Later
      <3>6. ASSUME NEW t \in Streams, t # s PROVE Life(t)'
        <4>1. Undisturbed(t) /\ past[t].stamp \in Nat /\ Life(t)
          BY <1>1, <2>1, <3>1, <3>3, <3>4, <3>6 DEF Undisturbed, TaskOK, LifeInv
        <4> QED BY <3>5, <4>1, LifeElsewhere
      <3>7. Life(s)'
        <4>1. Untouched(s)'
          BY <1>1, <2>1, <3>1, <3>4 DEF Life, Untouched
        <4>2. Truthful(s)'
          BY <1>1, <2>1, <2>3, <3>1, <3>2, <3>3, <3>4 DEF Life, Truthful
        <4>3. History(s)'
          BY <1>1, <2>1, <3>1, <3>4 DEF Life, History
        <4>4. Told(s)'
          BY <1>1, <2>1, <2>3, <3>1 DEF Life, Told, Accepts
        <4>5. Recorded(s)'
          BY <1>1, <2>1, <3>1, <3>4 DEF Life, Recorded
        <4> QED BY <4>1, <4>2, <4>3, <4>4, <4>5 DEF Life
      <3> QED BY <3>6, <3>7 DEF LifeInv
    <2> QED BY <2>2, <2>3
  <1> QED BY <1>2, <1>3, <1>4, <1>5 DEF ClientStep

\* Steps that no stream takes.
LEMMA OthersLife ==
    ASSUME TaskOK, LifeInv, Later, \A t \in Streams : Undisturbed(t)
    PROVE  LifeInv'
  BY LifeElsewhere DEF LifeInv, TaskOK

\* The steps of bodies keep the life of the streams.
LEMMA FollowerLife ==
    ASSUME Base, LifeInv, NEW f \in Followers, FollowerStep(f)
    PROVE  LifeInv'
  <1>1. TaskOK /\ StoreOK
    BY DEF Base
  <1>2. UNCHANGED <<owner, past, cause, activity, controls, clock, horizon>>
    BY DEF FollowerStep, CheckAttach, NextFrame, Wake, DropBody, Attach, task, time
  <1>3. Later
    BY <1>1, <1>2 DEF TaskOK, Later
  <1> SUFFICES ASSUME NEW t \in Streams PROVE Undisturbed(t)
    BY <1>1, <1>3, OthersLife
  <1>4. sessions[t] \in Session
    BY <1>1 DEF StoreOK
  <1>5. CASE CheckAttach(f) \/ NextFrame(f) \/ Wake(f)
    <2>1. UNCHANGED <<live, sessions>>
      BY <1>5 DEF CheckAttach, NextFrame, Wake, store
    <2> QED BY <1>2, <2>1 DEF Undisturbed
  <1>6. CASE DropBody(f)
    <2> DEFINE s == follower[f].stream
    <2>1. live' = live /\ sessions' = IF s \in live
                   THEN [sessions EXCEPT ![s].followers = Less(@, 1)]
                   ELSE sessions
      BY <1>6 DEF DropBody
    <2> HIDE DEF s
    <2>2. sessions'[t] = sessions[t] \/
          \E n : sessions'[t] = [sessions[t] EXCEPT !.followers = n]
      BY <1>1, <2>1 DEF StoreOK
    <2>3. /\ sessions'[t].status = sessions[t].status
          /\ sessions'[t].owner_active = sessions[t].owner_active
          /\ sessions'[t].terminal_at = sessions[t].terminal_at
          /\ sessions'[t].deleted = sessions[t].deleted
      BY <1>4, <2>2 DEF Session
    <2> QED BY <1>2, <2>1, <2>3 DEF Undisturbed
  <1>7. ASSUME NEW s \in Streams, NEW after \in 0..(MaxFrames + 2), NEW follow \in BOOLEAN,
               Attach(f, s, after, follow)
        PROVE  Undisturbed(t)
    <2>1. CASE Attachable(s, after)
      <3> DEFINE ss == [sessions EXCEPT ![s].followers = @ + 1]
                 bodies == [follower EXCEPT ![f] = [NoBody EXCEPT
                            !.pc = "ready", !.stream = s, !.after = after,
                            !.cursor = after, !.follow = follow]]
      <3>1. PurgeLocked(ss, bodies, {})
        BY <1>7, <2>1 DEF Attach
      <3> HIDE DEF bodies
      <3>2. ss[t] = sessions[t] \/ \E n : ss[t] = [sessions[t] EXCEPT !.followers = n]
        BY <1>1 DEF StoreOK
      <3> HIDE DEF ss
      <3>3. /\ ss[t].status = sessions[t].status
            /\ ss[t].owner_active = sessions[t].owner_active
            /\ ss[t].terminal_at = sessions[t].terminal_at
            /\ ss[t].deleted = sessions[t].deleted
        BY <1>4, <3>2 DEF Session
      <3> QED BY <1>2, <3>1, <3>3, PurgeUndisturbed
    <2>2. CASE ~Attachable(s, after)
      <3>1. PurgeLocked(sessions, [follower EXCEPT ![f].pc = "idle"], {})
        BY <1>7, <2>2 DEF Attach
      <3> QED BY <1>2, <3>1, PurgeUndisturbed
    <2> QED BY <2>1, <2>2
  <1> QED BY <1>5, <1>6, <1>7 DEF FollowerStep

\* Reads, clocks and the shutdown keep the life of the streams.
LEMMA WorldLife ==
    ASSUME Base, LifeInv, Observe \/ ClearControls \/ Elapse \/ Trigger
    PROVE  LifeInv'
  <1>1. TaskOK /\ StoreOK
    BY DEF Base
  <1>2. UNCHANGED <<owner, past, cause, activity>> /\ controls' \subseteq controls
    BY <1>1 DEF Observe, ClearControls, Elapse, Trigger, task, time, TaskOK
  <1>3. Later
    <2>1. CASE Elapse
      <3>1. clock' = clock /\ horizon' \in (horizon + 1)..clock
        BY <2>1 DEF Elapse
      <3>2. clock \in Nat /\ horizon \in Nat
        BY <1>1 DEF TaskOK
      <3> QED BY <1>1, <3>1, <3>2 DEF TaskOK, Later
    <2>2. CASE UNCHANGED <<clock, horizon>>
      BY <1>1, <2>2 DEF TaskOK, Later
    <2> QED BY <2>1, <2>2 DEF Observe, ClearControls, Elapse, Trigger, time
  <1> SUFFICES ASSUME NEW t \in Streams PROVE Undisturbed(t)
    BY <1>1, <1>3, OthersLife
  <1>4. CASE Observe
    <2>1. PurgeLocked(sessions, follower, {})
      BY <1>4 DEF Observe
    <2> QED BY <1>2, <2>1, PurgeUndisturbed
  <1>5. CASE UNCHANGED <<live, sessions>>
    BY <1>2, <1>5 DEF Undisturbed
  <1> QED BY <1>4, <1>5 DEF Observe, ClearControls, Elapse, Trigger, store

\* Every step keeps the life of the streams.
LEMMA LifeNext ==
    ASSUME Base, LifeInv, [Next]_vars
    PROVE  LifeInv'
  <1>1. ASSUME NEW s \in Streams, OwnerStep(s) PROVE LifeInv'
    BY <1>1, FailLife, OwnerLife, FinishLife DEF OwnerStep
  <1>2. ASSUME NEW s \in Streams, SourceStep(s) PROVE LifeInv'
    BY <1>2, SourceLife, AppendLife DEF SourceStep
  <1>3. CASE UNCHANGED vars
    BY <1>3 DEF LifeInv, Life, Untouched, Truthful, History, Told, Recorded, Accepts,
       vars, store, time, task
  <1> QED BY <1>1, <1>2, <1>3, ClientLife, FollowerLife, WorldLife DEF Next

\* What the life of a stream says of its end.
LEMMA LifeProperties ==
    ASSUME Base, LifeInv
    PROVE  NoOrphanGeneration /\ TerminalOnce /\ ActivityTruthful /\ ControlScope
  <1>1. NoOrphanGeneration
    BY DEF LifeInv, Life, Told, NoOrphanGeneration
  <1>2. TerminalOnce
    BY DEF LifeInv, Life, History, Truthful, TerminalOnce
  <1>3. ActivityTruthful
    BY DEF LifeInv, Life, Recorded, ActivityTruthful
  <1>4. ControlScope
    BY DEF LifeInv, Life, Recorded, ControlScope, Base, TaskOK
  <1> QED BY <1>1, <1>2, <1>3, <1>4

-----------------------------------------------------------------------------
(* What bodies have read.                                                  *)

\* The retained frames have consecutive ids, up to the next one.
Numbered(x) ==
    /\ Len(x.frames) < x.next_id
    /\ \A i \in 1..Len(x.frames) : x.frames[i].id = x.next_id - Len(x.frames) + i - 1

\* What a step does to the frames of a session: its front goes, perhaps a
\* frame with the next id is added.
Trimmed(x, y) ==
    /\ y.next_id = x.next_id
    /\ \E k \in 0..Len(x.frames) : y.frames = Drop(x.frames, k)
Extended(x, y) ==
    /\ y.next_id = x.next_id + 1
    /\ \E k \in 0..Len(x.frames), fr \in Frame :
          fr.id = x.next_id /\ y.frames = Append(Drop(x.frames, k), fr)

\* What a reader relies on: ids grow, and an old id names an old frame.
Follows(x, y) ==
    /\ x.next_id <= y.next_id
    /\ \A j \in 1..Len(y.frames) : y.frames[j].id < x.next_id =>
          \E i \in 1..Len(x.frames) : x.frames[i] = y.frames[j]

\* The fields of a session.
LEMMA SessionFields ==
    ASSUME NEW x \in Session
    PROVE  /\ x.frames \in Seq(Frame) /\ x.next_id \in Nat /\ Len(x.frames) \in Nat
           /\ x.followers \in Nat /\ x.terminal_at \in Nat /\ x.bytes \in Nat
           /\ \A i \in 1..Len(x.frames) : x.frames[i].id \in Nat
  <1>1. /\ x.frames \in Seq(Frame) /\ x.next_id \in Nat
        /\ x.followers \in Nat /\ x.terminal_at \in Nat /\ x.bytes \in Nat
    BY DEF Session
  <1>2. Len(x.frames) \in Nat
    BY <1>1
  <1>3. \A i \in 1..Len(x.frames) : x.frames[i] \in Frame
    BY <1>1
  <1>4. \A fr \in Frame : fr.id \in Nat
    BY DEF Frame
  <1> QED BY <1>1, <1>2, <1>3, <1>4

\* A session that lost frames at the front numbers those it kept as before.
LEMMA TrimmedKeeps ==
    ASSUME NEW x \in Session, NEW y \in Session, Numbered(x), Trimmed(x, y)
    PROVE  Numbered(y) /\ Follows(x, y)
  <1> DEFINE fs == x.frames
             gs == y.frames
  <1>1. PICK k \in 0..Len(fs) : gs = Drop(fs, k)
    BY DEF Trimmed
  <1>2. fs \in Seq(Frame) /\ x.next_id \in Nat /\ Len(fs) \in Nat /\ k \in Nat /\ k <= Len(fs)
    BY SessionFields
  <1>3. /\ Len(gs) = Len(fs) - k
        /\ \A i \in 1..(Len(fs) - k) : gs[i] = fs[i + k]
    <2> HIDE DEF fs
    <2> QED BY <1>1, <1>2, DropFacts
  <1>4. /\ Len(fs) < x.next_id /\ y.next_id = x.next_id
        /\ \A i \in 1..Len(fs) : fs[i].id = x.next_id - Len(fs) + i - 1
    BY DEF Numbered, Trimmed
  <1> HIDE DEF fs, gs
  <1>5. ASSUME NEW i \in 1..Len(gs)
        PROVE  /\ gs[i].id = x.next_id - Len(gs) + i - 1
               /\ \E j \in 1..Len(fs) : fs[j] = gs[i]
    <2>1. i + k \in 1..Len(fs) /\ gs[i] = fs[i + k] /\ i \in Nat
      BY <1>2, <1>3
    <2>2. gs[i].id = x.next_id - Len(fs) + (i + k) - 1
      BY <1>4, <2>1
    <2>3. x.next_id - Len(fs) + (i + k) - 1 = x.next_id - Len(gs) + i - 1
      BY <1>2, <1>3, <2>1
    <2> QED BY <2>1, <2>2, <2>3
  <1>6. Len(gs) < y.next_id /\ x.next_id <= y.next_id
    BY <1>2, <1>3, <1>4
  <1>7. Numbered(y)
    BY <1>4, <1>5, <1>6 DEF Numbered, gs
  <1>8. Follows(x, y)
    BY <1>5, <1>6 DEF Follows, fs, gs
  <1> QED BY <1>7, <1>8

\* A session that got a frame numbers it with the next id.
LEMMA ExtendedKeeps ==
    ASSUME NEW x \in Session, NEW y \in Session, Numbered(x), Extended(x, y)
    PROVE  Numbered(y) /\ Follows(x, y)
  <1> DEFINE fs == x.frames
             gs == y.frames
  <1>1. PICK k \in 0..Len(fs), fr \in Frame :
           fr.id = x.next_id /\ gs = Append(Drop(fs, k), fr)
    BY DEF Extended
  <1>2. fs \in Seq(Frame) /\ x.next_id \in Nat /\ Len(fs) \in Nat /\ k \in Nat /\ k <= Len(fs)
    BY SessionFields
  <1> DEFINE old == Drop(fs, k)
             n == Len(fs) - k
  <1>3. /\ old \in Seq(Frame) /\ Len(old) = n
        /\ \A i \in 1..n : old[i] = fs[i + k]
    <2> HIDE DEF fs
    <2> QED BY <1>2, DropFacts
  <1>4. /\ Len(fs) < x.next_id /\ y.next_id = x.next_id + 1
        /\ \A i \in 1..Len(fs) : fs[i].id = x.next_id - Len(fs) + i - 1
    BY DEF Numbered, Extended
  <1>5. gs = Append(old, fr) /\ n \in Nat /\ n = Len(fs) - k
    BY <1>1, <1>2
  <1> HIDE DEF fs, gs, old, n
  <1>6. /\ Len(gs) = n + 1 /\ gs[n + 1] = fr
        /\ \A i \in 1..n : gs[i] = fs[i + k]
    <2>1. /\ Len(gs) = Len(old) + 1 /\ gs[Len(old) + 1] = fr
          /\ \A i \in 1..Len(old) : gs[i] = old[i]
      BY <1>3, <1>5, AppendFacts
    <2> QED BY <1>3, <2>1
  <1>7. ASSUME NEW i \in 1..Len(gs)
        PROVE  /\ gs[i].id = y.next_id - Len(gs) + i - 1
               /\ gs[i].id < x.next_id => \E j \in 1..Len(fs) : fs[j] = gs[i]
    <2>1. CASE i = n + 1
      <3>1. gs[i].id = x.next_id
        BY <1>1, <1>6, <2>1
      <3>2. x.next_id = y.next_id - Len(gs) + i - 1 /\ ~(x.next_id < x.next_id)
        BY <1>2, <1>4, <1>5, <1>6, <2>1
      <3> QED BY <3>1, <3>2
    <2>2. CASE i # n + 1
      <3>1. i \in 1..n /\ i + k \in 1..Len(fs) /\ i \in Nat
        BY <1>2, <1>5, <1>6, <2>2
      <3>2. gs[i] = fs[i + k] /\ fs[i + k].id = x.next_id - Len(fs) + (i + k) - 1
        BY <1>4, <1>6, <3>1
      <3>3. x.next_id - Len(fs) + (i + k) - 1 = y.next_id - Len(gs) + i - 1
        BY <1>2, <1>4, <1>5, <1>6, <3>1
      <3> QED BY <3>1, <3>2, <3>3
    <2> QED BY <2>1, <2>2
  <1>8. Len(gs) < y.next_id /\ x.next_id <= y.next_id
    BY <1>2, <1>4, <1>5, <1>6
  <1>9. Numbered(y)
    BY <1>7, <1>8 DEF Numbered, gs
  <1>10. Follows(x, y)
    BY <1>7, <1>8 DEF Follows, fs, gs
  <1> QED BY <1>9, <1>10

\* A session whose frames are left alone.
LEMMA Alike ==
    ASSUME NEW x \in Session, NEW y, y.frames = x.frames, y.next_id = x.next_id
    PROVE  Trimmed(x, y)
  <1>1. x.frames \in Seq(Frame)
    BY SessionFields
  <1>2. 0 \in 0..Len(x.frames) /\ Drop(x.frames, 0) = x.frames
    BY <1>1, DropEnds
  <1> QED BY <1>2 DEF Trimmed

\* The session insert() stores is numbered.
LEMMA NewNumbered == Numbered(NewSession)
  BY DEF Numbered, NewSession

\* What append makes of a session.
LEMMA PushedExtends ==
    ASSUME NEW x, Sized(x), NEW size \in Nat \ {0}, size <= MaxBytes
    PROVE  Extended(x, Pushed(x, size)) /\ Trimmed(x, TakenBack(x, size))
  <1>1. x \in Session /\ x.next_id \in Nat
    BY DEF Sized, Session
  <1>2. PICK k \in 0..Len(x.frames) :
           LET fs == Append(Drop(x.frames, k), DataFrame(x.next_id, size))
           IN  /\ Pushed(x, size) = [x EXCEPT !.frames = fs, !.bytes = SumSizes(fs),
                                              !.next_id = @ + 1]
               /\ SubSeq(fs, 1, Len(fs) - 1) = Drop(x.frames, k)
    BY PushedIs
  <1> DEFINE fr == DataFrame(x.next_id, size)
             fs == Append(Drop(x.frames, k), fr)
             p == Pushed(x, size)
             back == TakenBack(x, size)
  <1>3. fr \in Frame /\ fr.id = x.next_id
    BY <1>1 DEF Frame, DataFrame
  <1>4. p = [x EXCEPT !.frames = fs, !.bytes = SumSizes(fs), !.next_id = @ + 1]
        /\ SubSeq(fs, 1, Len(fs) - 1) = Drop(x.frames, k)
    BY <1>2
  <1>5. fs = Append(Drop(x.frames, k), fr)
    OBVIOUS
  <1> HIDE DEF fr, fs
  <1>6. p.frames = fs /\ p.next_id = x.next_id + 1
    BY <1>1, <1>4 DEF Session
  <1>7. Extended(x, p)
    BY <1>3, <1>5, <1>6 DEF Extended
  <1>8. back.frames = Drop(x.frames, k) /\ back.next_id = x.next_id
    <2> DEFINE n == x.next_id + 1
               b == SumSizes(fs)
               m == n - 1
    <2>1. m = x.next_id
      BY <1>1
    <2>2. p = [x EXCEPT !.frames = fs, !.bytes = b, !.next_id = n]
      BY <1>1, <1>4 DEF Session
    <2> HIDE DEF n, b
    <2>3. p.next_id = n /\ p.frames = fs
      BY <1>1, <2>2 DEF Session
    <2>4. back = [p EXCEPT !.frames = SubSeq(fs, 1, Len(fs) - 1),
                           !.bytes = Less(p.bytes, size), !.next_id = m]
      BY <1>1, <2>2, <2>3 DEF TakenBack, Session
    <2> DEFINE c == Less(p.bytes, size)
               gs == SubSeq(fs, 1, Len(fs) - 1)
    <2>5. back = [p EXCEPT !.frames = gs, !.bytes = c, !.next_id = m]
      BY <2>4
    <2> HIDE DEF m, c, gs, p, back
    <2>6. back.frames = gs /\ back.next_id = m
      BY <1>1, <2>2, <2>5 DEF Session
    <2> QED BY <1>4, <2>1, <2>6 DEF gs
  <1>9. Trimmed(x, back)
    BY <1>8 DEF Trimmed
  <1> QED BY <1>7, <1>9

Outside == {"idle", "checked"}

\* A body is attached to a stream that has started, or has read nothing.
Placed(b) ==
    \/ b.pc \in Outside /\ b.stream = NoStream /\ b.got = <<>> /\ b.cursor = b.after
    \/ b.pc \notin Outside /\ b.stream \in Streams /\ owner[b.stream] \notin Unstarted

\* What a body has delivered are the events after the id it started from.
Ordered(b) ==
    /\ b.cursor = b.after + Len(b.got)
    /\ \A i \in 1..Len(b.got) : b.got[i].id = b.after + i

\* A body has delivered no event that its session has not given out, and none
\* that differs from the retained one.
Within(b, x) ==
    /\ b.cursor < x.next_id
    /\ \A i \in 1..Len(b.got), j \in 1..Len(x.frames) :
          b.got[i].id = x.frames[j].id => b.got[i] = x.frames[j]

Agree(b, c) ==
    \A i \in 1..Len(b.got), j \in 1..Len(c.got) :
        b.got[i].id = c.got[j].id => b.got[i] = c.got[j]

\* A body with nothing to see has seen everything.
Served(b) ==
    b.pc = "waiting" /\ ~b.dirty =>
        Accepts(b.stream) /\ b.cursor + 1 = sessions[b.stream].next_id

Reading(b) ==
    /\ Placed(b) /\ Ordered(b) /\ Served(b)
    /\ b.stream \in live => Within(b, sessions[b.stream])

ReadInv ==
    /\ \A t \in Streams : Numbered(sessions[t])
    /\ \A f \in Followers : Reading(follower[f])
    /\ \A f, g \in Followers :
          follower[f].stream = follower[g].stream => Agree(follower[f], follower[g])

\* Nothing has been read at the start.
LEMMA ReadInit == Init => ReadInv
  <1> SUFFICES ASSUME Init PROVE ReadInv
    OBVIOUS
  <1>1. \A t \in Streams : Numbered(sessions[t])
    BY NewNumbered DEF Init
  <1>2. \A f \in Followers : follower[f] = NoBody
    BY DEF Init
  <1>3. /\ NoBody.pc = "idle" /\ NoBody.stream = NoStream /\ NoBody.got = <<>>
        /\ NoBody.cursor = 0 /\ NoBody.after = 0
    BY DEF NoBody
  <1>4. live = {}
    BY DEF Init
  <1>5. Len(<<>>) = 0 /\ 0 = 0 + 0 /\ 1..0 = {}
    OBVIOUS
  <1>6. Reading(NoBody)
    BY <1>3, <1>4, <1>5 DEF Reading, Placed, Ordered, Served, Outside
  <1>7. Agree(NoBody, NoBody)
    BY <1>3, <1>5 DEF Agree
  <1> QED BY <1>1, <1>2, <1>6, <1>7 DEF ReadInv

\* A step keeps a session's numbering, or gives it its first.
Renumbered(t) ==
    t \in live' =>
        \/ /\ t \in live
           /\ \/ Trimmed(sessions[t], sessions'[t])
              \/ Extended(sessions[t], sessions'[t])
        \/ /\ t \notin live /\ owner[t] \in Unstarted
           /\ sessions'[t] = NewSession

\* A stream that still accepts frames does so after the step, and has no new one.
Steady(t) ==
    Accepts(t) => Accepts(t)' /\ sessions'[t].next_id = sessions[t].next_id

\* A body that does not read in this step.
Onlooks(b, c) ==
    /\ c.stream = b.stream /\ c.after = b.after
    /\ c.cursor = b.cursor /\ c.got = b.got
    /\ c.pc \in Outside <=> b.pc \in Outside
    /\ c.pc = "waiting" /\ ~c.dirty =>
          b.pc = "waiting" /\ ~b.dirty /\ Steady(b.stream)

\* A body that attaches in this step.
Joins(c) ==
    /\ c.pc = "ready" /\ c.got = <<>> /\ c.cursor = c.after
    /\ c.stream \in live' /\ owner'[c.stream] \notin Unstarted
    /\ c.cursor < sessions'[c.stream].next_id

\* The numbering of a session survives every change that renumbers nothing.
LEMMA NumberingKept ==
    ASSUME StoreOK, StoreOK', NEW t \in Streams, Numbered(sessions[t]), Renumbered(t)
    PROVE  /\ Numbered(sessions'[t])
           /\ t \in live /\ t \in live' => Follows(sessions[t], sessions'[t])
  <1>1. sessions[t] \in Session /\ sessions'[t] \in Session
        /\ (t \notin live' => sessions'[t] = NewSession)
    BY DEF StoreOK
  <1> QED BY <1>1, TrimmedKeeps, ExtendedKeeps, NewNumbered DEF Renumbered

\* The fields of a body.
LEMMA BodyFields ==
    ASSUME NEW b \in Body
    PROVE  /\ b.got \in Seq(Frame) /\ Len(b.got) \in Nat /\ b.cursor \in Nat /\ b.after \in Nat
           /\ \A i \in 1..Len(b.got) : b.got[i].id \in Nat
  <1>1. b.got \in Seq(Frame) /\ b.cursor \in Nat /\ b.after \in Nat
    BY DEF Body
  <1>2. Len(b.got) \in Nat /\ \A i \in 1..Len(b.got) : b.got[i] \in Frame
    BY <1>1
  <1>3. \A fr \in Frame : fr.id \in Nat
    BY DEF Frame
  <1> QED BY <1>1, <1>2, <1>3

\* What a body has read of a session it has read of a later state of the session.
LEMMA WithinFollows ==
    ASSUME NEW b \in Body, NEW x \in Session, NEW y \in Session,
           Ordered(b), Within(b, x), Follows(x, y)
    PROVE  Within(b, y)
  <1>1. /\ Len(b.got) \in Nat /\ b.cursor \in Nat /\ b.after \in Nat
        /\ x.next_id \in Nat /\ y.next_id \in Nat
    BY BodyFields, SessionFields
  <1>2. b.cursor < x.next_id /\ x.next_id <= y.next_id
    BY DEF Within, Follows
  <1>3. b.cursor < y.next_id
    BY <1>1, <1>2
  <1>4. ASSUME NEW i \in 1..Len(b.got), NEW j \in 1..Len(y.frames),
               b.got[i].id = y.frames[j].id
        PROVE  b.got[i] = y.frames[j]
    <2>1. b.got[i].id = b.after + i /\ b.cursor = b.after + Len(b.got)
      BY DEF Ordered
    <2>2. b.got[i].id < x.next_id
      BY <1>1, <1>2, <2>1
    <2>3. PICK k \in 1..Len(x.frames) : x.frames[k] = y.frames[j]
      BY <1>4, <2>2 DEF Follows
    <2> QED BY <1>4, <2>3 DEF Within
  <1> QED BY <1>3, <1>4 DEF Within

\* The bodies of a step that renumbers no session, none of which reads a frame.
LEMMA ReadKept ==
    ASSUME Base, Base', ReadInv, \A t \in Streams : Renumbered(t),
           \A t \in Streams : owner[t] \notin Unstarted => owner'[t] \notin Unstarted,
           \A f \in Followers : \/ Onlooks(follower[f], follower'[f])
                                \/ Joins(follower'[f])
    PROVE  ReadInv'
  <1>1. StoreOK /\ BodiesOK /\ StoreOK' /\ BodiesOK'
    BY DEF Base
  <1>2. /\ \A t \in Streams : Numbered(sessions'[t])
        /\ \A t \in live' : t \in live => Follows(sessions[t], sessions'[t])
    <2>1. live' \subseteq Streams
      BY <1>1 DEF StoreOK
    <2> QED BY <1>1, <2>1, NumberingKept DEF ReadInv
  <1>3. ASSUME NEW f \in Followers PROVE Reading(follower[f])'
    <2> DEFINE b == follower[f]
    <2>0. b \in Body /\ b' \in Body /\ Reading(b)
      BY <1>1 DEF BodiesOK, ReadInv
    <2>1. CASE Onlooks(b, b')
      <3> HIDE DEF b
      <3>1. Placed(b)'
        BY <2>0, <2>1 DEF Reading, Placed, Onlooks
      <3>2. Ordered(b)'
        BY <2>0, <2>1 DEF Reading, Ordered, Onlooks
      <3>3. Served(b)'
        BY <2>0, <2>1 DEF Reading, Served, Onlooks, Steady
      <3>4. b'.stream \in live' => Within(b, sessions[b.stream])'
        <4> DEFINE t == b.stream
        <4>0. b'.stream = t
          BY <2>1 DEF Onlooks
        <4> SUFFICES ASSUME t \in live' PROVE Within(b', sessions'[t])
          BY <4>0 DEF Within
        <4>1. t \in Streams
          BY <1>1 DEF StoreOK
        <4>2. t \in live
          <5>1. owner[t] \notin Unstarted
            BY <2>0, <4>1, DomainAssumption DEF Reading, Placed
          <5> QED BY <4>1, <5>1 DEF Renumbered
        <4>3. Within(b, sessions[t]) /\ Ordered(b) /\ Follows(sessions[t], sessions'[t])
          BY <1>2, <2>0, <4>2 DEF Reading
        <4>4. sessions[t] \in Session /\ sessions'[t] \in Session
          BY <1>1, <4>1 DEF StoreOK
        <4> HIDE DEF t
        <4>5. Within(b, sessions'[t])
          BY <2>0, <4>3, <4>4, WithinFollows
        <4> QED BY <2>1, <4>5 DEF Onlooks, Within
      <3>5. Reading(b)'
        BY <3>1, <3>2, <3>3, <3>4 DEF Reading
      <3> QED BY <3>5 DEF b
    <2>2. CASE Joins(b')
      <3>1. Len(b'.got) = 0 /\ 1..Len(b'.got) = {} /\ b'.after \in Nat
        BY <2>0, <2>2, BodyFields DEF Joins
      <3>2. b'.cursor = b'.after + Len(b'.got)
        BY <2>2, <3>1 DEF Joins
      <3>3. Ordered(b)'
        BY <3>1, <3>2 DEF Ordered
      <3>4. Within(b, sessions[b.stream])'
        BY <2>2, <3>1 DEF Joins, Within
      <3>5. b'.stream \in Streams
        BY <1>1, <2>2 DEF Joins, StoreOK
      <3> HIDE DEF b
      <3>6. Placed(b)' /\ Served(b)'
        BY <2>2, <3>5 DEF Joins, Placed, Served, Outside
      <3>7. Reading(b)'
        BY <3>3, <3>4, <3>6 DEF Reading
      <3> QED BY <3>7 DEF b
    <2> QED BY <2>1, <2>2
  <1>4. ASSUME NEW f \in Followers, NEW g \in Followers, follower'[f].stream = follower'[g].stream
        PROVE  Agree(follower'[f], follower'[g])
    <2>1. CASE Joins(follower'[f]) \/ Joins(follower'[g])
      <3>1. Len(<<>>) = 0 /\ 1..0 = {}
        OBVIOUS
      <3> QED BY <2>1, <3>1 DEF Joins, Agree
    <2>2. CASE Onlooks(follower[f], follower'[f]) /\ Onlooks(follower[g], follower'[g])
      <3>1. Agree(follower[f], follower[g])
        BY <1>4, <2>2 DEF ReadInv, Onlooks
      <3> QED BY <2>2, <3>1 DEF Onlooks, Agree
    <2> QED BY <2>1, <2>2
  <1> QED BY <1>2, <1>3, <1>4 DEF ReadInv, Agree

\* A body as it was, but for a notification or the end of its wait.
Resting(b, c) ==
    /\ c.stream = b.stream /\ c.after = b.after
    /\ c.cursor = b.cursor /\ c.got = b.got
    /\ c.pc \in Outside <=> b.pc \in Outside
    /\ c.pc = "waiting" /\ ~c.dirty => b.pc = "waiting" /\ ~b.dirty

\* A notified body has a change to see and nothing else.
LEMMA NotifiedRests ==
    ASSUME NEW bodies \in [Followers -> Body], NEW S, NEW f \in Followers
    PROVE  /\ Resting(bodies[f], Notified(bodies, S)[f])
           /\ bodies[f].stream \in S => Notified(bodies, S)[f].dirty
           /\ Notified(bodies, S)[f].pc = bodies[f].pc
  BY DEF Notified, Body, Resting

\* Resting twice is resting.
LEMMA RestingOn ==
    ASSUME NEW b, NEW c, NEW d, Resting(b, c), Resting(c, d)
    PROVE  Resting(b, d)
  BY DEF Resting

\* A body that rests while its session is steady only looks on.
LEMMA RestingOnlooks ==
    ASSUME NEW b, NEW c, Resting(b, c), c.pc = "waiting" /\ ~c.dirty => Steady(b.stream)
    PROVE  Onlooks(b, c)
  BY DEF Resting, Onlooks

\* A step that leaves the frames and the bodies.
LEMMA QuietRead ==
    ASSUME Base, Base', ReadInv, UNCHANGED <<live, sessions, follower>>,
           \A t \in Streams : owner[t] \notin Unstarted => owner'[t] \notin Unstarted
    PROVE  ReadInv'
  <1>1. \A t \in Streams : Renumbered(t)
    BY Alike DEF Base, StoreOK, Renumbered
  <1>2. \A f \in Followers : Onlooks(follower[f], follower'[f])
    BY DEF Onlooks, Steady, Accepts
  <1> QED BY <1>1, <1>2, ReadKept

\* A session whose frames stay.
SameRead(x, y) == y.frames = x.frames /\ y.next_id = x.next_id
SameWait(x, y) == y.next_id = x.next_id /\ y.status = x.status /\ y.deleted = x.deleted

\* A purge.
LEMMA PurgeRead ==
    ASSUME Base, Base', ReadInv,
           \A t \in Streams : owner[t] \notin Unstarted => owner'[t] \notin Unstarted,
           NEW ss, NEW bodies \in [Followers -> Body], NEW more \in SUBSET Streams,
           PurgeLocked(ss, bodies, more),
           \A t \in Streams : SameRead(sessions[t], ss[t]),
           \A t \in more : t \notin live /\ owner[t] \in Unstarted /\ ss[t] = NewSession,
           \A f \in Followers :
              \/ Joins(follower'[f])
              \/ /\ Resting(follower[f], bodies[f])
                 /\ bodies[f].pc = "waiting" /\ ~bodies[f].dirty
                      => SameWait(sessions[bodies[f].stream], ss[bodies[f].stream])
    PROVE  ReadInv'
  <1>1. StoreOK /\ BodiesOK
    BY DEF Base
  <1>2. \A t \in Streams : Renumbered(t)
    <2> SUFFICES ASSUME NEW t \in Streams, t \in live' PROVE Renumbered(t)
      BY DEF Renumbered
    <2>1. CASE t \in more
      <3>1. sessions'[t] = NewSession
        BY <2>1, PurgeStore
      <3> QED BY <2>1, <3>1 DEF Renumbered
    <2>2. CASE t \notin more
      <3>1. t \in live /\ sessions'[t] = ss[t] /\ sessions[t] \in Session
        BY <1>1, <2>2, PurgeStore DEF StoreOK
      <3>2. Trimmed(sessions[t], sessions'[t])
        BY <3>1, Alike DEF SameRead
      <3> QED BY <3>1, <3>2 DEF Renumbered
    <2> QED BY <2>1, <2>2
  <1>3. ASSUME NEW f \in Followers, ~Joins(follower'[f])
        PROVE  Onlooks(follower[f], follower'[f])
    <2>1. follower' = Notified(bodies, Purged(ss))
      BY DEF PurgeLocked
    <2>2. /\ Resting(bodies[f], follower'[f])
          /\ bodies[f].stream \in Purged(ss) => follower'[f].dirty
      BY <2>1, NotifiedRests
    <2>3. /\ Resting(follower[f], bodies[f])
          /\ bodies[f].pc = "waiting" /\ ~bodies[f].dirty
                => SameWait(sessions[bodies[f].stream], ss[bodies[f].stream])
      BY <1>3
    <2>4. ASSUME follower'[f].pc = "waiting", ~follower'[f].dirty
          PROVE  Steady(follower[f].stream)
      <3> DEFINE t == follower[f].stream
      <3>1. bodies[f].stream = t /\ t \notin Purged(ss) /\ SameWait(sessions[t], ss[t])
        BY <2>2, <2>3, <2>4 DEF Resting
      <3>2. ASSUME Accepts(t)
            PROVE  Accepts(t)' /\ sessions'[t].next_id = sessions[t].next_id
        <4>1. t \in Streams /\ t \in live
          BY <1>1, <3>2 DEF StoreOK, Accepts
        <4>2. t \in live' /\ sessions'[t] = ss[t]
          BY <3>1, <4>1, PurgeStore
        <4>3. sessions'[t].next_id = sessions[t].next_id
              /\ sessions'[t].status = sessions[t].status
              /\ sessions'[t].deleted = sessions[t].deleted
          BY <3>1, <4>2 DEF SameWait
        <4>4. sessions[t].status = "active" /\ ~sessions[t].deleted
          BY <3>2 DEF Accepts
        <4>5. follower[f].stream = follower'[f].stream
          BY <2>2, <2>3 DEF Resting
        <4>6. t \in live' /\ ~sessions'[t].deleted /\ sessions'[t].status = "active"
          BY <4>2, <4>3, <4>4
        <4> QED BY <4>3, <4>5, <4>6 DEF Accepts
      <3> QED BY <3>2 DEF Steady
    <2> QED BY <2>2, <2>3, <2>4, RestingOn, RestingOnlooks
  <1> QED BY <1>2, <1>3, ReadKept

\* A step that leaves the sessions their frames and removes none.
LEMMA StayRead ==
    ASSUME Base, Base', ReadInv, live' = live,
           \A t \in Streams : owner[t] \notin Unstarted => owner'[t] \notin Unstarted,
           \A t \in Streams : SameRead(sessions[t], sessions'[t]),
           \A f \in Followers :
              /\ Resting(follower[f], follower'[f])
              /\ \/ follower'[f].pc # "waiting" \/ follower'[f].dirty
                 \/ Steady(follower[f].stream)
    PROVE  ReadInv'
  <1>1. \A t \in Streams : Renumbered(t)
    BY Alike DEF Base, StoreOK, Renumbered, SameRead
  <1>2. \A f \in Followers : Onlooks(follower[f], follower'[f])
    BY RestingOnlooks
  <1> QED BY <1>1, <1>2, ReadKept

\* Once started, always started.
LEMMA StartedStays ==
    ASSUME TaskOK, [Next]_vars
    PROVE  \A t \in Streams : owner[t] \notin Unstarted => owner'[t] \notin Unstarted
  <1> SUFFICES ASSUME NEW t \in Streams, owner[t] \notin Unstarted
               PROVE  owner'[t] \notin Unstarted
    OBVIOUS
  <1>0. \A s \in Streams : \A x : owner' = [owner EXCEPT ![s] = x] =>
           owner'[t] = IF t = s THEN x ELSE owner[t]
    BY DEF TaskOK
  <1>1. ASSUME NEW s \in Streams, OwnerStep(s) PROVE owner'[t] \notin Unstarted
    <2>1. CASE Fail(s)
      <3>1. owner' = [owner EXCEPT ![s] = AfterFail[owner[s]]] /\ owner[s] \in DOMAIN AfterFail
        BY <2>1 DEF Fail
      <3>2. AfterFail[owner[s]] \notin Unstarted
        BY <3>1 DEF AfterFail, Unstarted
      <3> QED BY <1>0, <3>1, <3>2
    <2>2. CASE Override(s)
      BY <1>0, <2>2 DEF Override, Unstarted
    <2>3. CASE Missing(s)
      BY <1>0, <2>3 DEF Missing, Unstarted
    <2>4. CASE Finish(s)
      BY <1>0, <2>4 DEF Finish, Unstarted
    <2>5. CASE SeeShutdown(s)
      BY <1>0, <2>5 DEF SeeShutdown, Unstarted
    <2> QED BY <1>1, <2>1, <2>2, <2>3, <2>4, <2>5 DEF OwnerStep
  <1>2. ASSUME NEW s \in Streams, SourceStep(s) PROVE owner'[t] \notin Unstarted
    <2>1. CASE Complete(s) \/ SignalFailure(s) \/ AppendDropped(s)
      BY <2>1 DEF Complete, SignalFailure, AppendDropped
    <2>2. CASE SourceEnd(s) \/ SourceError(s)
      BY <1>0, <2>2 DEF SourceEnd, SourceError, Unstarted
    <2>3. ASSUME NEW size \in Sizes, AppendOversize(s, size) PROVE owner'[t] \notin Unstarted
      BY <1>0, <2>3 DEF AppendOversize, Unstarted
    <2>4. ASSUME NEW size \in Sizes, AppendFrame(s, size) PROVE owner'[t] \notin Unstarted
      <3>1. owner' = owner \/ owner' = [owner EXCEPT ![s] = "failing"]
        BY <2>4 DEF AppendFrame
      <3> QED BY <1>0, <3>1 DEF Unstarted
    <2> QED BY <1>2, <2>1, <2>2, <2>3, <2>4 DEF SourceStep
  <1>3. ASSUME NEW s \in Streams, ClientStep(s) PROVE owner'[t] \notin Unstarted
    <2>1. CASE CheckStart(s)
      BY <1>0, <2>1 DEF CheckStart, Unstarted
    <2>2. CASE Refuse(s)
      BY <1>0, <2>2 DEF Refuse, Unstarted
    <2>3. CASE Delete(s)
      BY <2>3 DEF Delete
    <2>4. ASSUME NEW f \in Followers, Start(s, f) PROVE owner'[t] \notin Unstarted
      BY <1>0, <2>4 DEF Start, Unstarted
    <2> QED BY <1>3, <2>1, <2>2, <2>3, <2>4 DEF ClientStep
  <1>4. ASSUME NEW f \in Followers, FollowerStep(f) PROVE owner' = owner
    BY <1>4 DEF FollowerStep, CheckAttach, NextFrame, Wake, DropBody, Attach, task
  <1>5. CASE Observe \/ ClearControls \/ Elapse \/ Trigger \/ UNCHANGED vars
    BY <1>5 DEF Observe, ClearControls, Elapse, Trigger, vars, task
  <1> QED BY <1>1, <1>2, <1>3, <1>4, <1>5 DEF Next

Starting == \A t \in Streams : owner[t] \notin Unstarted => owner'[t] \notin Unstarted

\* What the source reports keeps what was read, append aside.
LEMMA SourceRead ==
    ASSUME Base, Base', ReadInv, Starting, NEW s \in Streams,
           \/ Complete(s) \/ SignalFailure(s) \/ AppendDropped(s)
           \/ SourceEnd(s) \/ SourceError(s)
           \/ \E size \in Sizes : AppendOversize(s, size)
    PROVE  ReadInv'
  <1>1. UNCHANGED <<live, sessions, follower>>
    BY DEF Complete, SignalFailure, AppendDropped, SourceEnd, SourceError,
           AppendOversize, store
  <1> QED BY <1>1, QuietRead DEF Starting

\* append keeps what was read: a frame taken back was never seen.
LEMMA AppendRead ==
    ASSUME Base, Base', ReadInv, Starting, NEW s \in Streams, NEW size \in Sizes,
           AppendFrame(s, size)
    PROVE  ReadInv'
  <1>1. StoreOK /\ BodiesOK /\ Accepts(s) /\ s \in live /\ Sized(sessions[s])
        /\ sessions[s] \in Session
    BY DEF Base, AppendFrame, Accepts, StoreOK
  <1>2. PICK gone \in SUBSET live :
              /\ live' = live \ gone
              /\ \/ /\ \A t \in Streams : sessions'[t] =
                          IF t \in gone THEN NewSession
                          ELSE IF t = s THEN Pushed(sessions[s], size) ELSE sessions[t]
                    /\ follower' = Notified(follower, gone \cup {s})
                 \/ /\ \A t \in Streams : sessions'[t] =
                          IF t \in gone THEN NewSession
                          ELSE IF t = s THEN TakenBack(sessions[s], size) ELSE sessions[t]
                    /\ follower' = Notified(follower, gone)
    BY <1>1, AppendIs, Zenon
  <1>3. size \in Nat \ {0} /\ size <= MaxBytes
    BY DomainAssumption DEF AppendFrame
  <1>4. /\ Extended(sessions[s], Pushed(sessions[s], size))
        /\ Trimmed(sessions[s], TakenBack(sessions[s], size))
        /\ SameState(sessions[s], TakenBack(sessions[s], size))
    BY <1>1, <1>3, PushedExtends, SamePushed
  <1>5. ASSUME NEW t \in Streams PROVE Renumbered(t)
    <2> SUFFICES ASSUME t \in live' PROVE Renumbered(t)
      BY DEF Renumbered
    <2>1. t \in live /\ t \notin gone
      BY <1>2
    <2>2. CASE t = s
      BY <1>2, <1>4, <2>1, <2>2 DEF Renumbered
    <2>3. CASE t # s
      <3>1. sessions'[t] = sessions[t] /\ sessions[t] \in Session
        BY <1>1, <1>2, <2>1, <2>3 DEF StoreOK
      <3>2. Trimmed(sessions[t], sessions'[t])
        BY <3>1, Alike
      <3> QED BY <2>1, <3>2 DEF Renumbered
    <2> QED BY <2>2, <2>3
  <1>6. ASSUME NEW f \in Followers PROVE Onlooks(follower[f], follower'[f])
    <2> DEFINE t == follower[f].stream
    <2>1. /\ Resting(follower[f], follower'[f])
          /\ t \in gone => follower'[f].dirty
          /\ t = s /\ follower' = Notified(follower, gone \cup {s}) => follower'[f].dirty
      BY <1>1, <1>2, NotifiedRests DEF BodiesOK
    <2>2. ASSUME ~follower'[f].dirty, Accepts(t)
          PROVE  /\ t \in live' /\ ~sessions'[t].deleted /\ sessions'[t].status = "active"
                 /\ sessions'[t].next_id = sessions[t].next_id
      <3>1. t \in live /\ t \in Streams /\ t \notin gone /\ ~sessions[t].deleted
            /\ sessions[t].status = "active"
        BY <1>1, <2>1, <2>2 DEF Accepts, StoreOK
      <3>2. t # s => sessions'[t] = sessions[t]
        BY <1>2, <3>1
      <3>3. t = s => sessions'[t] = TakenBack(sessions[s], size)
        BY <1>2, <2>1, <2>2, <3>1
      <3> QED BY <1>2, <1>4, <3>1, <3>2, <3>3 DEF SameState, Trimmed
    <2>3. follower'[f].stream = t
      BY <2>1 DEF Resting
    <2>4. ~follower'[f].dirty => Steady(t)
      BY <2>2, <2>3 DEF Steady, Accepts
    <2> QED BY <2>1, <2>4, RestingOnlooks
  <1> QED BY <1>5, <1>6, ReadKept DEF Starting

\* fail keeps what was read, and wakes every body of its stream.
LEMMA FailRead ==
    ASSUME Base, Base', ReadInv, Starting, NEW s \in Streams, Fail(s)
    PROVE  ReadInv'
  <1>1. StoreOK /\ BodiesOK /\ TaskOK /\ live' = live
    BY DEF Base, Fail
  <1>2. CASE ~Failable(s)
    <2>1. UNCHANGED <<live, sessions, follower>>
      BY <1>2 DEF Fail
    <2> QED BY <2>1, QuietRead DEF Starting
  <1>3. CASE Failable(s)
    <2>1. PICK pop \in [live -> 0..MaxEvents] :
              /\ Pops(pop)
              /\ sessions' = [Shortened(pop) EXCEPT ![s] = WithError(@)]
              /\ follower' = Wakes(s)
      BY <1>1, <1>3, FailIs
    <2>2. /\ sessions'[s] = WithError(Shortened(pop)[s])
          /\ \A t \in Streams \ {s} : sessions'[t] = Shortened(pop)[t]
      BY <2>1 DEF Shortened
    <2>3. ASSUME NEW t \in live
          PROVE  /\ Trimmed(sessions[t], Shortened(pop)[t])
                 /\ SameState(sessions[t], Shortened(pop)[t])
      <3> DEFINE k == pop[t]
                 x == sessions[t]
                 fs == Drop(x.frames, k)
      <3>1. t \in Streams /\ x \in Session /\ Sized(x) /\ k \in 0..Len(x.frames)
        BY <1>1, <2>1 DEF StoreOK, Pops
      <3>2. Shortened(pop)[t] = Cut(x, fs, SumSizes(fs))
        BY <1>1, <2>1, <3>1, ShortenedAre
      <3> HIDE DEF k, x
      <3>3. fs \in Seq(Frame) /\ SumSizes(fs) \in Nat
        BY <3>1, CutSized
      <3>5. fs = Drop(x.frames, k)
        OBVIOUS
      <3> DEFINE b == SumSizes(fs)
      <3> HIDE DEF fs
      <3>6. b \in Nat /\ Shortened(pop)[t] = Cut(x, fs, b)
        BY <3>2, <3>3
      <3> HIDE DEF b
      <3>7. Cut(x, fs, b).frames = fs
        BY <3>1, <3>3, <3>6, CutFields
      <3>8. SameState(x, Cut(x, fs, b)) /\ Cut(x, fs, b).next_id = x.next_id
        BY <3>1, SameCut
      <3>9. Trimmed(x, Cut(x, fs, b))
        BY <3>1, <3>5, <3>7, <3>8 DEF Trimmed
      <3> QED BY <3>6, <3>8, <3>9 DEF x
    <2>4. s \in live
      BY <1>3 DEF Failable
    <2>5. Extended(sessions[s], sessions'[s])
      <3> DEFINE x == Shortened(pop)[s]
                 o == sessions[s]
      <3>1. x \in Session /\ Trimmed(o, x) /\ o \in Session
        BY <1>1, <2>1, <2>3, <2>4, ShortenedAre DEF Sized, StoreOK
      <3>2. sessions'[s] = WithError(x)
        BY <2>2
      <3> HIDE DEF x, o
      <3>3. PICK k \in 0..Len(o.frames) : x.frames = Drop(o.frames, k)
        BY <3>1 DEF Trimmed
      <3> DEFINE fr == ErrorFrame(x.next_id)
                 fs == Append(x.frames, fr)
                 b == x.bytes + ErrorSize
                 n == x.next_id + 1
                 stamp == clock + 1
      <3>4. WithError(x) = Failed(x, fs, b, n, stamp)
        BY <1>1, <3>1 DEF Session, Failed, WithError, ErrorFrame
      <3>5. fr \in Frame /\ fr.id = o.next_id /\ n = o.next_id + 1
        BY <3>1, SessionFields, PolicyAssumption DEF ErrorFrame, Frame, Trimmed
      <3> HIDE DEF fr, b, n, stamp
      <3>6. fs = Append(Drop(o.frames, k), fr)
        BY <3>3
      <3> HIDE DEF fs
      <3>7. WithError(x).frames = fs /\ WithError(x).next_id = n
        BY <3>1, <3>4 DEF Failed, Session
      <3>8. Extended(o, WithError(x))
        BY <3>5, <3>6, <3>7 DEF Extended
      <3> QED BY <3>2, <3>8 DEF o
    <2>6. ASSUME NEW t \in Streams PROVE Renumbered(t)
      BY <1>1, <2>2, <2>3, <2>5 DEF Renumbered
    <2>7. ASSUME NEW f \in Followers PROVE Onlooks(follower[f], follower'[f])
      <3> DEFINE t == follower[f].stream
      <3>1. /\ Resting(follower[f], follower'[f])
            /\ t \in {s} => follower'[f].dirty
        BY <1>1, <2>1, NotifiedRests DEF Wakes, BodiesOK
      <3>2. ASSUME t # s, Accepts(t)
            PROVE  /\ t \in live' /\ ~sessions'[t].deleted /\ sessions'[t].status = "active"
                   /\ sessions'[t].next_id = sessions[t].next_id
        <4>1. t \in live /\ t \in Streams /\ ~sessions[t].deleted /\ sessions[t].status = "active"
          BY <1>1, <3>2 DEF Accepts, StoreOK
        <4> QED BY <1>1, <2>2, <2>3, <3>2, <4>1 DEF SameState, Trimmed
      <3>3. follower'[f].stream = t
        BY <3>1 DEF Resting
      <3>4. t # s => Steady(t)
        BY <3>2, <3>3 DEF Steady, Accepts
      <3> QED BY <3>1, <3>4, RestingOnlooks
    <2> QED BY <2>6, <2>7, ReadKept DEF Starting
  <1> QED BY <1>2, <1>3

\* A body that does not move rests.
LEMMA RestsItself == ASSUME NEW b PROVE Resting(b, b)
  BY DEF Resting

\* The same session, or one that ends behind a notification.
LEMMA WokenRests ==
    ASSUME BodiesOK, NEW s \in Streams, NEW f \in Followers
    PROVE  /\ Wakes(s) \in [Followers -> Body]
           /\ Resting(follower[f], Wakes(s)[f])
           /\ Wakes(s)[f].pc = follower[f].pc
           /\ Wakes(s)[f].stream = follower[f].stream
           /\ follower[f].stream = s => Wakes(s)[f].dirty
  <1>1. follower \in [Followers -> Body]
    BY DEF BodiesOK
  <1>2. Notified(follower, {s}) \in [Followers -> Body]
    BY <1>1, NotifiedOK
  <1>3. /\ Resting(follower[f], Notified(follower, {s})[f])
        /\ follower[f].stream \in {s} => Notified(follower, {s})[f].dirty
        /\ Notified(follower, {s})[f].pc = follower[f].pc
    BY <1>1, NotifiedRests
  <1> QED BY <1>2, <1>3 DEF Wakes, Resting

\* The other steps of an owner keep what was read.
LEMMA OwnerRead ==
    ASSUME Base, Base', LifeInv, ReadInv, Starting, NEW s \in Streams,
           Override(s) \/ Missing(s) \/ SeeShutdown(s)
    PROVE  ReadInv'
  <1>1. StoreOK /\ BodiesOK /\ Life(s) /\ sessions[s] \in Session
    BY DEF Base, LifeInv, StoreOK
  <1>2. CASE Missing(s) \/ SeeShutdown(s)
    <2>1. UNCHANGED <<live, sessions, follower>>
      BY <1>2 DEF Missing, SeeShutdown, store
    <2> QED BY <2>1, QuietRead DEF Starting
  <1>3. CASE Override(s)
    <2>1. /\ UNCHANGED <<live, follower>> /\ owner[s] = "override"
          /\ sessions' = IF s \in live THEN [sessions EXCEPT ![s].status = "cancelled"]
                         ELSE sessions
      BY <1>3 DEF Override
    <2>2. ASSUME NEW t \in Streams
          PROVE  SameRead(sessions[t], sessions'[t]) /\ (t # s => sessions'[t] = sessions[t])
      <3>1. sessions[t] \in Session
        BY <1>1 DEF StoreOK
      <3>2. \/ sessions'[t] = sessions[t]
            \/ t = s /\ sessions'[t] = [sessions[t] EXCEPT !.status = "cancelled"]
        BY <1>1, <2>1 DEF StoreOK
      <3> QED BY <3>1, <3>2 DEF SameRead, Session
    <2>3. ~Accepts(s)
      BY <1>1, <2>1 DEF Life, Truthful, Accepts
    <2>4. ASSUME NEW f \in Followers PROVE Steady(follower[f].stream)
      <3> SUFFICES ASSUME Accepts(follower[f].stream) PROVE Steady(follower[f].stream)
        BY DEF Steady
      <3>1. follower[f].stream \in Streams /\ follower[f].stream # s
        BY <1>1, <2>3 DEF Accepts, StoreOK
      <3>2. sessions'[follower[f].stream] = sessions[follower[f].stream]
        BY <2>2, <3>1
      <3> QED BY <2>1, <3>2 DEF Steady, Accepts
    <2>5. \A f \in Followers : Resting(follower[f], follower'[f])
      BY <2>1, RestsItself
    <2> QED BY <2>1, <2>2, <2>4, <2>5, StayRead DEF Starting
  <1> QED BY <1>2, <1>3

\* finish keeps what was read, and wakes every body of its stream.
LEMMA FinishRead ==
    ASSUME Base, Base', ReadInv, Starting, NEW s \in Streams, Finish(s)
    PROVE  ReadInv'
  <1>1. StoreOK /\ BodiesOK /\ sessions[s] \in Session
    BY DEF Base, StoreOK
  <1>2. CASE s \notin live
    <2>1. UNCHANGED <<live, sessions, follower>>
      BY <1>2 DEF Finish, store
    <2> QED BY <2>1, QuietRead DEF Starting
  <1>3. CASE s \in live
    <2>1. PICK y : /\ PurgeLocked([sessions EXCEPT ![s] = y], Wakes(s), {})
                   /\ SameRead(sessions[s], y)
      <3>1. \A st, n : SameRead(sessions[s], [sessions[s] EXCEPT !.owner_active = FALSE,
                                               !.status = st, !.terminal_at = n])
        BY <1>1 DEF SameRead, Session
      <3>2. SameRead(sessions[s], [sessions[s] EXCEPT !.owner_active = FALSE])
        BY <1>1 DEF SameRead, Session
      <3>3. \/ PurgeLocked([sessions EXCEPT ![s] = [sessions[s] EXCEPT
                             !.owner_active = FALSE, !.status = Outcome(s),
                             !.terminal_at = clock + 1]], Wakes(s), {})
            \/ PurgeLocked([sessions EXCEPT ![s] = [sessions[s] EXCEPT
                             !.owner_active = FALSE]], Wakes(s), {})
        <4>1. [sessions EXCEPT ![s].owner_active = FALSE]
                = [sessions EXCEPT ![s] = [sessions[s] EXCEPT !.owner_active = FALSE]]
          BY <1>1 DEF StoreOK
        <4> QED BY <1>3, <4>1 DEF Finish
      <3> QED BY <3>1, <3>2, <3>3
    <2> DEFINE ss == [sessions EXCEPT ![s] = y]
    <2>2. \A t \in Streams : ss[t] = IF t = s THEN y ELSE sessions[t]
      BY <1>1 DEF StoreOK
    <2>3. PurgeLocked(ss, Wakes(s), {})
      BY <2>1
    <2> HIDE DEF ss
    <2>4. \A t \in Streams : SameRead(sessions[t], ss[t])
      BY <2>1, <2>2 DEF SameRead
    <2>5. Wakes(s) \in [Followers -> Body]
      BY <1>1, NotifiedOK DEF Wakes, BodiesOK
    <2>6. ASSUME NEW f \in Followers
          PROVE  /\ Resting(follower[f], Wakes(s)[f])
                 /\ Wakes(s)[f].pc = "waiting" /\ ~Wakes(s)[f].dirty
                       => SameWait(sessions[Wakes(s)[f].stream], ss[Wakes(s)[f].stream])
      <3>1. /\ Resting(follower[f], Wakes(s)[f])
            /\ Wakes(s)[f].pc = follower[f].pc
            /\ Wakes(s)[f].stream = follower[f].stream
            /\ follower[f].stream = s => Wakes(s)[f].dirty
        BY <1>1, WokenRests
      <3>2. follower[f].pc = "waiting" => follower[f].stream \in Streams
        BY DEF ReadInv, Reading, Placed, Outside
      <3>3. \A t \in Streams \ {s} : SameWait(sessions[t], ss[t])
        BY <2>2 DEF SameWait
      <3> QED BY <3>1, <3>2, <3>3
    <2> QED BY <2>3, <2>4, <2>5, <2>6, PurgeRead DEF Starting
  <1> QED BY <1>2, <1>3

\* The calls of clients keep what was read.
LEMMA ClientRead ==
    ASSUME Base, Base', LifeInv, ReadInv, Starting, NEW s \in Streams, ClientStep(s)
    PROVE  ReadInv'
  <1>1. StoreOK /\ BodiesOK /\ TaskOK /\ Life(s) /\ sessions[s] \in Session
    BY DEF Base, LifeInv, StoreOK
  <1>2. CASE CheckStart(s)
    <2>1. UNCHANGED <<live, sessions, follower>>
      BY <1>2 DEF CheckStart, store
    <2> QED BY <2>1, QuietRead DEF Starting
  <1>3. /\ \A t \in Streams : SameRead(sessions[t], sessions[t])
        /\ \A f \in Followers : SameWait(sessions[follower[f].stream], sessions[follower[f].stream])
    BY DEF SameRead, SameWait
  <1>4. CASE Refuse(s)
    <2>1. PurgeLocked(sessions, follower, {})
      BY <1>4 DEF Refuse
    <2> QED BY <1>1, <1>3, <2>1, RestsItself, PurgeRead DEF Starting, BodiesOK
  <1>5. ASSUME NEW f \in Followers, Start(s, f) PROVE ReadInv'
    <2> DEFINE new == [NoBody EXCEPT !.pc = "ready", !.stream = s, !.follow = TRUE]
               bodies == [follower EXCEPT ![f] = new]
    <2>1. /\ PurgeLocked(sessions, bodies, {s}) /\ owner[s] = "checked"
          /\ owner' = [owner EXCEPT ![s] = "run"]
      BY <1>5 DEF Start
    <2>2. /\ new \in Body /\ new.pc = "ready" /\ new.got = <<>> /\ new.cursor = 0
          /\ new.after = 0 /\ new.stream = s
      <3>1. <<>> \in Seq(Frame)
        OBVIOUS
      <3> QED BY <3>1 DEF NoBody, Body
    <2> HIDE DEF new
    <2>3. bodies \in [Followers -> Body] /\ bodies[f] = new
          /\ \A g \in Followers \ {f} : bodies[g] = follower[g]
      BY <1>1, <2>2 DEF BodiesOK
    <2> HIDE DEF bodies
    <2>4. s \notin live /\ sessions[s] = NewSession /\ owner[s] \in Unstarted
      BY <1>1, <2>1 DEF Life, Untouched, Unstarted, StoreOK
    <2>5. Joins(follower'[f])
      <3>1. follower' = Notified(bodies, Purged(sessions))
        BY <2>1 DEF PurgeLocked
      <3>2. Resting(new, follower'[f]) /\ follower'[f].pc = "ready"
        BY <2>2, <2>3, <3>1, NotifiedRests
      <3>3. s \in live' /\ sessions'[s] = NewSession
        BY <2>1, <2>4, PurgeStore
      <3>4. owner'[s] = "run"
        BY <1>1, <2>1 DEF TaskOK
      <3>5. NewSession.next_id = 1 /\ 0 < 1
        BY DEF NewSession
      <3> QED BY <2>2, <3>2, <3>3, <3>4, <3>5 DEF Joins, Resting, Unstarted
    <2>6. ASSUME NEW g \in Followers, g # f
          PROVE  /\ Resting(follower[g], bodies[g])
                 /\ SameWait(sessions[bodies[g].stream], sessions[bodies[g].stream])
      BY <2>3, <2>6, RestsItself DEF SameWait
    <2> QED BY <1>3, <2>1, <2>3, <2>4, <2>5, <2>6, PurgeRead DEF Starting
  <1>6. CASE Delete(s)
    <2>1. PICK y : /\ sessions' = [sessions EXCEPT ![s] = y] /\ SameRead(sessions[s], y)
                   /\ live' = live /\ follower' = Wakes(s)
      <3>1. \A st, n : SameRead(sessions[s], [sessions[s] EXCEPT !.deleted = TRUE,
                                               !.status = st, !.terminal_at = n])
        BY <1>1 DEF SameRead, Session
      <3>2. SameRead(sessions[s], [sessions[s] EXCEPT !.deleted = TRUE])
        BY <1>1 DEF SameRead, Session
      <3>3. \/ sessions' = [sessions EXCEPT ![s] = [sessions[s] EXCEPT !.deleted = TRUE,
                             !.status = "cancelled", !.terminal_at = clock + 1]]
            \/ sessions' = [sessions EXCEPT ![s] = [sessions[s] EXCEPT !.deleted = TRUE]]
        <4>1. [sessions EXCEPT ![s].deleted = TRUE]
                = [sessions EXCEPT ![s] = [sessions[s] EXCEPT !.deleted = TRUE]]
          BY <1>1 DEF StoreOK
        <4> QED BY <1>6, <4>1 DEF Delete
      <3>4. live' = live /\ follower' = Wakes(s)
        BY <1>6 DEF Delete
      <3>5. CASE sessions' = [sessions EXCEPT ![s] = [sessions[s] EXCEPT !.deleted = TRUE]]
        BY <3>2, <3>4, <3>5
      <3>6. CASE sessions' = [sessions EXCEPT ![s] = [sessions[s] EXCEPT !.deleted = TRUE,
                             !.status = "cancelled", !.terminal_at = clock + 1]]
        BY <3>1, <3>4, <3>6
      <3> QED BY <3>3, <3>5, <3>6
    <2>2. \A t \in Streams : sessions'[t] = IF t = s THEN y ELSE sessions[t]
      BY <1>1, <2>1 DEF StoreOK
    <2>3. \A t \in Streams : SameRead(sessions[t], sessions'[t])
      BY <2>1, <2>2 DEF SameRead
    <2>4. ASSUME NEW f \in Followers
          PROVE  /\ Resting(follower[f], follower'[f])
                 /\ \/ follower'[f].pc # "waiting" \/ follower'[f].dirty
                    \/ Steady(follower[f].stream)
      <3>1. /\ Resting(follower[f], follower'[f])
            /\ follower[f].stream = s => follower'[f].dirty
        BY <1>1, <2>1, WokenRests
      <3>2. ASSUME follower[f].stream # s, Accepts(follower[f].stream)
            PROVE  Steady(follower[f].stream)
        <4>1. follower[f].stream \in Streams
          BY <1>1, <3>2 DEF Accepts, StoreOK
        <4>2. sessions'[follower[f].stream] = sessions[follower[f].stream]
          BY <2>2, <3>2, <4>1
        <4>3. follower'[f].stream = follower[f].stream
          BY <3>1 DEF Resting
        <4> QED BY <2>1, <4>2, <4>3 DEF Steady, Accepts
      <3> QED BY <3>1, <3>2 DEF Steady
    <2> QED BY <2>1, <2>3, <2>4, StayRead DEF Starting
  <1> QED BY <1>2, <1>4, <1>5, <1>6 DEF ClientStep

\* The numbering finds the frame that follows a cursor.
LEMMA NextIs ==
    ASSUME NEW x \in Session, Numbered(x), NEW c \in Nat, c < x.next_id,
           ~(c + 1 < FirstId(x))
    PROVE  LET unread == Unread(x.frames, c)
               m == Min(unread)
           IN  /\ unread = {} => c + 1 = x.next_id
               /\ unread # {} => /\ m \in 1..Len(x.frames) /\ x.frames[m].id = c + 1
                                 /\ x.frames[m] \in Frame /\ c + 1 < x.next_id
                                 /\ \A j \in 1..Len(x.frames) : x.frames[j].id = c + 1 => j = m
  <1> DEFINE fs == x.frames
             n == Len(fs)
             id == x.next_id
             unread == Unread(fs, c)
             m == Min(unread)
  <1>1. fs \in Seq(Frame) /\ n \in Nat /\ id \in Nat /\ DOMAIN fs = 1..n
    BY SessionFields
  <1>2. n < id /\ \A i \in 1..n : fs[i].id = id - n + i - 1
    BY DEF Numbered
  <1>3. fs = <<>> => n = 0 /\ ~(c + 1 < id)
    BY DEF FirstId
  <1>4. fs # <<>> => n >= 1 /\ 1 \in 1..n /\ ~(c + 1 < fs[1].id)
    BY <1>1 DEF FirstId
  <1>5. \A i \in 1..n : fs[i] \in Frame
    BY <1>1
  <1> HIDE DEF fs, n, id
  <1>6. ASSUME unread = {} PROVE c + 1 = id
    <2>1. CASE fs = <<>>
      BY <1>1, <1>3, <2>1 DEF id
    <2>2. CASE fs # <<>>
      <3>1. n \in 1..n /\ fs[n].id = id - n + n - 1
        BY <1>1, <1>2, <1>4, <2>2
      <3>2. ~(fs[n].id > c)
        BY <1>1, <1>6, <3>1 DEF Unread
      <3> QED BY <1>1, <3>1, <3>2 DEF id
    <2> QED BY <2>1, <2>2
  <1>7. ASSUME unread # {}
        PROVE  /\ m \in 1..n /\ fs[m].id = c + 1 /\ c + 1 < id
               /\ \A j \in 1..n : fs[j].id = c + 1 => j = m
    <2>1. unread \in SUBSET Nat /\ \A i \in unread : i \in 1..n /\ fs[i].id > c
      BY <1>1 DEF Unread
    <2>2. m \in unread /\ \A i \in unread : m <= i
      BY <1>7, <2>1, MinIs
    <2> HIDE DEF m
    <2>3. m \in 1..n /\ fs[m].id > c /\ fs[m].id = id - n + m - 1 /\ m \in Nat
      BY <1>2, <2>1, <2>2
    <2>4. c + 1 < id
      BY <1>1, <2>3
    <2>5. ~(c + 1 < id - n)
      <3>1. fs # <<>> /\ 1 \in 1..n
        BY <1>1, <1>3, <1>4, <2>3
      <3>2. fs[1].id = id - n + 1 - 1
        BY <1>2, <3>1
      <3> QED BY <1>1, <1>4, <3>1, <3>2
    <2> DEFINE j == c + 2 + n - id
    <2>6. j \in 1..n
      BY <1>1, <1>2, <2>4, <2>5
    <2>7. fs[j].id = c + 1
      <3>1. fs[j].id = id - n + j - 1
        BY <1>2, <2>6
      <3>2. id - n + j - 1 = c + 1
        BY <1>1
      <3> QED BY <3>1, <3>2
    <2> HIDE DEF j
    <2>8. j \in unread
      BY <1>1, <2>6, <2>7 DEF Unread
    <2>9. m <= j /\ fs[j].id = id - n + j - 1
      BY <1>2, <2>2, <2>6, <2>8
    <2>10. fs[m].id = c + 1
      BY <1>1, <2>3, <2>6, <2>7, <2>9
    <2>11. ASSUME NEW i \in 1..n, fs[i].id = c + 1 PROVE i = m
      <3>1. fs[i].id = id - n + i - 1
        BY <1>2
      <3> QED BY <1>1, <2>3, <2>10, <2>11, <3>1
    <2> QED BY <2>3, <2>4, <2>10, <2>11
  <1> QED BY <1>5, <1>6, <1>7 DEF fs, n, id

\* Bodies agree on what they delivered, whatever else they are.
LEMMA AgreeSame ==
    ASSUME NEW b, NEW c, Agree(b, c), NEW d, d.got = b.got, NEW e, e.got = c.got
    PROVE  Agree(d, e)
  BY DEF Agree

\* What Follower::next makes of its body.
LEMMA NextRead ==
    ASSUME Base, Base', ReadInv, NEW f \in Followers, NextFrame(f)
    PROVE  ReadInv'
  <1> DEFINE b == follower[f]
             s == b.stream
             x == sessions[s]
             unread == Unread(x.frames, b.cursor)
             m == Min(unread)
             frame == x.frames[m]
  <1>1. /\ StoreOK /\ BodiesOK /\ BodiesOK' /\ b \in Body /\ Reading(b) /\ b.pc = "ready"
        /\ follower' = [follower EXCEPT ![f] = Read(f)]
        /\ UNCHANGED <<live, sessions, owner>>
    BY DEF Base, BodiesOK, NextFrame, ReadInv, store, task
  <1>2. /\ follower'[f] = Read(f) /\ \A g \in Followers \ {f} : follower'[g] = follower[g]
    BY <1>1 DEF BodiesOK
  <1>3. s \in Streams /\ x \in Session /\ Numbered(x)
    BY <1>1 DEF Reading, Placed, StoreOK, ReadInv, Outside
  <1>4. \A t \in Streams : Numbered(sessions'[t])
    BY <1>1 DEF ReadInv
  <1>5. \/ Read(f) = [b EXCEPT !.pc = "ending", !.result = "eof"]
        \/ Read(f) = [b EXCEPT !.pc = "ending", !.result = "lost"]
        \/ /\ s \in live /\ ~(b.cursor + 1 < FirstId(x)) /\ unread # {}
           /\ Read(f) = [b EXCEPT !.cursor = frame.id, !.got = Append(b.got, frame)]
        \/ /\ s \in live /\ ~x.deleted /\ ~(b.cursor + 1 < FirstId(x)) /\ unread = {}
           /\ x.status = "active" /\ Read(f) = [b EXCEPT !.pc = "waiting"]
    BY DEF Read, Unread
  <1>6. ASSUME NEW g \in Followers, g # f PROVE Reading(follower[g])'
    <2>1. Reading(follower[g]) /\ follower'[g] = follower[g]
      BY <1>2, <1>6 DEF ReadInv
    <2>2. Placed(follower[g])'
      BY <1>1, <2>1 DEF Reading, Placed
    <2>3. Ordered(follower[g])' /\ Served(follower[g])'
      BY <1>1, <2>1 DEF Reading, Ordered, Served, Accepts
    <2>4. (follower[g].stream \in live => Within(follower[g], sessions[follower[g].stream]))'
      BY <1>1, <2>1 DEF Reading, Within
    <2> QED BY <2>2, <2>3, <2>4 DEF Reading
  <1>7. CASE \/ Read(f) = [b EXCEPT !.pc = "ending", !.result = "eof"]
             \/ Read(f) = [b EXCEPT !.pc = "ending", !.result = "lost"]
    <2>1. Onlooks(follower[f], follower'[f])
      <3>1. \E r \in {"eof", "lost"} : b' = [b EXCEPT !.pc = "ending", !.result = r]
        BY <1>2, <1>7
      <3> HIDE DEF b
      <3>2. Onlooks(b, b')
        BY <1>1, <3>1 DEF Body, Onlooks, Outside
      <3> QED BY <3>2 DEF b
    <2>2. \A g \in Followers : Onlooks(follower[g], follower'[g])
      <3>1. \A g \in Followers \ {f} : Onlooks(follower[g], follower'[g])
        BY <1>1, <1>2 DEF Onlooks, Steady, Accepts
      <3> QED BY <2>1, <3>1
    <2>3. \A t \in Streams : Renumbered(t)
      BY <1>1, Alike DEF StoreOK, Renumbered
    <2>4. \A t \in Streams : owner[t] \notin Unstarted => owner'[t] \notin Unstarted
      BY <1>1
    <2> QED BY <2>2, <2>3, <2>4, ReadKept
  <1>8. /\ b.cursor \in Nat /\ b.got \in Seq(Frame) /\ b.after \in Nat /\ Len(b.got) \in Nat
        /\ b.cursor = b.after + Len(b.got)
        /\ \A i \in 1..Len(b.got) : b.got[i].id = b.after + i
        /\ s \in live => Within(b, x) /\ b.cursor < x.next_id
    BY <1>1, BodyFields DEF Reading, Ordered, Within
  <1>9. CASE /\ s \in live /\ ~x.deleted /\ ~(b.cursor + 1 < FirstId(x)) /\ unread = {}
             /\ x.status = "active" /\ Read(f) = [b EXCEPT !.pc = "waiting"]
    <2>1. b.cursor + 1 = x.next_id
      BY <1>3, <1>8, <1>9, NextIs
    <2>2. /\ b'.stream = s /\ b'.cursor = b.cursor /\ b'.got = b.got /\ b'.pc = "waiting"
          /\ b'.after = b.after
      BY <1>1, <1>2, <1>9 DEF Body
    <2>3. sessions'[s] = x /\ s \in live' /\ owner'[s] = owner[s]
      BY <1>1, <1>9
    <2> HIDE DEF b, s, x
    <2>4. Placed(b)' /\ Ordered(b)'
      BY <1>1, <2>2, <2>3 DEF Reading, Placed, Ordered, Outside, s
    <2>5. Served(b)'
      BY <1>9, <2>1, <2>2, <2>3 DEF Served, Accepts
    <2>6. Within(b, sessions[b.stream])'
      BY <1>8, <1>9, <2>2, <2>3 DEF Within
    <2>7. Reading(b)'
      BY <2>4, <2>5, <2>6 DEF Reading
    <2>8. ASSUME NEW g \in Followers, NEW h \in Followers,
                 follower'[g].stream = follower'[h].stream
          PROVE  Agree(follower'[g], follower'[h])
      <3>1. ASSUME NEW k \in Followers
            PROVE  follower'[k].stream = follower[k].stream /\ follower'[k].got = follower[k].got
        BY <1>2, <2>2 DEF b, s
      <3>2. Agree(follower[g], follower[h])
        BY <2>8, <3>1 DEF ReadInv
      <3>3. follower'[g].got = follower[g].got /\ follower'[h].got = follower[h].got
        BY <3>1
      <3> QED BY <3>2, <3>3, AgreeSame
    <2>9. \A g \in Followers : Reading(follower[g])'
      BY <1>6, <2>7 DEF b
    <2> QED BY <1>4, <2>8, <2>9 DEF ReadInv, Agree
  <1>10. CASE /\ s \in live /\ ~(b.cursor + 1 < FirstId(x)) /\ unread # {}
              /\ Read(f) = [b EXCEPT !.cursor = frame.id, !.got = Append(b.got, frame)]
    <2>1. /\ m \in 1..Len(x.frames) /\ frame.id = b.cursor + 1
          /\ frame \in Frame /\ b.cursor + 1 < x.next_id
          /\ \A j \in 1..Len(x.frames) : x.frames[j].id = b.cursor + 1 => j = m
      BY <1>3, <1>8, <1>10, NextIs
    <2>2. /\ b'.stream = s /\ b'.cursor = frame.id /\ b'.got = Append(b.got, frame)
          /\ b'.pc = "ready" /\ b'.after = b.after
      <3> DEFINE c == frame.id
                 fs == Append(b.got, frame)
      <3>1. b' = [b EXCEPT !.cursor = c, !.got = fs] /\ b \in Body /\ b.pc = "ready" /\ b.stream = s
        BY <1>1, <1>2, <1>10
      <3> HIDE DEF c, fs, b, s
      <3>2. /\ b'.stream = s /\ b'.cursor = c /\ b'.got = fs /\ b'.pc = "ready"
            /\ b'.after = b.after
        BY <3>1 DEF Body
      <3> QED BY <3>2 DEF c, fs
    <2>3. sessions'[s] = x /\ s \in live' /\ owner'[s] = owner[s]
      BY <1>1, <1>10
    <2> HIDE DEF frame
    <2>4. /\ Len(b'.got) = Len(b.got) + 1 /\ b'.got[Len(b.got) + 1] = frame
          /\ \A i \in 1..Len(b.got) : b'.got[i] = b.got[i]
      BY <1>8, <2>1, <2>2, AppendFacts
    <2>5. frame = x.frames[m]
      BY DEF frame
    <2> HIDE DEF b, s, x, m
    <2>6. ASSUME NEW i \in 1..Len(b'.got)
          PROVE  \/ i = Len(b.got) + 1 /\ b'.got[i] = frame
                 \/ i \in 1..Len(b.got) /\ b'.got[i] = b.got[i]
      <3>1. i = Len(b.got) + 1 \/ i \in 1..Len(b.got)
        BY <1>8, <2>4
      <3> QED BY <2>4, <3>1
    <2>7. Placed(b)' /\ Served(b)'
      BY <1>1, <2>2, <2>3 DEF Reading, Placed, Served, Outside, s
    <2>8. Ordered(b)'
      <3>1. b'.cursor = b'.after + Len(b'.got)
        BY <1>8, <2>1, <2>2, <2>4
      <3>2. ASSUME NEW i \in 1..Len(b'.got) PROVE b'.got[i].id = b'.after + i
        BY <1>8, <2>1, <2>2, <2>6
      <3> QED BY <3>1, <3>2 DEF Ordered
    <2>9. ASSUME NEW i \in 1..Len(b'.got), NEW j \in 1..Len(x.frames),
                 b'.got[i].id = x.frames[j].id
          PROVE  b'.got[i] = x.frames[j]
      <3>1. CASE b'.got[i] = frame
        BY <2>1, <2>5, <2>9, <3>1
      <3>2. CASE i \in 1..Len(b.got) /\ b'.got[i] = b.got[i]
        <4>1. Within(b, x)
          BY <1>8, <1>10
        <4>2. b.got[i].id = x.frames[j].id
          BY <2>9, <3>2
        <4> QED BY <2>9, <3>2, <4>1, <4>2 DEF Within
      <3> QED BY <2>6, <3>1, <3>2
    <2>10. Within(b, sessions[b.stream])'
      <3>1. b'.cursor < x.next_id
        BY <2>1, <2>2
      <3> QED BY <2>2, <2>3, <2>9, <3>1 DEF Within
    <2>11. Reading(b)'
      BY <2>7, <2>8, <2>10 DEF Reading
    <2>12. \A g \in Followers : Reading(follower[g])'
      BY <1>6, <2>11 DEF b
    <2>13. ASSUME NEW g \in Followers, g # f, follower[g].stream = s
           PROVE  Agree(b', follower[g]) /\ Agree(follower[g], b')
      <3> DEFINE c == follower[g]
      <3>1. Agree(b, c) /\ Agree(c, b) /\ Within(c, x)
        BY <1>10, <2>13 DEF ReadInv, Reading, b, s, x
      <3>2. ASSUME NEW i \in 1..Len(b'.got), NEW j \in 1..Len(c.got), b'.got[i].id = c.got[j].id
            PROVE  b'.got[i] = c.got[j]
        <4>1. CASE b'.got[i] = frame
          <5>1. c.got[j].id = x.frames[m].id
            BY <2>5, <3>2, <4>1
          <5>2. c.got[j] = x.frames[m]
            BY <2>1, <3>1, <5>1 DEF Within
          <5> QED BY <2>5, <4>1, <5>2
        <4>2. CASE i \in 1..Len(b.got) /\ b'.got[i] = b.got[i]
          BY <3>1, <3>2, <4>2 DEF Agree
        <4> QED BY <2>6, <4>1, <4>2
      <3> HIDE DEF c
      <3>3. Agree(b', c) /\ Agree(c, b')
        BY <3>2 DEF Agree
      <3> QED BY <3>3 DEF c
    <2>14. Agree(b', b')
      <3>1. b'.got \in Seq(Frame) /\ Len(b'.got) \in Nat
        BY <1>1, BodyFields DEF BodiesOK, b
      <3>2. \A i \in 1..Len(b'.got) : b'.got[i].id = b'.after + i
        BY <2>8 DEF Ordered
      <3>3. b'.after \in Nat
        BY <1>8, <2>2
      <3>4. ASSUME NEW i \in 1..Len(b'.got), NEW j \in 1..Len(b'.got), b'.got[i].id = b'.got[j].id
            PROVE  i = j
        BY <3>1, <3>2, <3>3, <3>4
      <3> QED BY <3>4 DEF Agree
    <2>15. ASSUME NEW g \in Followers, NEW h \in Followers,
                  follower'[g].stream = follower'[h].stream
           PROVE  Agree(follower'[g], follower'[h])
      <3>1. follower'[f] = b'
        BY DEF b
      <3>2. CASE g = f /\ h = f
        BY <2>14, <3>1, <3>2
      <3>3. CASE g = f /\ h # f
        BY <1>2, <2>2, <2>13, <2>15, <3>1, <3>3
      <3>4. CASE g # f /\ h = f
        BY <1>2, <2>2, <2>13, <2>15, <3>1, <3>4
      <3>5. CASE g # f /\ h # f
        BY <1>2, <2>15, <3>5 DEF ReadInv
      <3> QED BY <3>2, <3>3, <3>4, <3>5
    <2> QED BY <1>4, <2>12, <2>15 DEF ReadInv, Agree
  <1> QED BY <1>5, <1>7, <1>9, <1>10

\* The steps of bodies keep what was read.
LEMMA FollowerRead ==
    ASSUME Base, Base', LifeInv, ReadInv, Starting, NEW f \in Followers, FollowerStep(f)
    PROVE  ReadInv'
  <1>1. StoreOK /\ BodiesOK /\ follower[f] \in Body /\ Reading(follower[f])
    BY DEF Base, BodiesOK, ReadInv
  <1>2. CASE CheckAttach(f) \/ Wake(f)
    <2>1. /\ UNCHANGED <<live, sessions>>
          /\ \/ follower' = [follower EXCEPT ![f].pc = "checked"] /\ follower[f].pc = "idle"
             \/ /\ follower' = [follower EXCEPT ![f].pc = "ready", ![f].dirty = FALSE]
                /\ follower[f].pc = "waiting"
      BY <1>2 DEF CheckAttach, Wake, store
    <2>2. Resting(follower[f], follower'[f]) /\ follower'[f].pc # "waiting"
          /\ \A g \in Followers \ {f} : follower'[g] = follower[g]
      BY <1>1, <2>1 DEF BodiesOK, Body, Resting, Outside
    <2>3. \A t \in Streams : SameRead(sessions[t], sessions'[t])
      BY <2>1 DEF SameRead
    <2>4. \A g \in Followers \ {f} : Resting(follower[g], follower'[g]) /\ Steady(follower[g].stream)
      BY <2>1, <2>2, RestsItself DEF Steady, Accepts
    <2> QED BY <2>1, <2>2, <2>3, <2>4, StayRead DEF Starting
  <1>3. CASE DropBody(f)
    <2> DEFINE s == follower[f].stream
    <2>1. /\ follower' = [follower EXCEPT ![f].pc = "closed",
                             ![f].result = IF @ = "open" THEN "left" ELSE @]
          /\ sessions' = IF s \in live THEN [sessions EXCEPT ![s].followers = Less(@, 1)]
                         ELSE sessions
          /\ live' = live
          /\ follower[f].pc \in {"ending", "ready", "waiting"}
      BY <1>3 DEF DropBody
    <2>2. Resting(follower[f], follower'[f]) /\ follower'[f].pc # "waiting"
          /\ \A g \in Followers \ {f} : follower'[g] = follower[g]
      BY <1>1, <2>1 DEF BodiesOK, Body, Resting, Outside
    <2>3. ASSUME NEW t \in Streams
          PROVE  SameRead(sessions[t], sessions'[t]) /\ SameWait(sessions[t], sessions'[t])
      <3>1. sessions[t] \in Session
        BY <1>1 DEF StoreOK
      <3>2. \/ sessions'[t] = sessions[t]
            \/ \E n : sessions'[t] = [sessions[t] EXCEPT !.followers = n]
        BY <1>1, <2>1 DEF StoreOK
      <3> QED BY <3>1, <3>2 DEF SameRead, SameWait, Session
    <2>4. ASSUME NEW g \in Followers, g # f
          PROVE  Resting(follower[g], follower'[g]) /\ Steady(follower[g].stream)
      <3>1. follower'[g] = follower[g]
        BY <2>2, <2>4
      <3>2. Accepts(follower[g].stream) => follower[g].stream \in Streams
        BY <1>1 DEF Accepts, StoreOK
      <3> QED BY <2>1, <2>3, <3>1, <3>2, RestsItself DEF Steady, Accepts, SameWait
    <2> QED BY <2>1, <2>2, <2>3, <2>4, StayRead DEF Starting
  <1>4. ASSUME NEW s \in Streams, NEW after \in 0..(MaxFrames + 2), NEW follow \in BOOLEAN,
               Attach(f, s, after, follow)
        PROVE  ReadInv'
    <2>0. follower[f].pc = "checked"
      BY <1>4 DEF Attach
    <2>1. CASE Attachable(s, after)
      <3> DEFINE ss == [sessions EXCEPT ![s].followers = @ + 1]
                 new == [NoBody EXCEPT !.pc = "ready", !.stream = s, !.after = after,
                                       !.cursor = after, !.follow = follow]
                 bodies == [follower EXCEPT ![f] = new]
      <3>1. PurgeLocked(ss, bodies, {})
        BY <1>4, <2>1 DEF Attach
      <3>2. s \in live /\ s \notin Purged(sessions) /\ after < sessions[s].next_id
        BY <2>1 DEF Attachable
      <3>3. /\ new \in Body /\ new.pc = "ready" /\ new.got = <<>> /\ new.cursor = after
            /\ new.after = after /\ new.stream = s
        <4>1. after \in Nat
          BY DomainAssumption
        <4>2. new \in Body
          BY <4>1, NewBody
        <4> QED BY <4>2 DEF NoBody
      <3> HIDE DEF new
      <3>4. bodies \in [Followers -> Body] /\ bodies[f] = new
            /\ \A g \in Followers \ {f} : bodies[g] = follower[g]
        BY <1>1, <3>3 DEF BodiesOK
      <3>5. ASSUME NEW t \in Streams
            PROVE  /\ SameRead(sessions[t], ss[t]) /\ SameWait(sessions[t], ss[t])
                   /\ ss[t].terminal_at = sessions[t].terminal_at
                   /\ ss[t].owner_active = sessions[t].owner_active
        <4>1. sessions[t] \in Session
          BY <1>1 DEF StoreOK
        <4>2. ss[t] = sessions[t] \/ \E n : ss[t] = [sessions[t] EXCEPT !.followers = n]
          BY <1>1 DEF StoreOK
        <4> HIDE DEF ss
        <4> QED BY <4>1, <4>2 DEF SameRead, SameWait, Session
      <3> HIDE DEF ss, bodies
      <3>6. Purged(ss) = Purged(sessions)
        <4>1. live \subseteq Streams
          BY <1>1 DEF StoreOK
        <4>2. Expired(ss) = Expired(sessions)
          BY <3>5, <4>1 DEF Expired, SameWait
        <4>3. \A S \in SUBSET live : Retained(ss, S) = Retained(sessions, S)
          BY <3>5, <4>1 DEF Retained
        <4>4. \A S \in SUBSET live : Surplus(ss, S) = Surplus(sessions, S)
          <5> SUFFICES ASSUME NEW S \in SUBSET live PROVE Surplus(ss, S) = Surplus(sessions, S)
            OBVIOUS
          <5> DEFINE R == Retained(sessions, S)
          <5>1. Retained(ss, S) = R /\ R \subseteq Streams
            BY <4>1, <4>3 DEF Retained
          <5>2. \A t \in R : ss[t].terminal_at = sessions[t].terminal_at
            BY <3>5, <5>1
          <5> HIDE DEF R
          <5>3. \A t \in R : {u \in R : ss[u].terminal_at >= ss[t].terminal_at}
                               = {u \in R : sessions[u].terminal_at >= sessions[t].terminal_at}
            BY <5>2
          <5>4. Surplus(ss, S) = {t \in R : Cardinality(
                    {u \in R : ss[u].terminal_at >= ss[t].terminal_at}) > MaxRetained}
            BY <5>1 DEF Surplus
          <5>5. Surplus(sessions, S) = {t \in R : Cardinality(
                    {u \in R : sessions[u].terminal_at >= sessions[t].terminal_at}) > MaxRetained}
            BY DEF Surplus, R
          <5> QED BY <5>3, <5>4, <5>5
        <4> QED BY <4>2, <4>4 DEF Purged, Expired
      <3>7. Joins(follower'[f])
        <4>1. follower' = Notified(bodies, Purged(ss))
          BY <3>1 DEF PurgeLocked
        <4>2. Resting(new, follower'[f]) /\ follower'[f].pc = "ready"
          BY <3>3, <3>4, <4>1, NotifiedRests
        <4>3. s \in live' /\ sessions'[s] = ss[s]
          BY <3>1, <3>2, <3>6, PurgeStore
        <4>4. owner'[s] \notin Unstarted
          <5>1. owner' = owner
            BY <1>4 DEF Attach, task
          <5>2. owner[s] \notin Unstarted
            BY <3>2 DEF LifeInv, Life, Untouched
          <5> QED BY <5>1, <5>2
        <4>5. after < sessions'[s].next_id
          BY <3>2, <3>5, <4>3 DEF SameRead
        <4> QED BY <3>3, <4>2, <4>3, <4>4, <4>5 DEF Joins, Resting
      <3>8. ASSUME NEW g \in Followers, g # f
            PROVE  /\ Resting(follower[g], bodies[g])
                   /\ bodies[g].pc = "waiting" => SameWait(sessions[bodies[g].stream], ss[bodies[g].stream])
        <4>1. bodies[g] = follower[g]
          BY <3>4, <3>8
        <4>2. follower[g].pc = "waiting" => follower[g].stream \in Streams
          BY DEF ReadInv, Reading, Placed, Outside
        <4> QED BY <3>5, <4>1, <4>2, RestsItself
      <3> QED BY <3>1, <3>4, <3>5, <3>7, <3>8, PurgeRead DEF Starting
    <2>2. CASE ~Attachable(s, after)
      <3> DEFINE bodies == [follower EXCEPT ![f].pc = "idle"]
      <3>1. PurgeLocked(sessions, bodies, {})
        BY <1>4, <2>2 DEF Attach
      <3>2. bodies \in [Followers -> Body] /\ Resting(follower[f], bodies[f])
            /\ \A g \in Followers \ {f} : bodies[g] = follower[g]
        BY <1>1, <2>0 DEF BodiesOK, Body, Resting, Outside
      <3> HIDE DEF bodies
      <3>3. \A g \in Followers : Resting(follower[g], bodies[g])
                 /\ SameWait(sessions[bodies[g].stream], sessions[bodies[g].stream])
        BY <3>2, RestsItself DEF SameWait
      <3>4. \A t \in Streams : SameRead(sessions[t], sessions[t])
        BY DEF SameRead
      <3> QED BY <3>1, <3>2, <3>3, <3>4, PurgeRead DEF Starting
    <2> QED BY <2>1, <2>2
  <1> QED BY <1>2, <1>3, <1>4, NextRead DEF FollowerStep

\* Reads, clocks and the shutdown keep what was read.
LEMMA WorldRead ==
    ASSUME Base, Base', ReadInv, Starting, Observe \/ ClearControls \/ Elapse \/ Trigger
    PROVE  ReadInv'
  <1>1. CASE Observe
    <2>1. PurgeLocked(sessions, follower, {})
      BY <1>1 DEF Observe
    <2>2. /\ \A t \in Streams : SameRead(sessions[t], sessions[t])
          /\ \A f \in Followers : SameWait(sessions[follower[f].stream], sessions[follower[f].stream])
      BY DEF SameRead, SameWait
    <2> QED BY <2>1, <2>2, RestsItself, PurgeRead DEF Starting, Base, BodiesOK
  <1>2. CASE UNCHANGED <<live, sessions, follower>>
    BY <1>2, QuietRead DEF Starting
  <1> QED BY <1>1, <1>2 DEF Observe, ClearControls, Elapse, Trigger, store

\* Every step keeps what was read.
LEMMA ReadNext ==
    ASSUME Base, Base', LifeInv, ReadInv, [Next]_vars
    PROVE  ReadInv'
  <1>0. Starting
    BY StartedStays DEF Starting, Base
  <1>1. ASSUME NEW s \in Streams, OwnerStep(s) PROVE ReadInv'
    BY <1>0, <1>1, FailRead, OwnerRead, FinishRead DEF OwnerStep
  <1>2. ASSUME NEW s \in Streams, SourceStep(s) PROVE ReadInv'
    BY <1>0, <1>2, SourceRead, AppendRead DEF SourceStep
  <1>3. CASE UNCHANGED vars
    BY <1>0, <1>3, QuietRead DEF vars, store, Starting
  <1> QED BY <1>0, <1>1, <1>2, <1>3, ClientRead, FollowerRead, WorldRead DEF Next

\* What the bodies have read says of replay and of wake-ups.
LEMMA ReadProperties ==
    ASSUME Base, ReadInv
    PROVE  Replay /\ NoLostWakeup
  <1>1. Replay
    <2> SUFFICES ASSUME NEW f \in Followers PROVE
           LET body == follower[f] IN
           /\ body.cursor = body.after + Len(body.got)
           /\ \A i \in DOMAIN body.got : body.got[i].id = body.after + i
           /\ body.stream \in live => body.cursor < sessions[body.stream].next_id
           /\ \A g \in Followers : follower[g].stream = body.stream =>
                 \A i \in DOMAIN body.got, j \in DOMAIN follower[g].got :
                    body.got[i].id = follower[g].got[j].id =>
                       body.got[i] = follower[g].got[j]
      BY DEF Replay
    <2>1. \A g \in Followers : follower[g].got \in Seq(Frame)
      BY DEF Base, BodiesOK, Body
    <2>2. \A g \in Followers : DOMAIN follower[g].got = 1..Len(follower[g].got)
      BY <2>1
    <2>3. Reading(follower[f])
      BY DEF ReadInv
    <2>4. \A g \in Followers : follower[g].stream = follower[f].stream
             => Agree(follower[f], follower[g])
      BY DEF ReadInv
    <2>5. /\ follower[f].cursor = follower[f].after + Len(follower[f].got)
          /\ \A i \in DOMAIN follower[f].got : follower[f].got[i].id = follower[f].after + i
      BY <2>2, <2>3 DEF Reading, Ordered
    <2>6. follower[f].stream \in live
             => follower[f].cursor < sessions[follower[f].stream].next_id
      BY <2>3 DEF Reading, Within
    <2>7. ASSUME NEW g \in Followers, follower[g].stream = follower[f].stream,
                 NEW i \in DOMAIN follower[f].got, NEW j \in DOMAIN follower[g].got,
                 follower[f].got[i].id = follower[g].got[j].id
          PROVE  follower[f].got[i] = follower[g].got[j]
      <3>1. Agree(follower[f], follower[g])
        BY <2>4, <2>7
      <3>2. i \in 1..Len(follower[f].got) /\ j \in 1..Len(follower[g].got)
        BY <2>2, <2>7
      <3> QED BY <2>7, <3>1, <3>2 DEF Agree
    <2> QED BY <2>5, <2>6, <2>7
  <1>2. NoLostWakeup
    BY DEF NoLostWakeup, ReadInv, Reading, Served
  <1> QED BY <1>1, <1>2

-----------------------------------------------------------------------------
(* The accounts of the store.                                              *)

Owned(ss, S) == {s \in S : ss[s].owner_active}

\* A session keeps its limits.
Bounded(x) ==
    /\ x.bytes <= MaxBytes /\ Len(x.frames) <= MaxEvents /\ x.followers <= MaxFollowers

AccountInv ==
    /\ total_bytes = SumBytes(sessions, live) /\ total_bytes <= MaxTotal
    /\ \A s \in live : Bounded(sessions[s])
    /\ Cardinality(Owned(sessions, live)) <= MaxActive
    /\ Cardinality(Retained(sessions, live)) <= MaxRetained

\* The accounts give the property the runs check.
LEMMA AccountProperty ==
    ASSUME Base, AccountInv
    PROVE  Accounting
  BY DEF Base, StoreOK, Sized, AccountInv, Bounded, Owned, Accounting

\* The accounts are right at the start.
LEMMA AccountInit == Init => AccountInv
  <1> SUFFICES ASSUME Init PROVE AccountInv
    OBVIOUS
  <1>1. live = {} /\ total_bytes = 0
    BY DEF Init
  <1>2. SumBytes(sessions, {}) = 0
    BY BytesEmpty
  <1>3. Owned(sessions, {}) = {} /\ Retained(sessions, {}) = {}
    BY DEF Owned, Retained
  <1>4. Cardinality({}) = 0
    BY FS_EmptySet
  <1> QED BY <1>1, <1>2, <1>3, <1>4, PolicyAssumption DEF AccountInv

\* Fewer streams of a kind are no more.
LEMMA FewerStreams ==
    ASSUME NEW S \in SUBSET Streams, NEW T \in SUBSET S
    PROVE  /\ Cardinality(T) <= Cardinality(S)
           /\ Cardinality(T) \in Nat /\ Cardinality(S) \in Nat
           /\ IsFiniteSet(T) /\ IsFiniteSet(S)
  <1>1. IsFiniteSet(S)
    BY DomainAssumption, FS_Subset
  <1>2. IsFiniteSet(T) /\ Cardinality(T) <= Cardinality(S)
    BY <1>1, FS_Subset
  <1> QED BY <1>1, <1>2, FS_CardinalityType

\* purge_locked leaves at most max_retained retained sessions: those that stay
\* are among the ones at least as recent as the oldest of them.
LEMMA SurplusLeaves ==
    ASSUME NEW ss \in [Streams -> Session], NEW S \in SUBSET Streams
    PROVE  Cardinality(Retained(ss, S) \ Surplus(ss, S)) <= MaxRetained
  <1> DEFINE R == Retained(ss, S)
             K == R \ Surplus(ss, S)
             Since(s) == {t \in R : ss[t].terminal_at >= ss[s].terminal_at}
  <1>1. R \in SUBSET Streams /\ \A t \in R : ss[t].terminal_at \in Nat
    BY DEF Retained, Session
  <1>2. \A s \in K : ~(Cardinality(Since(s)) > MaxRetained) /\ s \in R
    BY DEF Surplus
  <1>3. K \subseteq R
    OBVIOUS
  <1> HIDE DEF R, K
  <1>4. CASE K = {}
    BY <1>4, FS_EmptySet, PolicyAssumption DEF K, R
  <1>5. CASE K # {}
    <2> DEFINE stamps == {ss[t].terminal_at : t \in K}
    <2>1. stamps \in SUBSET Nat /\ stamps # {}
      BY <1>1, <1>3, <1>5
    <2>2. PICK n \in stamps : \A m \in stamps : n <= m
      BY <2>1, LeastNatural
    <2>3. PICK s \in K : n = ss[s].terminal_at
      BY <2>2
    <2>4. \A t \in K : ss[t].terminal_at >= ss[s].terminal_at
      BY <2>1, <2>2, <2>3
    <2>5. K \in SUBSET Since(s) /\ Since(s) \in SUBSET Streams
      BY <1>1, <1>3, <2>4
    <2> HIDE DEF Since
    <2>6. /\ Cardinality(K) <= Cardinality(Since(s))
          /\ Cardinality(K) \in Nat /\ Cardinality(Since(s)) \in Nat
      BY <2>5, FewerStreams
    <2>7. ~(Cardinality(Since(s)) > MaxRetained) /\ MaxRetained \in Nat
      BY <1>2, <2>3, PolicyAssumption
    <2>8. Cardinality(K) <= MaxRetained
      BY <2>6, <2>7
    <2> QED BY <2>8 DEF K, R
  <1> QED BY <1>4, <1>5

\* Sessions without bytes have no total.
LEMMA BytesZero ==
    ASSUME NEW S \in SUBSET Streams, NEW ss, \A s \in S : ss[s].bytes = 0
    PROVE  SumBytes(ss, S) = 0
  <1> DEFINE w == [s \in S |-> ss[s].bytes]
  <1>1. SumBytes(ss, S) = SumFunctionOnSet(w, S) /\ IsFiniteSet(S)
    BY BytesAre
  <1>2. \A s \in S : w[s] \in Nat /\ w[s] = w[s] + w[s]
    OBVIOUS
  <1> HIDE DEF w
  <1>3. SumFunctionOnSet(w, S) = SumFunctionOnSet(w, S) + SumFunctionOnSet(w, S)
    BY <1>1, <1>2, SumPlus
  <1>4. SumFunctionOnSet(w, S) \in Nat
    BY <1>1, <1>2, SumType
  <1> DEFINE z == SumFunctionOnSet(w, S)
  <1>5. z \in Nat /\ z = z + z
    BY <1>3, <1>4
  <1> HIDE DEF z
  <1>6. z = 0
    BY <1>5
  <1> QED BY <1>1, <1>6 DEF z

\* What purge_locked does to the counters.
LEMMA PurgeTotal ==
    ASSUME StoreOK, total_bytes = SumBytes(sessions, live), total_bytes <= MaxTotal,
           NEW ss \in [Streams -> Session],
           \A t \in Streams : ss[t].bytes = sessions[t].bytes,
           NEW bodies, NEW more \in SUBSET Streams, PurgeLocked(ss, bodies, more),
           \A t \in more : t \notin live /\ ss[t] = NewSession
    PROVE  total_bytes' = SumBytes(sessions', live') /\ total_bytes' <= MaxTotal
  <1> DEFINE gone == Purged(ss)
             rest == live \ gone
  <1>1. /\ gone \subseteq live /\ live \subseteq Streams
        /\ live' = rest \cup more /\ total_bytes' = Less(total_bytes, SumBytes(ss, gone))
        /\ rest \subseteq live /\ rest = live \ gone
    BY PurgedAre DEF StoreOK, PurgeLocked, TotalWithout
  <1>2. \A t \in Streams : sessions'[t] = IF t \in gone THEN NewSession ELSE ss[t]
    BY PurgeStore
  <1>3. \A t \in Streams : ss[t].bytes \in Nat /\ sessions[t].bytes \in Nat
    BY DEF Session, StoreOK
  <1> HIDE DEF gone, rest
  <1>4. SumBytes(ss, live) = SumBytes(sessions, live)
    BY <1>1, <1>3, BytesSame
  <1>5. SumBytes(ss, live) = SumBytes(ss, gone) + SumBytes(ss, rest)
    BY <1>1, <1>3, BytesSplit
  <1>6. SumBytes(ss, gone) \in Nat /\ SumBytes(ss, rest) \in Nat /\ SumBytes(ss, live) \in Nat
    BY <1>1, <1>3, BytesType
  <1>7. total_bytes' = SumBytes(ss, rest) /\ total_bytes' <= MaxTotal
    BY <1>1, <1>4, <1>5, <1>6, PolicyAssumption DEF Less
  <1>8. \A t \in live' : sessions'[t].bytes \in Nat
    <2>1. NewSession.bytes = 0
      BY DEF NewSession
    <2> QED BY <1>1, <1>2, <1>3, <2>1
  <1>9. SumBytes(sessions', rest) = SumBytes(ss, rest)
    <2>1. \A t \in rest : sessions'[t].bytes = ss[t].bytes
      BY <1>1, <1>2
    <2>2. \A t \in rest : ss[t].bytes \in Nat
      BY <1>1, <1>3
    <2>3. rest \in SUBSET Streams
      BY <1>1
    <2> QED BY <2>1, <2>2, <2>3, BytesSame
  <1>10. SumBytes(sessions', live') = SumBytes(sessions', rest) + SumBytes(sessions', live' \ rest)
    <2>1. live' \in SUBSET Streams /\ rest \in SUBSET live'
      BY <1>1
    <2> QED BY <1>8, <2>1, BytesSplit
  <1>11. SumBytes(sessions', live' \ rest) = 0
    <2> DEFINE M == live' \ rest
    <2>1. M \in SUBSET Streams /\ \A t \in M : t \in more /\ t \notin gone /\ sessions'[t] = NewSession
      BY <1>1, <1>2
    <2>2. NewSession.bytes = 0
      BY DEF NewSession
    <2>3. \A t \in M : sessions'[t].bytes = 0
      BY <2>1, <2>2
    <2> HIDE DEF M
    <2>4. SumBytes(sessions', M) = 0
      BY <2>1, <2>3, BytesZero
    <2> QED BY <2>4 DEF M
  <1> QED BY <1>6, <1>7, <1>9, <1>10, <1>11

\* A purge keeps the accounts.
LEMMA PurgeAccount ==
    ASSUME StoreOK, AccountInv,
           NEW ss \in [Streams -> Session],
           \A t \in Streams : ss[t].bytes = sessions[t].bytes,
           NEW bodies, NEW more \in SUBSET Streams, PurgeLocked(ss, bodies, more),
           \A t \in more : t \notin live /\ ss[t] = NewSession,
           \A t \in live : Bounded(ss[t]),
           Cardinality(Owned(sessions', live')) <= MaxActive
    PROVE  AccountInv'
  <1> DEFINE gone == Purged(ss)
             left == live \ Expired(ss)
  <1>1. total_bytes' = SumBytes(sessions', live') /\ total_bytes' <= MaxTotal
    BY PurgeTotal DEF AccountInv
  <1>2. /\ gone \subseteq live /\ live \subseteq Streams
        /\ live' = (live \ gone) \cup more
    BY PurgedAre DEF StoreOK, PurgeLocked
  <1>3. \A t \in Streams : sessions'[t] = IF t \in gone THEN NewSession ELSE ss[t]
    BY PurgeStore
  <1>4. gone = Expired(ss) \cup Surplus(ss, left)
    BY DEF Purged
  <1> HIDE DEF gone, left
  <1>5. Bounded(NewSession)
    BY PolicyAssumption DEF Bounded, NewSession
  <1>6. \A t \in live' : Bounded(sessions'[t])
    BY <1>2, <1>3, <1>5
  <1>7. Retained(sessions', live') \subseteq Retained(ss, left) \ Surplus(ss, left)
    <2> SUFFICES ASSUME NEW t \in live', ~sessions'[t].owner_active
                 PROVE  t \in Retained(ss, left) \ Surplus(ss, left)
      BY DEF Retained
    <2>1. NewSession.owner_active
      BY DEF NewSession
    <2>2. t \in live \ gone /\ sessions'[t] = ss[t]
      BY <1>2, <1>3, <2>1
    <2> QED BY <1>4, <2>2 DEF Retained, left
  <1>8. left \in SUBSET Streams
    BY <1>2 DEF left
  <1>9. Cardinality(Retained(sessions', live')) <= MaxRetained
    <2> DEFINE A == Retained(ss, left) \ Surplus(ss, left)
               B == Retained(sessions', live')
    <2>1. Cardinality(A) <= MaxRetained
      BY <1>8, SurplusLeaves
    <2>2. A \in SUBSET Streams /\ B \in SUBSET A
      BY <1>7, <1>8 DEF Retained
    <2> HIDE DEF A, B
    <2>3. Cardinality(B) <= Cardinality(A) /\ Cardinality(B) \in Nat /\ Cardinality(A) \in Nat
      BY <2>2, FewerStreams
    <2>4. Cardinality(B) <= MaxRetained
      BY <2>1, <2>3, PolicyAssumption
    <2> QED BY <2>4 DEF B
  <1> QED BY <1>1, <1>6, <1>9 DEF AccountInv, Owned, Retained

\* A purge that starts no stream frees active slots or leaves them.
LEMMA PurgeOwned ==
    ASSUME StoreOK, AccountInv, NEW ss, NEW bodies, PurgeLocked(ss, bodies, {}),
           \A t \in live : ss[t].owner_active => sessions[t].owner_active
    PROVE  Cardinality(Owned(sessions', live')) <= MaxActive
  <1>1. live \subseteq Streams
    BY DEF StoreOK
  <1>2. Owned(sessions', live') \subseteq Owned(sessions, live)
    BY <1>1, PurgeStore DEF Owned, PurgeLocked
  <1> DEFINE A == Owned(sessions, live)
             B == Owned(sessions', live')
  <1>3. A \in SUBSET Streams /\ B \in SUBSET A /\ Cardinality(A) <= MaxActive
    BY <1>1, <1>2 DEF Owned, AccountInv
  <1> HIDE DEF A, B
  <1>4. Cardinality(B) <= Cardinality(A) /\ Cardinality(B) \in Nat /\ Cardinality(A) \in Nat
    BY <1>3, FewerStreams
  <1>5. Cardinality(B) <= MaxActive
    BY <1>3, <1>4, PolicyAssumption
  <1> QED BY <1>5 DEF B

\* The purge of a call that starts nothing.
LEMMA QuietPurge ==
    ASSUME StoreOK, AccountInv,
           NEW ss \in [Streams -> Session],
           \A t \in Streams : ss[t].bytes = sessions[t].bytes,
           NEW bodies, PurgeLocked(ss, bodies, {}),
           \A t \in live : Bounded(ss[t]),
           \A t \in live : ss[t].owner_active => sessions[t].owner_active
    PROVE  AccountInv'
  <1>1. Cardinality(Owned(sessions', live')) <= MaxActive
    BY PurgeOwned
  <1> QED BY <1>1, PurgeAccount

\* A step that starts and ends no stream: its owners stay, or their sessions go.
LEMMA SlotsKept ==
    ASSUME StoreOK, AccountInv, live' \subseteq live,
           \A t \in live' : sessions'[t].owner_active = sessions[t].owner_active
    PROVE  /\ Cardinality(Owned(sessions', live')) <= MaxActive
           /\ Cardinality(Retained(sessions', live')) <= MaxRetained
  <1> DEFINE A == Owned(sessions, live)
             B == Owned(sessions', live')
             C == Retained(sessions, live)
             D == Retained(sessions', live')
  <1>1. /\ A \in SUBSET Streams /\ B \in SUBSET A /\ Cardinality(A) <= MaxActive
        /\ C \in SUBSET Streams /\ D \in SUBSET C /\ Cardinality(C) <= MaxRetained
    BY DEF Owned, Retained, AccountInv, StoreOK
  <1> HIDE DEF A, B, C, D
  <1>2. Cardinality(B) <= Cardinality(A) /\ Cardinality(B) \in Nat /\ Cardinality(A) \in Nat
    BY <1>1, FewerStreams
  <1>3. Cardinality(D) <= Cardinality(C) /\ Cardinality(D) \in Nat /\ Cardinality(C) \in Nat
    BY <1>1, FewerStreams
  <1>4. Cardinality(B) <= MaxActive /\ Cardinality(D) <= MaxRetained
    BY <1>1, <1>2, <1>3, PolicyAssumption
  <1> QED BY <1>4 DEF B, D

\* A step that leaves the frames.
LEMMA StayAccount ==
    ASSUME StoreOK, AccountInv, UNCHANGED <<live, total_bytes>>,
           \A t \in live : /\ sessions'[t].bytes = sessions[t].bytes
                           /\ sessions'[t].owner_active = sessions[t].owner_active
                           /\ Bounded(sessions'[t])
    PROVE  AccountInv'
  <1>1. SumBytes(sessions', live) = SumBytes(sessions, live)
    <2>1. \A t \in live : sessions[t].bytes \in Nat
      BY DEF StoreOK, Session
    <2>2. live \in SUBSET Streams
      BY DEF StoreOK
    <2> QED BY <2>1, <2>2, BytesSame
  <1>2. /\ Cardinality(Owned(sessions', live')) <= MaxActive
        /\ Cardinality(Retained(sessions', live')) <= MaxRetained
    BY SlotsKept
  <1>3. total_bytes' = SumBytes(sessions', live') /\ total_bytes' <= MaxTotal
    BY <1>1 DEF AccountInv
  <1>4. \A t \in live' : Bounded(sessions'[t])
    OBVIOUS
  <1> QED BY <1>2, <1>3, <1>4 DEF AccountInv, Owned, Retained

\* The session append leaves is within its limits, and the one that takes the
\* frame back is no larger than before.
LEMMA PushedBounds ==
    ASSUME NEW x, Sized(x), NEW size \in Nat \ {0}, size <= MaxBytes
    PROVE  LET new == Pushed(x, size)
               back == TakenBack(x, size)
           IN  /\ new.bytes \in Nat /\ new.bytes <= MaxBytes /\ Len(new.frames) <= MaxEvents
               /\ back.bytes \in Nat /\ back.bytes + size = new.bytes
               /\ back.bytes <= x.bytes
               /\ Len(back.frames) <= Len(x.frames)
  <1>1. x \in Session /\ x.next_id \in Nat /\ x.frames \in Seq(Frame) /\ Len(x.frames) \in Nat
    BY SessionFields DEF Sized
  <1>2. PICK k \in 0..Len(x.frames) :
           LET fs == Append(Drop(x.frames, k), DataFrame(x.next_id, size))
           IN  /\ fs \in Seq(Frame) /\ SumSizes(fs) \in Nat
               /\ SumSizes(fs) <= MaxBytes /\ Len(fs) <= MaxEvents
               /\ SumSizes(fs) = SumSizes(Drop(x.frames, k)) + size
               /\ Pushed(x, size) = [x EXCEPT !.frames = fs, !.bytes = SumSizes(fs),
                                              !.next_id = @ + 1]
               /\ SubSeq(fs, 1, Len(fs) - 1) = Drop(x.frames, k)
    BY PushedIs
  <1> DEFINE fs == Append(Drop(x.frames, k), DataFrame(x.next_id, size))
             old == Drop(x.frames, k)
             b == SumSizes(fs)
             a == SumSizes(old)
             n == x.next_id + 1
             p == Pushed(x, size)
             back == TakenBack(x, size)
  <1>3. /\ fs \in Seq(Frame) /\ b \in Nat /\ b <= MaxBytes /\ Len(fs) <= MaxEvents
        /\ b = a + size /\ p = [x EXCEPT !.frames = fs, !.bytes = b, !.next_id = n]
        /\ SubSeq(fs, 1, Len(fs) - 1) = old
    BY <1>1, <1>2 DEF Session
  <1>4. a \in Nat /\ a <= x.bytes /\ Len(old) = Len(x.frames) - k
    <2>1. /\ a \in Nat /\ SumSizes(SubSeq(x.frames, 1, k)) \in Nat
          /\ x.bytes = SumSizes(SubSeq(x.frames, 1, k)) + a
      BY CutSized
    <2>2. Len(old) = Len(x.frames) - k
      BY <1>1, DropFacts
    <2> QED BY <2>1, <2>2
  <1> HIDE DEF fs, old, a, b, n
  <1>5. p.frames = fs /\ p.bytes = b /\ p.next_id = n
    BY <1>1, <1>3 DEF Session
  <1> DEFINE m == n - 1
             c == Less(b, size)
  <1>6. c = a
    BY <1>3, <1>4 DEF Less
  <1>7. back = [p EXCEPT !.frames = old, !.bytes = c, !.next_id = m]
    BY <1>1, <1>3, <1>5 DEF TakenBack, Session
  <1> HIDE DEF m, c
  <1>8. back.frames = old /\ back.bytes = c
    BY <1>1, <1>3, <1>7 DEF Session
  <1>9. Len(old) <= Len(x.frames) /\ a + size = b
    BY <1>1, <1>3, <1>4
  <1> QED BY <1>3, <1>4, <1>5, <1>6, <1>8, <1>9

\* append keeps the accounts, whether the frame stays or is taken back.
LEMMA AppendAccount ==
    ASSUME Base, LifeInv, AccountInv, NEW s \in Streams, NEW size \in Sizes, AppendFrame(s, size)
    PROVE  AccountInv'
  <1> DEFINE x == sessions[s]
             new == Pushed(x, size)
             back == TakenBack(x, size)
             grown == total_bytes + new.bytes - x.bytes
  <1>1. /\ StoreOK /\ s \in live /\ Sized(x) /\ x \in Session /\ Bounded(x)
        /\ live \subseteq Streams /\ x.owner_active
    BY DEF Base, AppendFrame, Accepts, StoreOK, AccountInv, LifeInv, Life, Truthful
  <1>2. PICK gone \in SUBSET live :
              LET total == TotalWithout(grown, sessions, gone)
              IN
              /\ gone = Evicted(grown)
              /\ \A t \in gone : ~sessions[t].owner_active
              /\ live' = live \ gone
              /\ \/ /\ \A t \in Streams : sessions'[t] =
                          IF t \in gone THEN NewSession
                          ELSE IF t = s THEN new ELSE sessions[t]
                    /\ total <= MaxTotal /\ total_bytes' = total
                    /\ follower' = Notified(follower, gone \cup {s})
                    /\ UNCHANGED <<owner, cause>>
                 \/ /\ \A t \in Streams : sessions'[t] =
                          IF t \in gone THEN NewSession
                          ELSE IF t = s THEN back ELSE sessions[t]
                    /\ total > MaxTotal /\ total_bytes' = Less(total, size)
                    /\ follower' = Notified(follower, gone)
                    /\ CancelWith(s, "ResourceExhausted")
                    /\ owner' = [owner EXCEPT ![s] = "failing"]
    BY <1>1, AppendIs, Zenon
  <1>3. size \in Nat \ {0} /\ size <= MaxBytes /\ size \in Nat
    BY DomainAssumption DEF AppendFrame
  <1>4. /\ new.bytes \in Nat /\ new.bytes <= MaxBytes /\ Len(new.frames) <= MaxEvents
        /\ back.bytes \in Nat /\ back.bytes + size = new.bytes /\ back.bytes <= x.bytes
        /\ Len(back.frames) <= Len(x.frames)
    BY <1>1, <1>3, PushedBounds
  <1>5. SameState(x, new) /\ SameState(x, back)
    BY <1>1, SamePushed
  <1> DEFINE rest == live \ gone
             G == SumBytes(sessions, gone)
             Q == SumBytes(sessions, rest \ {s})
             total == TotalWithout(grown, sessions, gone)
  <1>6. s \in rest /\ rest \in SUBSET Streams /\ gone \in SUBSET Streams
    BY <1>1, <1>2
  <1>7. \A t \in Streams : sessions[t].bytes \in Nat
    BY <1>1 DEF StoreOK, Session
  <1>8. G \in Nat /\ Q \in Nat /\ x.bytes \in Nat
    BY <1>6, <1>7, BytesType
  <1>9. total_bytes = G + (x.bytes + Q)
    <2>1. SumBytes(sessions, live) = G + SumBytes(sessions, rest)
      BY <1>1, <1>7, BytesSplit
    <2>2. SumBytes(sessions, rest) = x.bytes + Q
      BY <1>6, <1>7, BytesOne
    <2> QED BY <2>1, <2>2 DEF AccountInv
  <1>10. live' = rest /\ total_bytes <= MaxTotal
    BY <1>2 DEF AccountInv
  <1>11. total = Less(grown, G)
    BY DEF TotalWithout
  <1> HIDE DEF rest, G, Q, x, new, back
  <1>12. total = new.bytes + Q
    BY <1>4, <1>8, <1>9, <1>11 DEF Less
  <1> HIDE DEF total, grown
  <1>13. \/ sessions'[s] = new /\ total <= MaxTotal /\ total_bytes' = total
         \/ sessions'[s] = back /\ total > MaxTotal /\ total_bytes' = Less(total, size)
    BY <1>2, <1>6 DEF rest, total, new, back, x, grown
  <1>14. \A t \in rest \ {s} : sessions'[t] = sessions[t]
    BY <1>2, <1>6 DEF rest, new, back, x
  <1>15. SumBytes(sessions', rest) = sessions'[s].bytes + Q
    <2>1. \A t \in rest : sessions'[t].bytes \in Nat
      BY <1>4, <1>6, <1>7, <1>13, <1>14
    <2>2. SumBytes(sessions', rest) = sessions'[s].bytes + SumBytes(sessions', rest \ {s})
      BY <1>6, <2>1, BytesOne
    <2>3. SumBytes(sessions', rest \ {s}) = Q
      <3> DEFINE K == rest \ {s}
      <3>1. K \in SUBSET Streams /\ \A t \in K : sessions'[t].bytes = sessions[t].bytes /\ sessions[t].bytes \in Nat
        BY <1>6, <1>7, <1>14
      <3> HIDE DEF K
      <3>2. SumBytes(sessions', K) = SumBytes(sessions, K)
        BY <3>1, BytesSame
      <3> QED BY <3>2 DEF K, Q
    <2> QED BY <2>2, <2>3
  <1>16. total_bytes' = SumBytes(sessions', live') /\ total_bytes' <= MaxTotal
    <2>1. CASE sessions'[s] = new /\ total <= MaxTotal /\ total_bytes' = total
      BY <1>10, <1>12, <1>15, <2>1
    <2>2. CASE sessions'[s] = back /\ total > MaxTotal /\ total_bytes' = Less(total, size)
      <3>1. Less(total, size) = back.bytes + Q
        BY <1>3, <1>4, <1>8, <1>12 DEF Less
      <3>2. back.bytes + Q <= MaxTotal
        BY <1>4, <1>8, <1>9, <1>10, PolicyAssumption
      <3> QED BY <1>10, <1>15, <2>2, <3>1, <3>2
    <2> QED BY <1>13, <2>1, <2>2
  <1>17. Bounded(sessions'[s])
    <2>1. CASE sessions'[s] = new
      BY <1>1, <1>4, <1>5, <2>1 DEF Bounded, SameState
    <2>2. CASE sessions'[s] = back
      <3>1. back.bytes <= MaxBytes /\ Len(back.frames) <= MaxEvents
        <4>1. x.bytes <= MaxBytes /\ Len(x.frames) <= MaxEvents /\ Len(x.frames) \in Nat
          BY <1>1, SessionFields DEF Bounded
        <4>2. back.bytes <= MaxBytes
          BY <1>4, <1>8, <4>1, PolicyAssumption
        <4>3. Len(back.frames) \in Nat
          <5>1. Sized(back)
            BY <1>1, <1>3, PushedSized DEF TakenBack, back
          <5> QED BY <5>1, SessionFields DEF Sized
        <4>4. Len(back.frames) <= MaxEvents
          BY <1>4, <4>1, <4>3, PolicyAssumption
        <4> QED BY <4>2, <4>4
      <3> QED BY <1>1, <1>5, <2>2, <3>1 DEF Bounded, SameState
    <2> QED BY <1>13, <2>1, <2>2
  <1>18. \A t \in live' : Bounded(sessions'[t])
    BY <1>10, <1>14, <1>17 DEF AccountInv, rest
  <1>19. /\ Cardinality(Owned(sessions', live')) <= MaxActive
         /\ Cardinality(Retained(sessions', live')) <= MaxRetained
    <2>1. \A t \in live' : sessions'[t].owner_active = sessions[t].owner_active
      BY <1>5, <1>10, <1>13, <1>14 DEF SameState, x
    <2>2. live' \subseteq live
      BY <1>10 DEF rest
    <2> QED BY <1>1, <2>1, <2>2, SlotsKept
  <1> QED BY <1>16, <1>18, <1>19 DEF AccountInv, Owned, Retained

\* The fewer frames go, the more bytes stay.
LEMMA DropMore ==
    ASSUME NEW fs \in Seq(Frame), NEW k \in 0..Len(fs), NEW m \in k..Len(fs)
    PROVE  /\ SumSizes(Drop(fs, m)) <= SumSizes(Drop(fs, k))
           /\ SumSizes(Drop(fs, m)) \in Nat /\ SumSizes(Drop(fs, k)) \in Nat
  <1> DEFINE gs == Drop(fs, k)
             d == m - k
  <1>1. Len(fs) \in Nat /\ k \in Nat /\ m \in Nat /\ k <= m /\ m <= Len(fs) /\ m \in 0..Len(fs)
    OBVIOUS
  <1>2. gs \in Seq(Frame) /\ Len(gs) = Len(fs) - k
        /\ \A i \in 1..(Len(fs) - k) : gs[i] = fs[i + k]
    BY DropFacts
  <1>3. d \in 0..Len(gs) /\ d \in Nat /\ d + k = m
    BY <1>1, <1>2
  <1> HIDE DEF gs, d
  <1>4. /\ Drop(gs, d) \in Seq(Frame) /\ Len(Drop(gs, d)) = Len(gs) - d
        /\ \A i \in 1..(Len(gs) - d) : Drop(gs, d)[i] = gs[i + d]
    BY <1>2, <1>3, DropFacts
  <1>5. /\ Drop(fs, m) \in Seq(Frame) /\ Len(Drop(fs, m)) = Len(fs) - m
        /\ \A i \in 1..(Len(fs) - m) : Drop(fs, m)[i] = fs[i + m]
    BY <1>1, DropFacts
  <1>6. Drop(gs, d) = Drop(fs, m)
    <2>1. Len(gs) - d = Len(fs) - m
      <3>1. Len(gs) \in Nat /\ Len(gs) = Len(fs) - k
        BY <1>1, <1>2
      <3> QED BY <1>1, <1>3, <3>1
    <2>2. ASSUME NEW i \in 1..(Len(fs) - m) PROVE Drop(gs, d)[i] = Drop(fs, m)[i]
      <3>1. i + d \in 1..(Len(fs) - k) /\ (i + d) + k = i + m /\ i \in 1..(Len(gs) - d)
        BY <1>1, <1>3, <2>1
      <3>2. gs[i + d] = fs[(i + d) + k]
        BY <1>2, <3>1
      <3> QED BY <1>4, <1>5, <3>1, <3>2
    <2> QED BY <1>4, <1>5, <2>1, <2>2, SeqEqual
  <1>7. SumSizes(gs) = SumSizes(SubSeq(gs, 1, d)) + SumSizes(Drop(gs, d))
    BY <1>2, <1>3, SizesCut
  <1>8. SubSeq(gs, 1, d) \in Seq(Frame)
    BY <1>2, <1>3, DropFacts
  <1>9. SumSizes(gs) \in Nat /\ SumSizes(SubSeq(gs, 1, d)) \in Nat /\ SumSizes(Drop(gs, d)) \in Nat
    BY <1>2, <1>4, <1>8, SizesType
  <1>10. SumSizes(Drop(gs, d)) <= SumSizes(gs)
    BY <1>7, <1>9
  <1> QED BY <1>6, <1>9, <1>10 DEF gs

\* fail cuts its own session until the error frame fits.
LEMMA OwnFits ==
    ASSUME StoreOK, NEW s \in live, NEW pop \in [live -> 0..MaxEvents], MakesRoom(s, pop)
    PROVE  /\ Len(sessions[s].frames) - pop[s] < MaxEvents
           /\ SumSizes(Drop(sessions[s].frames, pop[s])) + ErrorSize <= MaxBytes
  <1> DEFINE x == sessions[s]
             fs == x.frames
             n == Len(fs)
             Fits(k) == /\ n - k < MaxEvents
                        /\ Less(x.bytes, SumSizes(SubSeq(fs, 1, k))) + ErrorSize <= MaxBytes
             own == CHOOSE k \in 0..n : Fits(k) /\ \A j \in 0..(k - 1) : ~Fits(j)
  <1>1. pop[s] \in own..n
    <2>1. pop[s] \in (IF s = s THEN own ELSE 0)..n
      BY Zenon DEF MakesRoom
    <2> QED BY <2>1
  <1>2. Sized(x) /\ fs \in Seq(Frame) /\ n \in Nat /\ pop[s] \in 0..n
    <2>1. Pops(pop)
      BY PopsAre
    <2> QED BY <2>1, SessionFields DEF StoreOK, Sized, Pops
  <1> HIDE DEF x, fs, n
  <1>3. ASSUME NEW k \in 0..n
        PROVE  /\ Less(x.bytes, SumSizes(SubSeq(fs, 1, k))) = SumSizes(Drop(fs, k))
               /\ SumSizes(Drop(fs, k)) \in Nat
    BY <1>2, CutSized DEF fs, n
  <1>4. Fits(n)
    <2>1. Drop(fs, n) = <<>> /\ n \in 0..n
      BY <1>2, DropEnds DEF n
    <2>2. Less(x.bytes, SumSizes(SubSeq(fs, 1, n))) = 0
      BY <1>3, <2>1, SizesEmpty
    <2> QED BY <1>2, <2>2, PolicyAssumption
  <1>5. own \in 0..n /\ Fits(own)
    <2> DEFINE T == {j \in 0..n : Fits(j)}
    <2>1. T \in SUBSET Nat /\ T # {}
      BY <1>2, <1>4
    <2>2. PICK j \in T : \A i \in T : j <= i
      BY <2>1, LeastNatural
    <2>3. j \in 0..n /\ Fits(j) /\ \A i \in 0..(j - 1) : ~Fits(i)
      BY <1>2, <2>1, <2>2
    <2> HIDE DEF Fits
    <2> QED BY <2>3
  <1> HIDE DEF own
  <1>6. pop[s] \in Nat /\ own \in Nat /\ own <= pop[s] /\ pop[s] <= n /\ n - own < MaxEvents
    BY <1>1, <1>2, <1>5
  <1>7. /\ SumSizes(Drop(fs, pop[s])) <= SumSizes(Drop(fs, own))
        /\ SumSizes(Drop(fs, pop[s])) \in Nat /\ SumSizes(Drop(fs, own)) \in Nat
    BY <1>1, <1>2, <1>5, DropMore DEF n
  <1>8. SumSizes(Drop(fs, own)) + ErrorSize <= MaxBytes
    BY <1>3, <1>5
  <1>9. n - pop[s] < MaxEvents /\ SumSizes(Drop(fs, pop[s])) + ErrorSize <= MaxBytes
    BY <1>2, <1>6, <1>7, <1>8, PolicyAssumption
  <1> QED BY <1>9 DEF n, fs, x

\* What the frames popped weigh is what their sessions lose.
LEMMA CutsTotal ==
    ASSUME StoreOK, NEW pop, Pops(pop)
    PROVE  LET cuts == SumFunction([t \in live |-> SumSizes(SubSeq(sessions[t].frames, 1, pop[t]))])
           IN  /\ cuts \in Nat
               /\ SumBytes(sessions, live) = cuts + SumBytes(Shortened(pop), live)
               /\ SumBytes(sessions, live) \in Nat /\ SumBytes(Shortened(pop), live) \in Nat
  <1> DEFINE y == Shortened(pop)
             c == [t \in live |-> SumSizes(SubSeq(sessions[t].frames, 1, pop[t]))]
             u == [t \in live |-> y[t].bytes]
             w == [t \in live |-> sessions[t].bytes]
  <1>1. live \in SUBSET Streams /\ IsFiniteSet(live)
    BY DomainAssumption, FS_Subset DEF StoreOK
  <1>2. ASSUME NEW t \in live
        PROVE  /\ y[t].bytes \in Nat /\ sessions[t].bytes \in Nat
               /\ SumSizes(SubSeq(sessions[t].frames, 1, pop[t])) \in Nat
               /\ sessions[t].bytes = SumSizes(SubSeq(sessions[t].frames, 1, pop[t])) + y[t].bytes
    <2> DEFINE x == sessions[t]
               fs == Drop(x.frames, pop[t])
               e == SumSizes(fs)
    <2>1. t \in Streams /\ pop[t] \in 0..Len(x.frames) /\ Sized(x) /\ x \in Session
      BY <1>1 DEF Pops, StoreOK, Sized
    <2>2. y[t] = Cut(x, fs, e)
      BY <2>1, ShortenedAre
    <2>3. /\ fs \in Seq(Frame) /\ e \in Nat
          /\ SumSizes(SubSeq(x.frames, 1, pop[t])) \in Nat
          /\ x.bytes = SumSizes(SubSeq(x.frames, 1, pop[t])) + e
      BY <2>1, CutSized
    <2> HIDE DEF fs, e, y
    <2>4. y[t].bytes = e
      <3>1. Cut(x, fs, e).bytes = e
        BY <2>1, <2>3, CutFields
      <3> QED BY <2>2, <3>1
    <2>5. x.bytes \in Nat
      BY <2>1, SessionFields
    <2> QED BY <2>3, <2>4, <2>5
  <1> HIDE DEF y
  <1>3. \A t \in live : c[t] \in Nat /\ u[t] \in Nat /\ w[t] = c[t] + u[t]
    BY <1>2
  <1>4. SumFunction(c) = SumFunctionOnSet(c, live)
    BY DEF SumFunction
  <1>5. /\ SumBytes(sessions, live) = SumFunctionOnSet(w, live)
        /\ SumBytes(y, live) = SumFunctionOnSet(u, live)
    BY <1>1, <1>2, BytesAre
  <1>6. SumBytes(sessions, live) \in Nat /\ SumBytes(y, live) \in Nat
    BY <1>1, <1>2, BytesType
  <1> HIDE DEF c, u, w
  <1>7. SumFunctionOnSet(w, live) = SumFunctionOnSet(c, live) + SumFunctionOnSet(u, live)
    BY <1>1, <1>3, SumPlus
  <1>8. SumFunctionOnSet(c, live) \in Nat
    BY <1>1, <1>3, SumType
  <1> QED BY <1>4, <1>5, <1>6, <1>7, <1>8 DEF c, y

\* fail's loop leaves room for the error frame.
LEMMA RoomMade ==
    ASSUME StoreOK, NEW s \in live, NEW pop \in [live -> 0..MaxEvents], MakesRoom(s, pop),
           total_bytes = SumBytes(sessions, live)
    PROVE  /\ Less(total_bytes, SumBytes(sessions, live) - SumBytes(Shortened(pop), live))
                = SumBytes(Shortened(pop), live)
           /\ SumBytes(Shortened(pop), live) + ErrorSize <= MaxTotal
           /\ SumBytes(Shortened(pop), live) \in Nat
  <1> DEFINE a == SumBytes(sessions, live)
             b == SumBytes(Shortened(pop), live)
             c == SumFunction([t \in live |-> SumSizes(SubSeq(sessions[t].frames, 1, pop[t]))])
  <1>1. Pops(pop)
    BY PopsAre
  <1>2. c \in Nat /\ a = c + b /\ a \in Nat /\ b \in Nat
    BY <1>1, CutsTotal
  <1>3. Less(total_bytes, c) + ErrorSize <= MaxTotal
    BY Zenon DEF MakesRoom
  <1>4. total_bytes = a
    OBVIOUS
  <1> HIDE DEF a, b, c
  <1>5. Less(total_bytes, c) = b /\ Less(total_bytes, a - b) = b
    BY <1>2, <1>4 DEF Less
  <1>6. b + ErrorSize <= MaxTotal
    BY <1>3, <1>5
  <1> QED BY <1>2, <1>5, <1>6 DEF a, b

\* fail keeps the accounts: what its loop pops makes room for the error frame.
LEMMA FailAccount ==
    ASSUME Base, AccountInv, NEW s \in Streams, Fail(s)
    PROVE  AccountInv'
  <1>0. StoreOK /\ live \subseteq Streams /\ total_bytes = SumBytes(sessions, live) /\ clock \in Nat
    BY DEF Base, StoreOK, AccountInv, TaskOK
  <1>1. live' = live
    BY DEF Fail
  <1>2. CASE ~Failable(s)
    <2>1. UNCHANGED <<sessions, live, total_bytes>>
      BY <1>2 DEF Fail
    <2> QED BY <1>0, <2>1, StayAccount DEF AccountInv
  <1>3. CASE Failable(s)
    <2>1. s \in live
      BY <1>3 DEF Failable
    <2>2. PICK pop \in [live -> 0..MaxEvents] :
              /\ MakesRoom(s, pop) /\ Pops(pop)
              /\ sessions' = [Shortened(pop) EXCEPT ![s] = WithError(@)]
              /\ Shortened(pop)[s].next_id = sessions[s].next_id
              /\ total_bytes' = ErrorSize + Less(total_bytes,
                    SumBytes(sessions, live) - SumBytes(Shortened(pop), live))
              /\ clock' = clock + 1
              /\ past' = [past EXCEPT ![s].error = sessions[s].next_id,
                    ![s].stamp = clock + 1, ![s].terminals = @ + 1]
              /\ follower' = Wakes(s)
      BY <1>0, <1>3, FailIs, Zenon
    <2> DEFINE y == Shortened(pop)
               b == SumBytes(y, live)
               x == y[s]
               z == WithError(x)
    <2>3. /\ Less(total_bytes, SumBytes(sessions, live) - b) = b
          /\ b + ErrorSize <= MaxTotal /\ b \in Nat
      BY <1>0, <2>1, <2>2, RoomMade
    <2>4. total_bytes' = ErrorSize + b
      BY <2>2, <2>3
    <2>5. \A t \in Streams : sessions'[t] = IF t = s THEN z ELSE y[t]
      BY <2>2 DEF Shortened
    <2>6. ASSUME NEW t \in Streams PROVE Sized(y[t])
      BY <1>0, <2>2, ShortenedAre
    <2>7. /\ z.bytes = x.bytes + ErrorSize /\ Len(z.frames) = Len(x.frames) + 1
          /\ x.bytes \in Nat
      <3> DEFINE fs == Append(x.frames, ErrorFrame(x.next_id))
                 e == x.bytes + ErrorSize
                 n == x.next_id + 1
                 m == clock + 1
      <3>1. Sized(x)
        BY <2>6
      <3>2. /\ Sized(z) /\ z = Failed(x, fs, e, n, m) /\ fs \in Seq(Frame)
        BY <1>0, <3>1, ErrorOK
      <3>3. /\ x \in Session /\ x.frames \in Seq(Frame) /\ x.next_id \in Nat /\ x.bytes \in Nat
            /\ e \in Nat /\ n \in Nat /\ m \in Nat
        BY <1>0, <3>1, SessionFields, PolicyAssumption DEF Sized
      <3>4. ErrorFrame(x.next_id) \in Frame
        BY <3>3, PolicyAssumption DEF ErrorFrame, Frame
      <3>5. Len(fs) = Len(x.frames) + 1
        BY <3>3, <3>4, AppendFacts
      <3> HIDE DEF fs, e, n, m, x, z
      <3>6. z.frames = fs /\ z.bytes = e
        <4>0. x \in Session /\ fs \in Seq(Frame) /\ e \in Nat /\ n \in Nat /\ m \in Nat
          BY <3>2, <3>3
        <4>1. Failed(x, fs, e, n, m).frames = fs
          BY <4>0, FailedFields
        <4>2. Failed(x, fs, e, n, m).bytes = e
          BY <4>0, FailedFields
        <4> QED BY <3>2, <4>1, <4>2
      <3> QED BY <3>3, <3>5, <3>6 DEF e
    <2> HIDE DEF z
    <2>8. sessions'[s] = z
      BY <2>5
    <2>9. \A t \in live : y[t].bytes \in Nat /\ sessions'[t].bytes \in Nat
      <3> SUFFICES ASSUME NEW t \in live PROVE y[t].bytes \in Nat /\ sessions'[t].bytes \in Nat
        OBVIOUS
      <3>1. t \in Streams
        BY <1>0
      <3>2. y[t] \in Session
        BY <2>6, <3>1 DEF Sized
      <3>3. y[t].bytes \in Nat
        BY <3>2, SessionFields
      <3> QED BY <2>5, <2>7, <3>1, <3>3, PolicyAssumption
    <2>10. total_bytes' = SumBytes(sessions', live') /\ total_bytes' <= MaxTotal
      <3> DEFINE L == live \ {s}
      <3>1. live \in SUBSET Streams
        BY <1>0
      <3>2. b = x.bytes + SumBytes(y, L)
        BY <2>1, <2>9, <3>1, BytesOne
      <3>3. SumBytes(sessions', live) = z.bytes + SumBytes(sessions', L)
        BY <2>1, <2>8, <2>9, <3>1, BytesOne
      <3>4. SumBytes(sessions', L) = SumBytes(y, L) /\ SumBytes(y, L) \in Nat
        <4>1. \A t \in L : sessions'[t].bytes = y[t].bytes /\ y[t].bytes \in Nat
          BY <2>5, <2>9, <3>1
        <4>2. L \in SUBSET Streams
          BY <3>1
        <4> HIDE DEF L
        <4> QED BY <4>1, <4>2, BytesSame, BytesType
      <3> HIDE DEF L, x, y, b
      <3> QED BY <1>1, <2>3, <2>4, <2>7, <3>2, <3>3, <3>4, PolicyAssumption
    <2>11. \A t \in live' : Bounded(sessions'[t])
      <3> SUFFICES ASSUME NEW t \in live PROVE Bounded(sessions'[t])
        BY <1>1
      <3> DEFINE o == sessions[t]
                 fs == Drop(o.frames, pop[t])
                 e == SumSizes(fs)
      <3>1. t \in Streams /\ pop[t] \in 0..Len(o.frames) /\ Sized(o) /\ o \in Session /\ Bounded(o)
        BY <1>0, <2>2 DEF Pops, StoreOK, Sized, AccountInv
      <3>2. y[t] = Cut(o, fs, e)
        BY <1>0, <2>2, <3>1, ShortenedAre
      <3>3. /\ fs \in Seq(Frame) /\ e \in Nat
            /\ SumSizes(SubSeq(o.frames, 1, pop[t])) \in Nat
            /\ o.bytes = SumSizes(SubSeq(o.frames, 1, pop[t])) + e
        BY <3>1, CutSized
      <3>4. Len(fs) = Len(o.frames) - pop[t] /\ Len(o.frames) \in Nat
        BY <3>1, DropFacts, SessionFields
      <3>5. sessions'[t].followers = o.followers
        BY <1>3, <3>1, FailStore DEF SameState
      <3> HIDE DEF y, fs, e
      <3>6. y[t].frames = fs /\ y[t].bytes = e
        <4>1. Cut(o, fs, e).frames = fs
          BY <3>1, <3>3, CutFields
        <4>2. Cut(o, fs, e).bytes = e
          BY <3>1, <3>3, CutFields
        <4> QED BY <3>2, <4>1, <4>2
      <3>7. CASE t = s
        <4>1. /\ Len(o.frames) - pop[t] < MaxEvents
              /\ e + ErrorSize <= MaxBytes
          BY <1>0, <2>1, <2>2, <3>7, OwnFits DEF fs, e
        <4>2. /\ z.bytes = e + ErrorSize /\ Len(z.frames) = Len(fs) + 1
          BY <2>7, <3>6, <3>7
        <4>3. Len(fs) \in Nat
          BY <3>1, <3>4
        <4>4. z.bytes <= MaxBytes /\ Len(z.frames) <= MaxEvents
          BY <4>1, <4>2, <4>3, <3>4, PolicyAssumption
        <4> QED BY <2>8, <3>1, <3>5, <3>7, <4>4 DEF Bounded
      <3>8. CASE t # s
        <4>1. sessions'[t] = y[t]
          BY <2>5, <3>1, <3>8
        <4>2. e <= MaxBytes
          BY <3>1, <3>3, PolicyAssumption DEF Bounded
        <4>3. Len(fs) <= MaxEvents
          BY <3>1, <3>4, PolicyAssumption DEF Bounded
        <4> QED BY <3>1, <3>5, <3>6, <4>1, <4>2, <4>3 DEF Bounded
      <3> QED BY <3>7, <3>8
    <2>12. /\ Cardinality(Owned(sessions', live')) <= MaxActive
           /\ Cardinality(Retained(sessions', live')) <= MaxRetained
      <3>1. \A t \in live : sessions'[t].owner_active = sessions[t].owner_active
        BY <1>0, <1>3, FailStore DEF SameState
      <3> QED BY <1>0, <1>1, <3>1, SlotsKept
    <2> QED BY <2>10, <2>11, <2>12 DEF AccountInv, Owned, Retained
  <1> QED BY <1>2, <1>3

\* A session as large as another.
SameLoad(x, y) ==
    y.frames = x.frames /\ y.bytes = x.bytes /\ y.followers = x.followers

\* A session as large as one within its limits is within them.
LEMMA LoadBounds ==
    ASSUME NEW x, NEW y, SameLoad(x, y), Bounded(x)
    PROVE  Bounded(y)
  BY DEF SameLoad, Bounded

\* A step that leaves the sessions.
LEMMA QuietAccount ==
    ASSUME StoreOK, AccountInv, UNCHANGED store
    PROVE  AccountInv'
  BY StayAccount DEF store, AccountInv

\* A purge and nothing else.
LEMMA PurgeOnly ==
    ASSUME StoreOK, AccountInv, NEW bodies, PurgeLocked(sessions, bodies, {})
    PROVE  AccountInv'
  BY QuietPurge DEF StoreOK, AccountInv

\* A status overridden changes no account.
LEMMA OverrideAccount ==
    ASSUME Base, AccountInv, NEW s \in Streams, Override(s)
    PROVE  AccountInv'
  <1>1. StoreOK
    BY DEF Base
  <1>2. /\ UNCHANGED <<live, total_bytes>>
        /\ sessions' = IF s \in live THEN [sessions EXCEPT ![s].status = "cancelled"]
                       ELSE sessions
    BY DEF Override
  <1>3. ASSUME NEW t \in live
        PROVE  /\ SameLoad(sessions[t], sessions'[t])
               /\ sessions'[t].owner_active = sessions[t].owner_active
    <2>1. t \in Streams /\ sessions[t] \in Session
      BY <1>1 DEF StoreOK
    <2>2. \/ sessions'[t] = sessions[t]
          \/ sessions'[t] = [sessions[t] EXCEPT !.status = "cancelled"]
      BY <1>1, <1>2, <2>1 DEF StoreOK
    <2> QED BY <2>1, <2>2 DEF SameLoad, Session
  <1>4. \A t \in live : Bounded(sessions'[t])
    BY <1>3, LoadBounds DEF AccountInv
  <1> QED BY <1>1, <1>2, <1>3, <1>4, StayAccount DEF SameLoad

\* finish frees an active slot and purges what is retained beyond the limit.
LEMMA FinishAccount ==
    ASSUME Base, AccountInv, NEW s \in Streams, Finish(s)
    PROVE  AccountInv'
  <1>1. StoreOK /\ sessions[s] \in Session
    BY DEF Base, StoreOK
  <1>2. CASE s \notin live
    <2>1. UNCHANGED store
      BY <1>2 DEF Finish
    <2> QED BY <1>1, <2>1, QuietAccount
  <1>3. CASE s \in live
    <2>1. PICK y : /\ PurgeLocked([sessions EXCEPT ![s] = y], Wakes(s), {})
                   /\ SameLoad(sessions[s], y) /\ ~y.owner_active /\ y \in Session
      <3> DEFINE a(st, n) == [sessions[s] EXCEPT !.owner_active = FALSE,
                                               !.status = st, !.terminal_at = n]
                 b == [sessions[s] EXCEPT !.owner_active = FALSE]
      <3>1. \A st \in Status, n \in Nat :
               SameLoad(sessions[s], a(st, n)) /\ ~a(st, n).owner_active /\ a(st, n) \in Session
        BY <1>1 DEF SameLoad, Session
      <3>2. SameLoad(sessions[s], b) /\ ~b.owner_active /\ b \in Session
        BY <1>1 DEF SameLoad, Session
      <3>3. \/ /\ PurgeLocked([sessions EXCEPT ![s] = a(Outcome(s), clock + 1)], Wakes(s), {})
               /\ Outcome(s) \in Status /\ clock + 1 \in Nat
            \/ PurgeLocked([sessions EXCEPT ![s] = b], Wakes(s), {})
        <4>1. [sessions EXCEPT ![s].owner_active = FALSE] = [sessions EXCEPT ![s] = b]
          BY <1>1 DEF StoreOK
        <4>2. Outcome(s) \in Status /\ clock + 1 \in Nat
          BY DEF Outcome, Status, Base, TaskOK
        <4> QED BY <1>3, <4>1, <4>2 DEF Finish
      <3> HIDE DEF a, b
      <3>4. CASE PurgeLocked([sessions EXCEPT ![s] = b], Wakes(s), {})
        BY <3>2, <3>4
      <3>5. CASE /\ PurgeLocked([sessions EXCEPT ![s] = a(Outcome(s), clock + 1)], Wakes(s), {})
                 /\ Outcome(s) \in Status /\ clock + 1 \in Nat
        BY <3>1, <3>5
      <3> QED BY <3>3, <3>4, <3>5
    <2> DEFINE ss == [sessions EXCEPT ![s] = y]
    <2>2. /\ ss \in [Streams -> Session]
          /\ \A t \in Streams : ss[t] = IF t = s THEN y ELSE sessions[t]
      BY <1>1, <2>1 DEF StoreOK
    <2>3. PurgeLocked(ss, Wakes(s), {})
      BY <2>1
    <2> HIDE DEF ss
    <2>4. live \subseteq Streams
      BY <1>1 DEF StoreOK
    <2>5. \A t \in Streams : ss[t].bytes = sessions[t].bytes
      BY <2>1, <2>2 DEF SameLoad
    <2>6. \A t \in live : Bounded(ss[t])
      <3>1. Bounded(y)
        BY <1>3, <2>1, LoadBounds DEF AccountInv
      <3> QED BY <2>2, <2>4, <3>1 DEF AccountInv
    <2>7. \A t \in live : ss[t].owner_active => sessions[t].owner_active
      BY <2>1, <2>2, <2>4
    <2> QED BY <1>1, <2>2, <2>3, <2>5, <2>6, <2>7, QuietPurge
  <1> QED BY <1>2, <1>3

\* A deletion changes no account before the next purge.
LEMMA DeleteAccount ==
    ASSUME Base, AccountInv, NEW s \in Streams, Delete(s)
    PROVE  AccountInv'
  <1>1. StoreOK /\ sessions[s] \in Session
    BY DEF Base, StoreOK
  <1>2. UNCHANGED <<live, total_bytes>>
    BY DEF Delete
  <1>3. PICK y : /\ sessions' = [sessions EXCEPT ![s] = y]
                 /\ SameLoad(sessions[s], y) /\ y.owner_active = sessions[s].owner_active
    <2> DEFINE a(n) == [sessions[s] EXCEPT !.deleted = TRUE, !.status = "cancelled",
                                            !.terminal_at = n]
               b == [sessions[s] EXCEPT !.deleted = TRUE]
    <2>1. \A n : SameLoad(sessions[s], a(n)) /\ a(n).owner_active = sessions[s].owner_active
      BY <1>1 DEF SameLoad, Session
    <2>2. SameLoad(sessions[s], b) /\ b.owner_active = sessions[s].owner_active
      BY <1>1 DEF SameLoad, Session
    <2>3. \/ sessions' = [sessions EXCEPT ![s] = a(clock + 1)]
          \/ sessions' = [sessions EXCEPT ![s] = b]
      <3>1. [sessions EXCEPT ![s].deleted = TRUE] = [sessions EXCEPT ![s] = b]
        BY <1>1 DEF StoreOK
      <3> QED BY <3>1 DEF Delete
    <2> HIDE DEF a, b
    <2> QED BY <2>1, <2>2, <2>3
  <1>4. ASSUME NEW t \in live
        PROVE  /\ SameLoad(sessions[t], sessions'[t])
               /\ sessions'[t].owner_active = sessions[t].owner_active
    <2>1. t \in Streams
      BY <1>1 DEF StoreOK
    <2> QED BY <1>1, <1>3, <2>1 DEF StoreOK, SameLoad
  <1>5. \A t \in live : Bounded(sessions'[t])
    BY <1>4, LoadBounds DEF AccountInv
  <1> QED BY <1>1, <1>2, <1>4, <1>5, StayAccount DEF SameLoad

\* A stream starts only while an active slot is free.
LEMMA StartAccount ==
    ASSUME Base, LifeInv, AccountInv, NEW s \in Streams, NEW f \in Followers, Start(s, f)
    PROVE  AccountInv'
  <1>1. PICK bodies : PurgeLocked(sessions, bodies, {s})
    BY DEF Start
  <1>2. /\ StoreOK /\ s \notin live /\ sessions[s] = NewSession /\ live \subseteq Streams
        /\ Cardinality(Active) < MaxActive
    BY DEF Base, StoreOK, LifeInv, Life, Untouched, Unstarted, Start
  <1>3. Owned(sessions', live') = Active \cup {s}
    <2>1. NewSession.owner_active
      BY DEF NewSession
    <2>2. \A t \in Streams :
              /\ t \in live' <=> t \in live \ Purged(sessions) \/ t = s
              /\ sessions'[t] = IF t \in Purged(sessions) THEN NewSession ELSE sessions[t]
              /\ t \in Purged(sessions) => t \in live
      BY <1>1, PurgeStore
    <2>3. live' \subseteq Streams
      BY <1>1, <1>2 DEF PurgeLocked
    <2> HIDE DEF Purged
    <2>4. Active = {t \in live \ Purged(sessions) : sessions[t].owner_active}
      BY DEF Active
    <2>5. ASSUME NEW t \in Streams
          PROVE  t \in Owned(sessions', live') <=> t \in Active \cup {s}
      BY <1>2, <2>1, <2>2, <2>4 DEF Owned
    <2> QED BY <1>2, <2>3, <2>4, <2>5 DEF Owned
  <1>4. IsFiniteSet(Active) /\ s \notin Active
    BY <1>2, DomainAssumption, FS_Subset DEF Active
  <1> HIDE DEF Active
  <1>5. Cardinality(Active \cup {s}) <= MaxActive
    <2>1. Cardinality(Active) \in Nat
      BY <1>4, FS_CardinalityType
    <2>2. Cardinality(Active \cup {s}) = Cardinality(Active) + 1
      BY <1>4, FS_AddElement
    <2> QED BY <1>2, <2>1, <2>2, PolicyAssumption
  <1>6. Cardinality(Owned(sessions', live')) <= MaxActive
    BY <1>3, <1>5
  <1>7. \A t \in live : Bounded(sessions[t])
    BY DEF AccountInv
  <1>8. sessions \in [Streams -> Session] /\ {s} \in SUBSET Streams
    BY <1>2 DEF StoreOK
  <1> QED BY <1>1, <1>2, <1>6, <1>7, <1>8, PurgeAccount

\* The calls of clients keep the accounts.
LEMMA ClientAccount ==
    ASSUME Base, LifeInv, AccountInv, NEW s \in Streams, ClientStep(s)
    PROVE  AccountInv'
  <1>1. StoreOK
    BY DEF Base
  <1>2. CASE CheckStart(s)
    BY <1>1, <1>2, QuietAccount DEF CheckStart
  <1>3. CASE Refuse(s)
    BY <1>1, <1>3, PurgeOnly DEF Refuse
  <1> QED BY <1>2, <1>3, StartAccount, DeleteAccount DEF ClientStep

\* A body joins only a session with a free follower's place.
LEMMA AttachAccount ==
    ASSUME Base, AccountInv, NEW f \in Followers, NEW s \in Streams, NEW after, NEW follow,
           Attach(f, s, after, follow)
    PROVE  AccountInv'
  <1>1. StoreOK
    BY DEF Base
  <1>2. CASE ~Attachable(s, after)
    <2>1. PICK bodies : PurgeLocked(sessions, bodies, {})
      BY <1>2 DEF Attach
    <2> QED BY <1>1, <2>1, PurgeOnly
  <1>3. CASE Attachable(s, after)
    <2> DEFINE n == sessions[s].followers + 1
               y == [sessions[s] EXCEPT !.followers = n]
               ss == [sessions EXCEPT ![s] = y]
    <2>1. /\ s \in live /\ sessions[s] \in Session /\ sessions[s].followers \in Nat
          /\ sessions[s].followers < MaxFollowers /\ live \subseteq Streams
      BY <1>1, <1>3, SessionFields DEF Attachable, StoreOK
    <2>2. PICK bodies : PurgeLocked(ss, bodies, {})
      <3>1. [sessions EXCEPT ![s].followers = @ + 1] = ss
        BY <1>1 DEF StoreOK
      <3> QED BY <1>3, <3>1 DEF Attach
    <2>3. n \in Nat /\ n <= MaxFollowers
      BY <2>1, PolicyAssumption
    <2> HIDE DEF n
    <2>4. /\ y \in Session /\ y.followers = n /\ y.bytes = sessions[s].bytes
          /\ y.frames = sessions[s].frames /\ y.owner_active = sessions[s].owner_active
      BY <2>1, <2>3 DEF Session
    <2> HIDE DEF y
    <2>5. /\ ss \in [Streams -> Session]
          /\ \A t \in Streams : ss[t] = IF t = s THEN y ELSE sessions[t]
      BY <1>1, <2>4 DEF StoreOK
    <2> HIDE DEF ss
    <2>6. \A t \in Streams : ss[t].bytes = sessions[t].bytes
      BY <2>4, <2>5
    <2>7. \A t \in live : Bounded(ss[t])
      BY <2>1, <2>3, <2>4, <2>5 DEF AccountInv, Bounded
    <2>8. \A t \in live : ss[t].owner_active => sessions[t].owner_active
      BY <2>1, <2>4, <2>5
    <2> QED BY <1>1, <2>2, <2>5, <2>6, <2>7, <2>8, QuietPurge
  <1> QED BY <1>2, <1>3

\* A body dropped frees its place.
LEMMA DropAccount ==
    ASSUME Base, AccountInv, NEW f \in Followers, DropBody(f)
    PROVE  AccountInv'
  <1> DEFINE s == follower[f].stream
             n == Less(sessions[s].followers, 1)
  <1>1. StoreOK
    BY DEF Base
  <1>2. /\ UNCHANGED <<live, total_bytes>>
        /\ sessions' = IF s \in live THEN [sessions EXCEPT ![s].followers = n]
                       ELSE sessions
    BY DEF DropBody
  <1>3. ASSUME NEW t \in live
        PROVE  /\ sessions'[t].bytes = sessions[t].bytes
               /\ sessions'[t].owner_active = sessions[t].owner_active
               /\ Bounded(sessions'[t])
    <2>1. t \in Streams /\ sessions[t] \in Session /\ Bounded(sessions[t])
      BY <1>1 DEF StoreOK, AccountInv
    <2>2. CASE sessions'[t] = sessions[t]
      BY <2>1, <2>2
    <2>3. CASE t = s
      <3>1. sessions'[t] = [sessions[t] EXCEPT !.followers = n]
        BY <1>1, <1>2, <2>1, <2>3 DEF StoreOK
      <3>2. sessions[t].followers \in Nat
        BY <2>1, SessionFields
      <3>3. n <= MaxFollowers
        BY <2>1, <2>3, <3>2, PolicyAssumption DEF Less, Bounded
      <3> HIDE DEF n
      <3> QED BY <2>1, <3>1, <3>3 DEF Bounded, Session
    <2> QED BY <1>1, <1>2, <2>1, <2>2, <2>3 DEF StoreOK
  <1> QED BY <1>1, <1>2, <1>3, StayAccount

\* Every step keeps the accounts.
LEMMA AccountNext ==
    ASSUME Base, LifeInv, AccountInv, [Next]_vars
    PROVE  AccountInv'
  <1>0. StoreOK
    BY DEF Base
  <1>1. ASSUME NEW s \in Streams, OwnerStep(s) PROVE AccountInv'
    <2>1. CASE Missing(s) \/ SeeShutdown(s)
      BY <1>0, <2>1, QuietAccount DEF Missing, SeeShutdown
    <2> QED BY <1>1, <2>1, FailAccount, OverrideAccount, FinishAccount DEF OwnerStep
  <1>2. ASSUME NEW s \in Streams, SourceStep(s) PROVE AccountInv'
    <2>1. ASSUME NEW size \in Sizes, AppendOversize(s, size) PROVE AccountInv'
      BY <1>0, <2>1, QuietAccount DEF AppendOversize
    <2>2. CASE \/ Complete(s) \/ SignalFailure(s) \/ AppendDropped(s)
               \/ SourceEnd(s) \/ SourceError(s)
      BY <1>0, <2>2, QuietAccount
         DEF Complete, SignalFailure, AppendDropped, SourceEnd, SourceError
    <2> QED BY <1>2, <2>1, <2>2, AppendAccount DEF SourceStep
  <1>3. ASSUME NEW f \in Followers, FollowerStep(f) PROVE AccountInv'
    <2>1. CASE CheckAttach(f) \/ NextFrame(f) \/ Wake(f)
      BY <1>0, <2>1, QuietAccount DEF CheckAttach, NextFrame, Wake
    <2> QED BY <1>3, <2>1, DropAccount, AttachAccount DEF FollowerStep
  <1>4. CASE Observe
    BY <1>0, <1>4, PurgeOnly DEF Observe
  <1>5. CASE ClearControls \/ Elapse \/ Trigger
    BY <1>0, <1>5, QuietAccount DEF ClearControls, Elapse, Trigger
  <1>6. CASE UNCHANGED vars
    BY <1>0, <1>6, QuietAccount DEF vars
  <1> QED BY <1>1, <1>2, <1>3, <1>4, <1>5, <1>6, ClientAccount DEF Next

-----------------------------------------------------------------------------
(* The theorems.                                                           *)

Inv == Base /\ LifeInv /\ ReadInv /\ AccountInv

\* The inductive invariant of the specification.
LEMMA Invariance == Spec => []Inv
  <1>1. Init => Inv
    BY BaseInit, LifeInit, ReadInit, AccountInit DEF Inv
  <1>2. Inv /\ [Next]_vars => Inv'
    BY BaseNext, LifeNext, ReadNext, AccountNext DEF Inv
  <1> QED BY <1>1, <1>2, PTL DEF Spec

\* Every variable keeps its type, whatever the limits and however many
\* streams, bodies and frames there are.
THEOREM TypeCorrect == Spec => []TypeOK
  <1>1. Inv => TypeOK
    BY BaseType DEF Inv
  <1> QED BY <1>1, Invariance, PTL

\* No generation runs on for a stream nobody can read (append, delete,
\* cancel_owner: whoever ends a session early has told its generation).
THEOREM NoneOrphaned == Spec => []NoOrphanGeneration
  <1>1. Inv => NoOrphanGeneration
    BY LifeProperties DEF Inv
  <1> QED BY <1>1, Invariance, PTL

\* A stream becomes terminal once, whichever of finish, fail, delete and
\* cancel_owner gets there first, and its record says how it ended.
THEOREM EndsOnce == Spec => []StreamEndsOnce
  <1>1. Inv => StreamEndsOnce
    BY BaseType, LifeProperties DEF Inv, StreamEndsOnce
  <1> QED BY <1>1, Invariance, PTL

\* A body that waits is woken by whatever it waits for (follower_body), and a
\* control handle lives as long as its generation (ChatControls).
THEOREM BodiesServed == Spec => []FollowersServed
  <1>1. Inv => FollowersServed
    BY BaseType, LifeProperties, ReadProperties DEF Inv, FollowersServed
  <1> QED BY <1>1, Invariance, PTL

\* Bodies deliver the events of their stream in order, without a gap, and the
\* same ones, although sessions are trimmed, frames are taken back and bodies
\* come and go.
THEOREM ReplayExact == Spec => []Replay
  <1>1. Inv => Replay
    BY ReadProperties DEF Inv
  <1> QED BY <1>1, Invariance, PTL

\* The counters that append, fail and purge_locked keep by difference are the
\* bytes retained, and every limit of the policy holds at every unlock.
THEOREM Accounted == Spec => []Accounting
  <1>1. Inv => Accounting
    BY AccountProperty DEF Inv
  <1> QED BY <1>1, Invariance, PTL

=============================================================================
