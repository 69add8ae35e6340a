------------------------ MODULE GenerationOwnerSteps ------------------------
(***************************************************************************)
(* The actions of GenerationOwner as one request sees them.  What is known *)
(* of a request is Settled(r): which work, plan and holdings go with each  *)
(* place of its owner's code (WorkStage, PlanStage, HeldStage), that a     *)
(* broken engine it has unloaded is gone (Broken), and that owner, client  *)
(* and activity record agree (ClientTruth, ChatTruth, ChoiceTruth,         *)
(* Truthful).                                                              *)
(*                                                                         *)
(* For each action there is one lemma, ActionDoes, that says what the      *)
(* action changes of its request: the EXCEPTs are put together, the helper *)
(* operators of the engine loops are unfolded, and the new owner record is *)
(* shown to be one.  GenerationOwnerProofs uses the actions only through   *)
(* these lemmas.                                                           *)
(***************************************************************************)
EXTENDS GenerationOwner, TLAPS

\* The places of an owner: the pc of GenerationOwner.
Places == {"idle", "start", "llm", "health", "reload", "reserve", "slot", "epoch", "check",
           "commit", "ready", "top", "next", "send", "ack", "retire", "unload", "counting",
           "answer", "quit", "deliver", "done"}

-----------------------------------------------------------------------------
(* What an owner holds and what its engine does, place by place.           *)

\* The engine does something for the request.
Busy(r) == work[r] \notin {"none", "reserved", "adrift"}
Finishing == {"answer", "quit", "deliver", "done"}
InLoop == {"top", "next", "send"}
Leased == {"health", "reserve", "slot", "epoch", "check", "commit", "ready"} \cup InLoop
Slotted == {"epoch", "check", "commit", "ready"} \cup InLoop
Shared == {"check", "commit", "ready"} \cup InLoop

\* What the engine does while the owner is at its place: nothing before the
\* reservation, a reservation until the commit, and nothing once the worker
\* has acknowledged, but for a count, which runs on by itself.
WorkStage(r) ==
    LET p == owner[r].pc
    IN /\ kind[r] = "none" => p = "idle"
       /\ p \in {"idle", "start", "llm", "health", "reload", "reserve"} => work[r] = "none"
       /\ p \in {"slot", "epoch", "check"} =>
             work[r] = IF kind[r] = "count" THEN "none" ELSE "reserved"
       /\ p \in {"commit", "ready", "top", "next", "send"} => work[r] # "reserved"
       /\ p \in {"reserve", "epoch", "check", "commit", "ready", "top", "next", "send", "ack",
                 "retire", "unload", "quit", "deliver"} => kind[r] # "count"
       /\ p = "ready" => kind[r] \in {"chat", "choice"}
       /\ p = "counting" => kind[r] = "count" /\ work[r] = "running"
       /\ p \in {"retire", "unload"} => work[r] \in {"none", "adrift"}
       /\ p \in Finishing => \/ work[r] \in {"none", "adrift"}
                             \/ kind[r] = "count" /\ work[r] = "running"

\* What comes after the acknowledgement or the unload.
PlanStage(r) ==
    LET p == owner[r].pc
        a == owner[r].after
    IN /\ p \in {"retire", "unload"} => a \in {"answer", "deliver", "quit"}
       /\ p = "ack" => a \in {"answer", "drop", "deliver", "quit"}
       /\ p = "ack" /\ a \in {"deliver", "quit"} => lease[r] # 0

\* The lease, the slot and the share of the epoch that go with a place, and
\* that a lease is one of the instance that is resident.
HeldStage(r) ==
    LET p == owner[r].pc
    IN /\ p \in Leased => lease[r] # 0
       /\ p \in Slotted => slot[r]
       /\ p \in Shared => epoch[r]
       /\ Busy(r) => lease[r] # 0 /\ slot[r] /\ (epoch[r] \/ kind[r] = "count")
       /\ lease[r] # 0 => lease[r] = engine[model[r]].inst

\* The instance an owner found broken is one of those loaded so far, and no
\* longer resident when the unload is over.
Broken(r) ==
    /\ owner[r].broken <= engine[model[r]].loads
    /\ owner[r].broken # 0 /\ owner[r].pc # "unload" => engine[model[r]].inst # owner[r].broken

-----------------------------------------------------------------------------
(* What is reported.                                                       *)

Generation(r) == kind[r] \in {"chat", "choice"}
\* The owner will do one of a once its engine has let go of the request.
Bound(r, a) == owner[r].pc \in {"ack", "retire", "unload"} /\ owner[r].after \in a

\* How the caller, the record, the cancellation and the place agree.
ClientTruth(r) ==
    LET p == owner[r].pc
        c == client[r]
    IN /\ c.st = "idle" => p = "idle" /\ outcome[r] = "none" /\ kind[r] # "none"
       /\ p = "idle" => /\ c.st \in {"idle", "ended"}
                        /\ c.got \notin {"all", "ownerlost"}
                        /\ outcome[r] \in {"none", "Cancelled", "ClientError"}
       /\ p \notin {"idle", "done"} => outcome[r] = "active"
       /\ notified[r] => cancelled[r]
       /\ cause[r] # "none" => cancelled[r]
       /\ kind[r] # "count" /\ c.st = "gone" => cancelled[r]
       /\ c.st = "ended" => p \in {"idle", "done"}
       /\ c.st = "holding" => Generation(r)
       /\ c.got = "ownerlost" => kind[r] = "chat" /\ c.st = "ended"
       /\ kind[r] \in {"chat","choice"} /\ p \in InLoop => c.st \in {"holding", "gone"}
       /\ final[r] # "open" => p = "done" /\ Generation(r)

\* A chat owner delivers a terminal or an error, and the record says which.
ChatTruth(r) ==
    kind[r] = "chat" =>
       /\ ~owner[r].connected => cancelled[r]
       /\ owner[r].pc = "deliver" \/ Bound(r, {"deliver"}) => owner[r].terminal
              \/ owner[r].err # "none"
       /\ final[r] # "open" /\ ~cancelled[r] =>
             final[r] \in {"err", "all"} /\ (final[r] = "all" <=> outcome[r] = "Success")
       /\ owner[r].pc = "answer" \/ Bound(r, {"answer", "drop"}) => owner[r].err # "none"

\* A choice owner that has seen the final event has it in hand, in the
\* queue or read, unless it has lost its reader.
ChoiceTruth(r) ==
    LET o == owner[r]
    IN kind[r] = "choice" =>
       /\ final[r] \in {"open", "dropped"}
       /\ o.failed => o.terminal
       /\ o.terminal => \/ o.pc = "send" /\ o.item = IF o.failed THEN "failed" ELSE "all"
                        \/ o.pc = "deliver" \/ Bound(r, {"deliver"})
       /\ o.terminal /\ ~o.failed /\ o.connected /\ o.pc # "send" /\ client[r].st = "holding" =>
             client[r].got = "all" \/ \E i \in 1..Len(queue[r]) : queue[r][i] = "all"
       /\ outcome[r] = "Success" /\ client[r].st = "holding" =>
             client[r].got = "all" \/ \E i \in 1..Len(queue[r]) : queue[r][i] = "all"

\* EndTruthful for one request.
Truthful(r) ==
    client[r].st = "ended" /\ ~cancelled[r] =>
        /\ client[r].got # "ownerlost"
        /\ kind[r] = "chat" /\ outcome[r] # "none" =>
               (client[r].got = "all" <=> outcome[r] = "Success")
        /\ kind[r] \in {"choice", "embed"} /\ outcome[r] = "Success" => client[r].got = "all"

-----------------------------------------------------------------------------
(* Types, by the part of the state they speak of.                          *)

Items == {"delta", "stop", "cancelled", "all", "failed"}
Owner == [pc : Places, err : Errors \cup {"none"}, connected : BOOLEAN, forward : BOOLEAN,
          reason : {"none", "stop", "cancelled", "error"}, terminal : BOOLEAN,
          failed : BOOLEAN, item : Items \cup {"none"},
          after : {"none", "answer", "drop", "deliver", "quit"},
          broken : Nat, tries : {0, 1}]
Client == [st : {"idle", "waiting", "holding", "gone", "ended"},
           got : Items \cup {"none", "err", "ownerlost"}]

OwnerType == owner \in [Requests -> Owner]
ClientType ==
    /\ client \in [Requests -> Client]
    /\ cancelled \in [Requests -> BOOLEAN] /\ notified \in [Requests -> BOOLEAN]
    /\ cause \in [Requests -> {"none", "client", "buffer"}]
ChannelType ==
    /\ queue \in [Requests -> Seq(Items \cup {"none", "err"})]
    /\ \A r \in Requests : Len(queue[r]) <= QueueCap
    /\ final \in [Requests -> {"open", "dropped", "err", "all"}]
WorkerType ==
    /\ work \in [Requests -> {"none", "reserved", "preparing", "running", "child",
                              "childbad", "over", "adrift"}]
    /\ stop \in [Requests -> BOOLEAN] /\ deltas \in [Requests -> Nat]
HeldType ==
    /\ lease \in [Requests -> Nat]
    /\ slot \in [Requests -> BOOLEAN] /\ epoch \in [Requests -> BOOLEAN]
CacheType ==
    /\ engine \in [Models -> [inst : Nat, loads : Nat, healthy : BOOLEAN]]
    /\ \A m \in Models : engine[m].loads <= MaxLoads /\ engine[m].inst <= engine[m].loads
    /\ unloading \subseteq Requests
RestType ==
    /\ kind \in [Requests -> Kinds] /\ model \in [Requests -> Models]
    /\ outcome \in [Requests -> Outcomes] /\ shutdown \in BOOLEAN
Types == /\ OwnerType /\ ClientType /\ ChannelType /\ WorkerType /\ HeldType
         /\ CacheType /\ RestType

\* The types hold at the start.
LEMMA TypesInit == Init => Types
  <1> SUFFICES ASSUME Init PROVE Types
    OBVIOUS
  <1>1. NewOwner \in Owner
    BY DEF NewOwner, Owner, Places, Items
  <1>2. OwnerType
    BY <1>1 DEF Init, OwnerType
  <1>3. ClientType /\ WorkerType /\ HeldType
    BY DEF Init, ClientType, Client, WorkerType, HeldType
  <1>4. ChannelType
    BY LimitsAssumption DEF Init, ChannelType
  <1>5. CacheType
    BY LimitsAssumption DEF Init, CacheType
  <1>6. kind \in [Requests -> Kinds] /\ model \in [Requests -> Models]
    BY LimitsAssumption, Zenon DEF Init
  <1>7. RestType
    BY <1>6 DEF Init, RestType, Outcomes
  <1> QED BY <1>2, <1>3, <1>4, <1>5, <1>7 DEF Types

\* Replacing the record of one owner by an owner.
LEMMA OwnerPut ==
    ASSUME OwnerType, NEW r \in Requests, NEW o \in Owner,
           owner' = [owner EXCEPT ![r] = o]
    PROVE  /\ OwnerType' /\ owner'[r] = o
           /\ \A q \in Requests : q # r => owner'[q] = owner[q]
  BY DEF OwnerType

\* An owner whose place, error and plan are replaced is an owner.
LEMMA OwnerPlaced ==
    ASSUME NEW o \in Owner, NEW p \in Places, NEW e \in Errors \cup {"none"},
           NEW a \in {"none", "answer", "drop", "deliver", "quit"}
    PROVE  /\ [o EXCEPT !.pc = p] \in Owner
           /\ [o EXCEPT !.pc = p, !.err = e] \in Owner
           /\ [o EXCEPT !.pc = p, !.after = a] \in Owner
           /\ [o EXCEPT !.pc = p, !.err = e, !.after = a] \in Owner
  <1>1. [o EXCEPT !.pc = p] \in Owner
    BY DEF Owner
  <1>2. [o EXCEPT !.pc = p, !.err = e] \in Owner
    BY DEF Owner
  <1>3. [o EXCEPT !.pc = p, !.after = a] \in Owner
    BY DEF Owner
  <1>4. [o EXCEPT !.pc = p, !.err = e, !.after = a] \in Owner
    BY DEF Owner
  <1> QED BY <1>1, <1>2, <1>3, <1>4

\* The loop is left for the acknowledgement.
LEMMA StopsIs ==
    ASSUME NEW o \in Owner
    PROVE  \E n \in Owner :
              /\ n = Stops(o)
              /\ n.pc = "ack" /\ n.after = "deliver" /\ n.broken = o.broken
              /\ n.terminal = o.terminal /\ n.failed = o.failed /\ n.err = o.err
              /\ n.connected = o.connected
  <1> DEFINE n == Stops(o)
  <1>1. "ack" \in Places
    BY DEF Places
  <1>2. [o EXCEPT !.pc = "ack", !.after = "deliver"] \in Owner
    BY <1>1 DEF Owner
  <1>3. n = [o EXCEPT !.pc = "ack", !.after = "deliver"]
    BY DEF Stops
  <1>4. n \in Owner
    BY <1>2, <1>3
  <1>5. /\ n.pc = "ack" /\ n.after = "deliver" /\ n.broken = o.broken
        /\ n.terminal = o.terminal /\ n.failed = o.failed /\ n.err = o.err
        /\ n.connected = o.connected
    BY <1>3 DEF Owner
  <1> QED BY <1>4, <1>5

\* What is known of a request, place by place.
Settled(r) ==
    /\ WorkStage(r) /\ PlanStage(r) /\ HeldStage(r) /\ Broken(r)
    /\ ClientTruth(r) /\ ChatTruth(r) /\ ChoiceTruth(r) /\ Truthful(r)

\* The loop of a chat owner goes on after an interruption.
LEMMA ChatInterrupted ==
    ASSUME NEW o \in Owner, NEW r, kind[r] = "chat", NEW e \in Errors
    PROVE  \E n \in Owner :
              /\ n = AfterSend(Interrupted(r, o, e))
              /\ n.pc = "next" /\ n.terminal = o.terminal /\ n.failed = o.failed
              /\ n.broken = o.broken /\ n.err \in {o.err, e}
              /\ e # "Cancelled" => n.connected = o.connected
  <1> DEFINE i == Interrupted(r, o, e)
  <1>1. /\ i \in Owner /\ i.pc = "next" /\ i.terminal = o.terminal /\ i.failed = o.failed
        /\ i.broken = o.broken /\ i.err \in {o.err, e}
        /\ e # "Cancelled" => i.connected = o.connected
    <2>1. CASE e = "Cancelled"
      <3>1. i = [o EXCEPT !.pc = "next", !.connected = FALSE, !.forward = FALSE]
        BY <2>1 DEF Interrupted
      <3> QED BY <2>1, <3>1 DEF Owner, Places
    <2>2. CASE e # "Cancelled"
      <3>1. i = [o EXCEPT !.pc = "next", !.forward = FALSE, !.err = e]
        BY <2>2 DEF Interrupted
      <3> QED BY <2>2, <3>1 DEF Owner, Places
    <2> QED BY <2>1, <2>2
  <1> HIDE DEF i
  <1>2. AfterSend(i) = [i EXCEPT !.item = "none"]
    BY <1>1 DEF AfterSend
  <1>3. /\ AfterSend(i) \in Owner /\ AfterSend(i).pc = i.pc /\ AfterSend(i).terminal = i.terminal
        /\ AfterSend(i).failed = i.failed /\ AfterSend(i).broken = i.broken
        /\ AfterSend(i).err = i.err /\ AfterSend(i).connected = i.connected
    BY <1>1, <1>2 DEF Owner
  <1> QED BY <1>1, <1>3 DEF i

\* The embedding gives up when it is interrupted.
LEMMA EmbedInterrupted ==
    ASSUME NEW o \in Owner, NEW r, kind[r] = "embed", NEW e \in Errors
    PROVE  \E n \in Owner :
              /\ n = AfterSend(Interrupted(r, o, e))
              /\ n.pc = "ack" /\ n.after = "deliver" /\ n.broken = o.broken
  <1> DEFINE i == Interrupted(r, o, e)
  <1> DEFINE f == [o EXCEPT !.err = e]
  <1>1. i = Stops(f)
    BY DEF Interrupted
  <1>2. f \in Owner /\ f.broken = o.broken
    BY DEF Owner
  <1> HIDE DEF i, f
  <1>3. i \in Owner /\ i.pc = "ack" /\ i.after = "deliver" /\ i.broken = o.broken
    BY <1>1, <1>2, StopsIs
  <1>4. AfterSend(i) = [i EXCEPT !.item = "none"]
    BY <1>3 DEF AfterSend
  <1>5. /\ AfterSend(i) \in Owner /\ AfterSend(i).pc = i.pc
        /\ AfterSend(i).after = i.after /\ AfterSend(i).broken = i.broken
    BY <1>3, <1>4 DEF Owner
  <1> QED BY <1>3, <1>5 DEF i

\* What follows a send of the choice loop.
LEMMA ChoiceSent ==
    ASSUME NEW o \in Owner, o.pc \in {"send", "top", "next"}
    PROVE  \E n \in Owner :
              /\ n = AfterSend(o)
              /\ n.terminal = o.terminal /\ n.failed = o.failed /\ n.err = o.err
              /\ n.connected = o.connected /\ n.broken = o.broken
              /\ \/ o.pc = "send" /\ n.pc = "ack" /\ n.after = "deliver"
                 \/ o.pc # "send" /\ n.pc = o.pc
                 \/ o.pc = "send" /\ n.pc = "top" /\ o.item \notin {"all", "failed"}
  <1> DEFINE sent == [o EXCEPT !.item = "none"]
  <1>1. /\ sent \in Owner /\ sent.terminal = o.terminal /\ sent.failed = o.failed
        /\ sent.err = o.err /\ sent.connected = o.connected /\ sent.broken = o.broken
        /\ sent.pc = o.pc
    BY DEF Owner
  <1>2. AfterSend(o) = IF o.pc # "send" THEN sent
                       ELSE IF o.item \in {"all", "failed"} THEN Stops(sent)
                       ELSE [sent EXCEPT !.pc = "top"]
    BY DEF AfterSend
  <1> HIDE DEF sent
  <1>3. CASE o.pc # "send"
    BY <1>1, <1>2, <1>3
  <1>4. CASE o.pc = "send" /\ o.item \in {"all", "failed"}
    <2>1. AfterSend(o) = Stops(sent)
      BY <1>2, <1>4
    <2>2. PICK n \in Owner :
              /\ n = Stops(sent)
              /\ n.pc = "ack" /\ n.after = "deliver" /\ n.broken = sent.broken
              /\ n.terminal = sent.terminal /\ n.failed = sent.failed /\ n.err = sent.err
              /\ n.connected = sent.connected
      BY <1>1, StopsIs, Zenon
    <2> QED BY <1>1, <1>4, <2>1, <2>2
  <1>5. CASE o.pc = "send" /\ o.item \notin {"all", "failed"}
    <2>1. AfterSend(o) = [sent EXCEPT !.pc = "top"]
      BY <1>2, <1>5
    <2> DEFINE n == AfterSend(o)
    <2>2. /\ n \in Owner /\ n.terminal = sent.terminal /\ n.failed = sent.failed
          /\ n.err = sent.err /\ n.connected = sent.connected /\ n.broken = sent.broken
          /\ n.pc = "top"
      BY <1>1, <2>1 DEF Owner, Places
    <2> QED BY <1>1, <1>5, <2>2
  <1> QED BY <1>3, <1>4, <1>5

\* An interruption of the choice loop, in a wait for the engine or in a send.
LEMMA ChoiceInterrupted ==
    ASSUME NEW o \in Owner, o.pc \in {"send", "next"}, NEW r, kind[r] = "choice",
           NEW e \in Errors
    PROVE  \E n \in Owner :
              /\ n = AfterSend(Interrupted(r, o, e))
              /\ n.terminal = o.terminal /\ n.failed = o.failed /\ n.broken = o.broken
              /\ n.connected => o.connected
              /\ \/ o.pc = "send" /\ n.pc = "ack" /\ n.after = "deliver" /\ ~n.connected
                 \/ o.pc = "next" /\ n.pc = "top"
                 \/ o.pc = "send" /\ n.pc = "top" /\ o.item \notin {"all", "failed"}
  <1> DEFINE i == Interrupted(r, o, e)
             p == IF o.pc = "next" THEN "top" ELSE o.pc
             c == o.connected /\ e # "Cancelled" /\ o.pc = "next"
             x == IF e = "Cancelled" THEN o.err ELSE e
  <1>1. i = [o EXCEPT !.pc = p, !.connected = c, !.err = x]
    BY DEF Interrupted
  <1>2. p \in Places /\ c \in BOOLEAN /\ x \in Errors \cup {"none"}
    BY DEF Owner, Places
  <1>3. /\ p = "top" <=> o.pc = "next"
        /\ p = "send" <=> o.pc = "send"
        /\ p \in {"send", "top", "next"}
    OBVIOUS
  <1>4. c => o.connected /\ o.pc = "next"
    OBVIOUS
  <1> HIDE DEF p, c, x
  <1>5. /\ i \in Owner /\ i.pc = p /\ i.connected = c /\ i.err = x /\ i.item = o.item
        /\ i.terminal = o.terminal /\ i.failed = o.failed /\ i.broken = o.broken
    BY <1>1, <1>2 DEF Owner
  <1> HIDE DEF i
  <1>6. PICK n \in Owner :
              /\ n = AfterSend(i)
              /\ n.terminal = i.terminal /\ n.failed = i.failed /\ n.err = i.err
              /\ n.connected = i.connected /\ n.broken = i.broken
              /\ \/ i.pc = "send" /\ n.pc = "ack" /\ n.after = "deliver"
                 \/ i.pc # "send" /\ n.pc = i.pc
                 \/ i.pc = "send" /\ n.pc = "top" /\ i.item \notin {"all", "failed"}
    BY <1>3, <1>5, ChoiceSent
  <1>7. AfterSend(Interrupted(r, o, e)) = n
    BY <1>6 DEF i
  <1> QED BY <1>3, <1>4, <1>5, <1>6, <1>7

\* What a chat owner makes of an event.
LEMMA ChatEvents ==
    ASSUME NEW o \in Owner, o.pc = "next", NEW e \in {"delta", "stop", "cancelled", "error"}
    PROVE  \E n \in Owner :
              /\ n = ChatEvent(o, e)
              /\ n.connected = o.connected /\ n.broken = o.broken
              /\ \/ /\ n.pc = "ack" /\ n.after = "deliver"
                    /\ n.terminal \/ n.err # "none"
                 \/ n.pc \in {"next", "send"}
  <1>1. CASE e \in {"stop", "cancelled"}
    <2>1. ChatEvent(o, e) = [[o EXCEPT !.reason = e, !.terminal = TRUE]
                               EXCEPT !.pc = "ack", !.after = "deliver"]
      BY <1>1 DEF ChatEvent, Stops
    <2> DEFINE n == ChatEvent(o, e)
    <2>2. /\ n \in Owner /\ n.connected = o.connected /\ n.broken = o.broken
          /\ n.pc = "ack" /\ n.after = "deliver" /\ n.terminal
      BY <1>1, <2>1 DEF Owner, Places
    <2> QED BY <2>2
  <1>2. CASE e = "error"
    <2> DEFINE x == IF o.err = "none" THEN "Core" ELSE o.err
    <2>0. o.err \in Errors \cup {"none"}
      BY DEF Owner
    <2>1. x \in Errors \cup {"none"} /\ x # "none"
      BY <2>0 DEF Errors
    <2>2. FirstError(o, "Core") = [o EXCEPT !.err = x]
      BY DEF FirstError, Owner
    <2> HIDE DEF x
    <2>3. ChatEvent(o, e) = [[o EXCEPT !.err = x] EXCEPT !.pc = "ack", !.after = "deliver"]
      BY <1>2, <2>2 DEF ChatEvent, Stops
    <2> DEFINE n == ChatEvent(o, e)
    <2>4. /\ n \in Owner /\ n.connected = o.connected /\ n.broken = o.broken
          /\ n.pc = "ack" /\ n.after = "deliver" /\ n.err # "none"
      BY <2>1, <2>3 DEF Owner, Places
    <2> QED BY <2>4
  <1>3. CASE e = "delta" /\ o.forward
    <2>1. ChatEvent(o, e) = [o EXCEPT !.pc = "send", !.item = "delta"]
      BY <1>3 DEF ChatEvent
    <2> DEFINE n == ChatEvent(o, e)
    <2>2. /\ n \in Owner /\ n.connected = o.connected /\ n.broken = o.broken
          /\ n.pc = "send"
      BY <2>1 DEF Owner, Places, Items
    <2> QED BY <2>2
  <1>4. CASE e = "delta" /\ ~o.forward
    <2>1. ChatEvent(o, e) = o
      BY <1>4 DEF ChatEvent
    <2> QED BY <2>1
  <1> QED BY <1>1, <1>2, <1>3, <1>4

\* What an embedding owner makes of its result.
LEMMA EmbedEvents ==
    ASSUME NEW o \in Owner, NEW e
    PROVE  \E n \in Owner :
              /\ n = EmbedEvent(o, e)
              /\ n.pc = "ack" /\ n.after = "deliver" /\ n.broken = o.broken
  <1> DEFINE x == IF e = "error" THEN "Core" ELSE o.err
             n == EmbedEvent(o, e)
  <1>1. x \in Errors \cup {"none"}
    BY DEF Owner, Errors
  <1>2. n = [[o EXCEPT !.err = x] EXCEPT !.pc = "ack", !.after = "deliver"]
    BY DEF EmbedEvent, Stops, Owner
  <1> HIDE DEF x
  <1>3. n \in Owner /\ n.pc = "ack" /\ n.after = "deliver" /\ n.broken = o.broken
    BY <1>1, <1>2 DEF Owner, Places
  <1> QED BY <1>3

\* What ChoiceAggregateTerminal has seen of the generation after an event.
LEMMA Observed ==
    ASSUME NEW o \in Owner, ~o.terminal, ~o.failed,
           NEW e \in {"none", "delta", "childfail", "stop", "cancelled", "all", "failed"}
    PROVE  \E n \in Owner :
              /\ n = Observe(o, e)
              /\ n.connected = o.connected /\ n.broken = o.broken
              /\ n.terminal <=> e \in {"all", "failed"}
              /\ n.failed <=> e = "failed"
  <1> DEFINE n == Observe(o, e)
  <1>0. o.reason \in {"none", "stop", "cancelled", "error"}
    BY DEF Owner
  <1>1. CASE e \in {"stop", "cancelled"}
    <2> DEFINE x == IF o.reason = "none" THEN e ELSE o.reason
    <2>1. x \in {"none", "stop", "cancelled", "error"}
      BY <1>0, <1>1
    <2>2. n = [o EXCEPT !.reason = x]
      BY <1>1 DEF Observe, FirstReason, Owner
    <2> HIDE DEF x
    <2>3. n \in Owner /\ n.connected = o.connected /\ n.broken = o.broken
      BY <2>1, <2>2 DEF Owner
    <2>4. ~n.terminal /\ ~n.failed
      BY <2>2 DEF Owner
    <2> QED BY <1>1, <2>3, <2>4
  <1>2. CASE e = "all"
    <2> DEFINE x == IF o.reason = "none" THEN "error" ELSE o.reason
               t == [o EXCEPT !.terminal = TRUE]
    <2>1. x \in {"none", "stop", "cancelled", "error"}
      BY <1>0
    <2>2. /\ t \in Owner /\ t.reason = o.reason /\ t.terminal = TRUE /\ t.failed = o.failed
          /\ t.connected = o.connected /\ t.broken = o.broken
      BY DEF Owner
    <2>3. n = FirstReason(t, "error")
      BY <1>2 DEF Observe
    <2>4. t.reason = "none" => n = [t EXCEPT !.reason = x]
      BY <2>2, <2>3 DEF FirstReason
    <2>5. t.reason # "none" => n = t
      BY <2>2, <2>3 DEF FirstReason
    <2> HIDE DEF x, t
    <2>6. CASE t.reason = "none"
      <3>1. n = [t EXCEPT !.reason = x]
        BY <2>4, <2>6
      <3>2. n \in Owner /\ n.connected = t.connected /\ n.broken = t.broken
        BY <2>1, <2>2, <3>1 DEF Owner
      <3>3. n.terminal = t.terminal /\ n.failed = t.failed
        BY <2>2, <3>1 DEF Owner
      <3> QED BY <1>2, <2>2, <3>2, <3>3
    <2>7. CASE t.reason # "none"
      BY <1>2, <2>2, <2>5, <2>7
    <2> QED BY <2>6, <2>7
  <1>3. CASE e = "failed"
    <2>1. n = [o EXCEPT !.terminal = TRUE, !.failed = TRUE, !.reason = "error"]
      BY <1>3 DEF Observe
    <2>2. n \in Owner /\ n.connected = o.connected /\ n.broken = o.broken
      BY <2>1 DEF Owner
    <2>3. n.terminal /\ n.failed
      BY <2>1 DEF Owner
    <2> QED BY <1>3, <2>2, <2>3
  <1>4. CASE e \in {"none", "delta", "childfail"}
    <2>1. n = o
      BY <1>4 DEF Observe
    <2> QED BY <1>4, <2>1
  <1> QED BY <1>1, <1>2, <1>3, <1>4

\* What a choice owner makes of an event.
LEMMA ChoiceEvents ==
    ASSUME NEW o \in Owner, ~o.terminal, ~o.failed,
           NEW e \in {"none", "delta", "childfail", "stop", "cancelled", "all", "failed"}
    PROVE  \E n \in Owner :
              /\ n = ChoiceEvent(o, e)
              /\ n.broken = o.broken
              /\ n.failed => n.terminal
              /\ \/ /\ n.pc = "ack" /\ n.after = "deliver"
                    /\ n.terminal => ~n.connected
                 \/ n.pc = "top" /\ ~n.terminal
                 \/ /\ n.pc = "send"
                    /\ n.terminal => n.item = IF n.failed THEN "failed" ELSE "all"
  <1>1. PICK s \in Owner :
              /\ s = Observe(o, e)
              /\ s.connected = o.connected /\ s.broken = o.broken
              /\ s.terminal <=> e \in {"all", "failed"}
              /\ s.failed <=> e = "failed"
    BY Observed, Zenon
  <1> DEFINE n == ChoiceEvent(o, e)
  <1>2. CASE e = "none"
    <2> DEFINE f == [o EXCEPT !.err = "Internal"]
    <2>1. n = Stops(f)
      BY <1>2 DEF ChoiceEvent
    <2>2. /\ f \in Owner /\ f.broken = o.broken /\ f.terminal = o.terminal
          /\ f.failed = o.failed
      BY DEF Owner, Errors
    <2> HIDE DEF f
    <2> QED BY <2>1, <2>2, StopsIs
  <1>3. CASE e = "childfail" \/ (e \notin {"none", "childfail", "all", "failed"} /\ ~o.connected)
    <2>1. n = [s EXCEPT !.pc = "top"]
      BY <1>1, <1>3 DEF ChoiceEvent
    <2>2. /\ n \in Owner /\ n.broken = s.broken /\ n.pc = "top"
          /\ n.terminal = s.terminal /\ n.failed = s.failed
      BY <2>1 DEF Owner, Places
    <2> QED BY <1>1, <1>3, <2>2
  <1>4. CASE e \notin {"none", "childfail"} /\ o.connected
    <2>1. n = [s EXCEPT !.pc = "send", !.item = e]
      BY <1>1, <1>4 DEF ChoiceEvent
    <2>2. e \in Items
      BY <1>4 DEF Items
    <2>3. n \in Owner
      <3>1. "send" \in Places
        BY DEF Places
      <3> QED BY <2>1, <2>2, <3>1 DEF Owner
    <2>4. /\ n.broken = s.broken /\ n.pc = "send" /\ n.item = e
          /\ n.terminal = s.terminal /\ n.failed = s.failed
      BY <2>1 DEF Owner
    <2>5. n.terminal => n.item = IF n.failed THEN "failed" ELSE "all"
      BY <1>1, <2>4
    <2>6. n.failed => n.terminal
      BY <1>1, <2>4
    <2> QED BY <1>1, <2>3, <2>4, <2>5, <2>6
  <1>5. CASE e \in {"all", "failed"} /\ ~o.connected
    <2>1. n = Stops(s)
      BY <1>1, <1>5 DEF ChoiceEvent
    <2>2. /\ n \in Owner /\ n.broken = s.broken /\ n.pc = "ack" /\ n.after = "deliver"
          /\ n.terminal = s.terminal /\ n.failed = s.failed /\ n.connected = s.connected
      BY <2>1, StopsIs
    <2> QED BY <1>1, <1>5, <2>2
  <1> QED BY <1>2, <1>3, <1>4, <1>5

\* The events of an engine, by the kind of request.
LEMMA EmitsChat ==
    ASSUME NEW r, kind[r] = "chat", NEW ev \in Emits(r)
    PROVE  /\ ev[1] \in {"delta", "stop", "cancelled", "error"}
           /\ ev[2] \in {"running", "over"}
  BY DEF Emits

\* An embedding has one event, and it is over with it.
LEMMA EmitsEmbed ==
    ASSUME NEW r, kind[r] = "embed", NEW ev \in Emits(r)
    PROVE  ev[2] = "over"
  BY DEF Emits

\* The events of a choice generation.
LEMMA EmitsChoice ==
    ASSUME NEW r, kind[r] = "choice", NEW ev \in Emits(r)
    PROVE  /\ ev[1] \in {"none", "delta", "childfail", "stop", "cancelled", "all", "failed"}
           /\ ev[2] \in {"running", "child", "childbad", "over"}
  BY DEF Emits

\* What Next1 does to its request for a chat generation.
LEMMA Next1ChatDoes ==
    ASSUME Types, NEW r \in Requests, Settled(r), kind[r] = "chat",
           Next1(r)
    PROVE  /\ UNCHANGED <<kind, model, client, cancelled, notified, cause, queue, final,
                          lease, slot,
                          epoch, engine, outcome>>
           /\ owner[r].pc = "next" /\ work'[r] \in {"running", "over"}
           /\ OwnerType'
           /\ owner'[r].connected = owner[r].connected /\ owner'[r].broken = owner[r].broken
           /\ \/ /\ owner'[r].pc = "ack" /\ owner'[r].after = "deliver"
                 /\ owner'[r].terminal \/ owner'[r].err # "none"
              \/ owner'[r].pc \in {"next", "send"}
  <1>1. owner[r] \in Owner
    BY DEF Types, OwnerType
  <1>2. UNCHANGED <<kind, model, client, cancelled, notified, cause, queue, final, lease,
                    slot,
                  epoch, engine, outcome>>
    BY DEF Next1, task, channel, worker, held, cache
  <1>3. owner[r].pc = "next"
    BY DEF Next1, At
  <1>5. PICK ev \in Emits(r) : /\ owner' = [owner EXCEPT ![r] = ChatEvent(owner[r], ev[1])]
                               /\ work' = [work EXCEPT ![r] = ev[2]]
    BY <1>1 DEF Next1, Types, OwnerType
  <1>6. work'[r] = ev[2]
    BY <1>5 DEF Types, WorkerType
  <1>7. PICK n \in Owner :
        /\ n = ChatEvent(owner[r], ev[1])
        /\ n.connected = owner[r].connected /\ n.broken = owner[r].broken
        /\ \/ /\ n.pc = "ack" /\ n.after = "deliver"
              /\ n.terminal \/ n.err # "none"
           \/ n.pc \in {"next", "send"}
    BY <1>1, <1>3, ChatEvents, EmitsChat
  <1>8. OwnerType' /\ owner'[r] = n
    BY <1>5, <1>7, OwnerPut DEF Types
  <1> QED BY <1>2, <1>3, <1>5, <1>6, <1>7, <1>8, EmitsChat

\* What Next1 does to its request for a choice generation.
LEMMA Next1ChoiceDoes ==
    ASSUME Types, NEW r \in Requests, Settled(r), kind[r] = "choice",
           Next1(r)
    PROVE  /\ UNCHANGED <<kind, model, client, cancelled, notified, cause, queue, final,
                          lease, slot,
                          epoch, engine, outcome>>
           /\ owner[r].pc = "next" /\ work'[r] \in {"running", "child", "childbad", "over"}
           /\ OwnerType'
           /\ owner'[r].broken = owner[r].broken
           /\ owner'[r].failed => owner'[r].terminal
           /\ \/ /\ owner'[r].pc = "ack" /\ owner'[r].after = "deliver"
                 /\ owner'[r].terminal => ~owner'[r].connected
              \/ owner'[r].pc = "top" /\ ~owner'[r].terminal
              \/ /\ owner'[r].pc = "send"
                 /\ owner'[r].terminal =>
                      owner'[r].item = IF owner'[r].failed THEN "failed" ELSE "all"
  <1>1. owner[r] \in Owner
    BY DEF Types, OwnerType
  <1>2. UNCHANGED <<kind, model, client, cancelled, notified, cause, queue, final, lease,
                    slot,
                  epoch, engine, outcome>>
    BY DEF Next1, task, channel, worker, held, cache
  <1>3. owner[r].pc = "next"
    BY DEF Next1, At
  <1>4. ~owner[r].terminal /\ ~owner[r].failed
    BY <1>3 DEF Settled, ChoiceTruth, Bound
  <1>5. PICK ev \in Emits(r) : /\ owner' = [owner EXCEPT ![r] = ChoiceEvent(owner[r], ev[1])]
                               /\ work' = [work EXCEPT ![r] = ev[2]]
    BY <1>1 DEF Next1, Types, OwnerType
  <1>6. work'[r] = ev[2]
    BY <1>5 DEF Types, WorkerType
  <1>7. PICK n \in Owner :
        /\ n = ChoiceEvent(owner[r], ev[1])
        /\ n.broken = owner[r].broken
        /\ n.failed => n.terminal
        /\ \/ /\ n.pc = "ack" /\ n.after = "deliver"
              /\ n.terminal => ~n.connected
           \/ n.pc = "top" /\ ~n.terminal
           \/ /\ n.pc = "send"
              /\ n.terminal =>
                   n.item = IF n.failed THEN "failed" ELSE "all"
    BY <1>1, <1>3, <1>4, ChoiceEvents, EmitsChoice
  <1>8. OwnerType' /\ owner'[r] = n
    BY <1>5, <1>7, OwnerPut DEF Types
  <1> QED BY <1>2, <1>3, <1>5, <1>6, <1>7, <1>8, EmitsChoice

\* What Next1 does to its request for an embedding.
LEMMA Next1EmbedDoes ==
    ASSUME Types, NEW r \in Requests, Settled(r), kind[r] = "embed",
           Next1(r)
    PROVE  /\ UNCHANGED <<kind, model, client, cancelled, notified, cause, queue, final,
                          lease, slot,
                          epoch, engine, outcome>>
           /\ owner[r].pc = "next" /\ work'[r] \in {"over"}
           /\ OwnerType'
           /\ owner'[r].pc = "ack" /\ owner'[r].after = "deliver"
           /\ owner'[r].broken = owner[r].broken
  <1>1. owner[r] \in Owner
    BY DEF Types, OwnerType
  <1>2. UNCHANGED <<kind, model, client, cancelled, notified, cause, queue, final, lease,
                    slot,
                  epoch, engine, outcome>>
    BY DEF Next1, task, channel, worker, held, cache
  <1>3. owner[r].pc = "next"
    BY DEF Next1, At
  <1>5. PICK ev \in Emits(r) : /\ owner' = [owner EXCEPT ![r] = EmbedEvent(owner[r], ev[1])]
                               /\ work' = [work EXCEPT ![r] = ev[2]]
    BY <1>1 DEF Next1, Types, OwnerType
  <1>6. work'[r] = ev[2]
    BY <1>5 DEF Types, WorkerType
  <1>7. PICK n \in Owner :
        /\ n = EmbedEvent(owner[r], ev[1])
        /\ n.pc = "ack" /\ n.after = "deliver"
        /\ n.broken = owner[r].broken
    BY <1>1, <1>3, EmbedEvents, EmitsEmbed
  <1>8. OwnerType' /\ owner'[r] = n
    BY <1>5, <1>7, OwnerPut DEF Types
  <1> QED BY <1>2, <1>3, <1>5, <1>6, <1>7, <1>8, EmitsEmbed

\* What LoopInterrupted does to its request for a chat generation.
LEMMA LoopInterruptedChatDoes ==
    ASSUME Types, NEW r \in Requests, Settled(r), kind[r] = "chat", NEW e \in Errors,
           LoopInterrupted(r, e)
    PROVE  /\ UNCHANGED <<kind, model, client, cancelled, cause, queue, final, work, lease,
                          slot,
                          epoch, engine, outcome>>
           /\ owner[r].pc \in {"next", "send"}
           /\ \/ notified' = notified /\ e # "Cancelled"
              \/ notified'[r] = FALSE /\ notified[r] /\ e = "Cancelled"
           /\ OwnerType'
           /\ owner'[r].pc = "next" /\ owner'[r].broken = owner[r].broken
           /\ e # "Cancelled" => owner'[r].connected = owner[r].connected
  <1>1. owner[r] \in Owner
    BY DEF Types, OwnerType
  <1>2. UNCHANGED <<kind, model, client, cancelled, cause, queue, final, work, lease, slot,
                  epoch, engine, outcome>>
    BY DEF LoopInterrupted, task, channel, worker, held, cache
  <1>3. owner[r].pc \in {"next", "send"}
    BY DEF LoopInterrupted, At, Interrupt, Types, ClientType
  <1>4. \/ notified' = notified /\ e # "Cancelled"
        \/ notified'[r] = FALSE /\ notified[r] /\ e = "Cancelled"
    BY DEF LoopInterrupted, At, Interrupt, Types, ClientType
  <1>5. owner' = [owner EXCEPT ![r] = AfterSend(Interrupted(r, owner[r], e))]
    BY <1>1 DEF LoopInterrupted, Types, OwnerType
  <1>6. PICK n \in Owner :
        /\ n = AfterSend(Interrupted(r, owner[r], e))
        /\ n.pc = "next" /\ n.broken = owner[r].broken
        /\ e # "Cancelled" => n.connected = owner[r].connected
    BY <1>1, <1>3, <1>4, ChatInterrupted
  <1>7. OwnerType' /\ owner'[r] = n
    BY <1>5, <1>6, OwnerPut DEF Types
  <1> QED BY <1>2, <1>3, <1>4, <1>6, <1>7

\* What LoopInterrupted does to its request for a choice generation.
LEMMA LoopInterruptedChoiceDoes ==
    ASSUME Types, NEW r \in Requests, Settled(r), kind[r] = "choice", NEW e \in Errors,
           LoopInterrupted(r, e)
    PROVE  /\ UNCHANGED <<kind, model, client, cancelled, cause, queue, final, work, lease,
                          slot,
                          epoch, engine, outcome>>
           /\ owner[r].pc \in {"next", "send"}
           /\ \/ notified' = notified /\ e # "Cancelled"
              \/ notified'[r] = FALSE /\ notified[r] /\ e = "Cancelled"
           /\ OwnerType'
           /\ owner'[r].terminal = owner[r].terminal /\ owner'[r].failed = owner[r].failed
           /\ owner'[r].broken = owner[r].broken
           /\ owner'[r].connected => owner[r].connected
           /\ \/ /\ owner[r].pc = "send" /\ owner'[r].pc = "ack"
                 /\ owner'[r].after = "deliver" /\ ~owner'[r].connected
              \/ owner[r].pc = "next" /\ owner'[r].pc = "top"
              \/ /\ owner[r].pc = "send" /\ owner'[r].pc = "top"
                 /\ owner[r].item \notin {"all", "failed"}
  <1>1. owner[r] \in Owner
    BY DEF Types, OwnerType
  <1>2. UNCHANGED <<kind, model, client, cancelled, cause, queue, final, work, lease, slot,
                  epoch, engine, outcome>>
    BY DEF LoopInterrupted, task, channel, worker, held, cache
  <1>3. owner[r].pc \in {"next", "send"}
    BY DEF LoopInterrupted, At, Interrupt, Types, ClientType
  <1>4. \/ notified' = notified /\ e # "Cancelled"
        \/ notified'[r] = FALSE /\ notified[r] /\ e = "Cancelled"
    BY DEF LoopInterrupted, At, Interrupt, Types, ClientType
  <1>5. owner' = [owner EXCEPT ![r] = AfterSend(Interrupted(r, owner[r], e))]
    BY <1>1 DEF LoopInterrupted, Types, OwnerType
  <1>6. PICK n \in Owner :
        /\ n = AfterSend(Interrupted(r, owner[r], e))
        /\ n.terminal = owner[r].terminal /\ n.failed = owner[r].failed
        /\ n.broken = owner[r].broken
        /\ n.connected => owner[r].connected
        /\ \/ /\ owner[r].pc = "send" /\ n.pc = "ack"
              /\ n.after = "deliver" /\ ~n.connected
           \/ owner[r].pc = "next" /\ n.pc = "top"
           \/ /\ owner[r].pc = "send" /\ n.pc = "top"
              /\ owner[r].item \notin {"all", "failed"}
    BY <1>1, <1>3, <1>4, ChoiceInterrupted
  <1>7. OwnerType' /\ owner'[r] = n
    BY <1>5, <1>6, OwnerPut DEF Types
  <1> QED BY <1>2, <1>3, <1>4, <1>6, <1>7

\* What LoopInterrupted does to its request for an embedding.
LEMMA LoopInterruptedEmbedDoes ==
    ASSUME Types, NEW r \in Requests, Settled(r), kind[r] = "embed", NEW e \in Errors,
           LoopInterrupted(r, e)
    PROVE  /\ UNCHANGED <<kind, model, client, cancelled, cause, queue, final, work, lease,
                          slot,
                          epoch, engine, outcome>>
           /\ owner[r].pc \in {"next", "send"}
           /\ \/ notified' = notified /\ e # "Cancelled"
              \/ notified'[r] = FALSE /\ notified[r] /\ e = "Cancelled"
           /\ OwnerType'
           /\ owner'[r].pc = "ack" /\ owner'[r].after = "deliver"
           /\ owner'[r].broken = owner[r].broken
  <1>1. owner[r] \in Owner
    BY DEF Types, OwnerType
  <1>2. UNCHANGED <<kind, model, client, cancelled, cause, queue, final, work, lease, slot,
                  epoch, engine, outcome>>
    BY DEF LoopInterrupted, task, channel, worker, held, cache
  <1>3. owner[r].pc \in {"next", "send"}
    BY DEF LoopInterrupted, At, Interrupt, Types, ClientType
  <1>4. \/ notified' = notified /\ e # "Cancelled"
        \/ notified'[r] = FALSE /\ notified[r] /\ e = "Cancelled"
    BY DEF LoopInterrupted, At, Interrupt, Types, ClientType
  <1>5. owner' = [owner EXCEPT ![r] = AfterSend(Interrupted(r, owner[r], e))]
    BY <1>1 DEF LoopInterrupted, Types, OwnerType
  <1>6. PICK n \in Owner :
        /\ n = AfterSend(Interrupted(r, owner[r], e))
        /\ n.pc = "ack" /\ n.after = "deliver"
        /\ n.broken = owner[r].broken
    BY <1>1, <1>3, <1>4, EmbedInterrupted
  <1>7. OwnerType' /\ owner'[r] = n
    BY <1>5, <1>6, OwnerPut DEF Types
  <1> QED BY <1>2, <1>3, <1>4, <1>6, <1>7

\* What SendFails does to its request for a chat generation.
LEMMA SendFailsChatDoes ==
    ASSUME Types, NEW r \in Requests, Settled(r), kind[r] = "chat",
           SendFails(r)
    PROVE  /\ UNCHANGED <<kind, model, client, cancelled, notified, cause, queue, final,
                          work, lease,
                          slot, epoch, engine, outcome>>
           /\ owner[r].pc = "send" /\ client[r].st # "holding"
           /\ OwnerType'
           /\ owner'[r].pc = "next" /\ owner'[r].broken = owner[r].broken
  <1>1. owner[r] \in Owner
    BY DEF Types, OwnerType
  <1>2. UNCHANGED <<kind, model, client, cancelled, notified, cause, queue, final, work,
                    lease,
                  slot, epoch, engine, outcome>>
    BY DEF SendFails, task, channel, worker, held, cache
  <1>3. owner[r].pc = "send" /\ client[r].st # "holding"
    BY DEF SendFails, At, Interrupt, Types, ClientType
  <1>4. owner' = [owner EXCEPT ![r] = AfterSend(Interrupted(r, owner[r], "Cancelled"))]
    BY <1>1 DEF SendFails, Types, OwnerType
  <1>5. "Cancelled" \in Errors
    BY DEF Errors
  <1>6. PICK n \in Owner :
        /\ n = AfterSend(Interrupted(r, owner[r], "Cancelled"))
        /\ n.pc = "next" /\ n.broken = owner[r].broken
    BY <1>1, <1>3, <1>5, ChatInterrupted
  <1>7. OwnerType' /\ owner'[r] = n
    BY <1>4, <1>6, OwnerPut DEF Types
  <1> QED BY <1>2, <1>3, <1>5, <1>6, <1>7

\* What SendFails does to its request for a choice generation.
LEMMA SendFailsChoiceDoes ==
    ASSUME Types, NEW r \in Requests, Settled(r), kind[r] = "choice",
           SendFails(r)
    PROVE  /\ UNCHANGED <<kind, model, client, cancelled, notified, cause, queue, final,
                          work, lease,
                          slot, epoch, engine, outcome>>
           /\ owner[r].pc = "send" /\ client[r].st # "holding"
           /\ OwnerType'
           /\ owner'[r].terminal = owner[r].terminal /\ owner'[r].failed = owner[r].failed
           /\ owner'[r].broken = owner[r].broken
           /\ owner'[r].connected => owner[r].connected
           /\ \/ /\ owner[r].pc = "send" /\ owner'[r].pc = "ack"
                 /\ owner'[r].after = "deliver" /\ ~owner'[r].connected
              \/ owner[r].pc = "next" /\ owner'[r].pc = "top"
              \/ /\ owner[r].pc = "send" /\ owner'[r].pc = "top"
                 /\ owner[r].item \notin {"all", "failed"}
  <1>1. owner[r] \in Owner
    BY DEF Types, OwnerType
  <1>2. UNCHANGED <<kind, model, client, cancelled, notified, cause, queue, final, work,
                    lease,
                  slot, epoch, engine, outcome>>
    BY DEF SendFails, task, channel, worker, held, cache
  <1>3. owner[r].pc = "send" /\ client[r].st # "holding"
    BY DEF SendFails, At, Interrupt, Types, ClientType
  <1>4. owner' = [owner EXCEPT ![r] = AfterSend(Interrupted(r, owner[r], "Cancelled"))]
    BY <1>1 DEF SendFails, Types, OwnerType
  <1>5. "Cancelled" \in Errors
    BY DEF Errors
  <1>6. PICK n \in Owner :
        /\ n = AfterSend(Interrupted(r, owner[r], "Cancelled"))
        /\ n.terminal = owner[r].terminal /\ n.failed = owner[r].failed
        /\ n.broken = owner[r].broken
        /\ n.connected => owner[r].connected
        /\ \/ /\ owner[r].pc = "send" /\ n.pc = "ack"
              /\ n.after = "deliver" /\ ~n.connected
           \/ owner[r].pc = "next" /\ n.pc = "top"
           \/ /\ owner[r].pc = "send" /\ n.pc = "top"
              /\ owner[r].item \notin {"all", "failed"}
    BY <1>1, <1>3, <1>5, ChoiceInterrupted
  <1>7. OwnerType' /\ owner'[r] = n
    BY <1>4, <1>6, OwnerPut DEF Types
  <1> QED BY <1>2, <1>3, <1>5, <1>6, <1>7

\* What SendFails does to its request for an embedding.
LEMMA SendFailsEmbedDoes ==
    ASSUME Types, NEW r \in Requests, Settled(r), kind[r] = "embed",
           SendFails(r)
    PROVE  /\ UNCHANGED <<kind, model, client, cancelled, notified, cause, queue, final,
                          work, lease,
                          slot, epoch, engine, outcome>>
           /\ owner[r].pc = "send" /\ client[r].st # "holding"
           /\ OwnerType'
           /\ owner'[r].pc = "ack" /\ owner'[r].after = "deliver"
           /\ owner'[r].broken = owner[r].broken
  <1>1. owner[r] \in Owner
    BY DEF Types, OwnerType
  <1>2. UNCHANGED <<kind, model, client, cancelled, notified, cause, queue, final, work,
                    lease,
                  slot, epoch, engine, outcome>>
    BY DEF SendFails, task, channel, worker, held, cache
  <1>3. owner[r].pc = "send" /\ client[r].st # "holding"
    BY DEF SendFails, At, Interrupt, Types, ClientType
  <1>4. owner' = [owner EXCEPT ![r] = AfterSend(Interrupted(r, owner[r], "Cancelled"))]
    BY <1>1 DEF SendFails, Types, OwnerType
  <1>5. "Cancelled" \in Errors
    BY DEF Errors
  <1>6. PICK n \in Owner :
        /\ n = AfterSend(Interrupted(r, owner[r], "Cancelled"))
        /\ n.pc = "ack" /\ n.after = "deliver"
        /\ n.broken = owner[r].broken
    BY <1>1, <1>3, <1>5, EmbedInterrupted
  <1>7. OwnerType' /\ owner'[r] = n
    BY <1>4, <1>6, OwnerPut DEF Types
  <1> QED BY <1>2, <1>3, <1>5, <1>6, <1>7

\* What Send does to its request for a chat generation.
LEMMA SendChatDoes ==
    ASSUME Types, NEW r \in Requests, Settled(r), kind[r] = "chat",
           Send(r)
    PROVE  /\ UNCHANGED <<kind, model, client, cancelled, notified, cause, final, work,
                          lease, slot,
                          epoch, engine, outcome>>
           /\ owner[r].pc = "send" /\ client[r].st = "holding"
           /\ queue'[r] = Append(queue[r], owner[r].item)
           /\ OwnerType'
           /\ owner'[r].pc = "next" /\ owner'[r].broken = owner[r].broken
           /\ owner'[r].connected = owner[r].connected
  <1>1. owner[r] \in Owner
    BY DEF Types, OwnerType
  <1>2. UNCHANGED <<kind, model, client, cancelled, notified, cause, final, work, lease, slot,
                  epoch, engine, outcome>>
    BY DEF Send, task, channel, worker, held, cache
  <1>3. owner[r].pc = "send" /\ client[r].st = "holding"
    BY DEF Send, At, Types, ChannelType
  <1>4. queue'[r] = Append(queue[r], owner[r].item)
    BY DEF Send, At, Types, ChannelType
  <1> DEFINE o == [owner[r] EXCEPT !.pc = "next"]
  <1>5. o \in Owner /\ o.pc = "next" /\ o.broken = owner[r].broken
            /\ o.connected = owner[r].connected
    BY <1>1 DEF Owner, Places
  <1>6. owner' = [owner EXCEPT ![r] = AfterSend(o)]
    BY <1>1 DEF Send, Types, OwnerType
  <1> HIDE DEF o
  <1>7. PICK n \in Owner :
              /\ n = AfterSend(o)
              /\ n.terminal = o.terminal /\ n.failed = o.failed /\ n.err = o.err
              /\ n.connected = o.connected /\ n.broken = o.broken
              /\ \/ o.pc = "send" /\ n.pc = "ack" /\ n.after = "deliver"
                 \/ o.pc # "send" /\ n.pc = o.pc
                 \/ o.pc = "send" /\ n.pc = "top" /\ o.item \notin {"all", "failed"}
    BY <1>5, ChoiceSent
  <1>8. OwnerType' /\ owner'[r] = n
    BY <1>6, <1>7, OwnerPut DEF Types
  <1> QED BY <1>2, <1>3, <1>4, <1>5, <1>7, <1>8

\* What Send does to its request for a choice generation.
LEMMA SendChoiceDoes ==
    ASSUME Types, NEW r \in Requests, Settled(r), kind[r] = "choice",
           Send(r)
    PROVE  /\ UNCHANGED <<kind, model, client, cancelled, notified, cause, final, work,
                          lease, slot,
                          epoch, engine, outcome>>
           /\ owner[r].pc = "send" /\ client[r].st = "holding"
           /\ queue'[r] = Append(queue[r], owner[r].item)
           /\ OwnerType'
           /\ owner'[r].terminal = owner[r].terminal /\ owner'[r].failed = owner[r].failed
           /\ owner'[r].connected = owner[r].connected /\ owner'[r].broken = owner[r].broken
           /\ \/ owner'[r].pc = "ack" /\ owner'[r].after = "deliver"
              \/ owner'[r].pc = "top" /\ owner[r].item \notin {"all", "failed"}
  <1>1. owner[r] \in Owner
    BY DEF Types, OwnerType
  <1>2. UNCHANGED <<kind, model, client, cancelled, notified, cause, final, work, lease, slot,
                  epoch, engine, outcome>>
    BY DEF Send, task, channel, worker, held, cache
  <1>3. owner[r].pc = "send" /\ client[r].st = "holding"
    BY DEF Send, At, Types, ChannelType
  <1>4. queue'[r] = Append(queue[r], owner[r].item)
    BY DEF Send, At, Types, ChannelType
  <1> DEFINE o == owner[r]
  <1>5. o \in Owner /\ o.pc = "send"
    BY <1>1, <1>3
  <1>6. owner' = [owner EXCEPT ![r] = AfterSend(o)]
    BY <1>1 DEF Send, Types, OwnerType
  <1>7. PICK n \in Owner :
              /\ n = AfterSend(o)
              /\ n.terminal = o.terminal /\ n.failed = o.failed /\ n.err = o.err
              /\ n.connected = o.connected /\ n.broken = o.broken
              /\ \/ o.pc = "send" /\ n.pc = "ack" /\ n.after = "deliver"
                 \/ o.pc # "send" /\ n.pc = o.pc
                 \/ o.pc = "send" /\ n.pc = "top" /\ o.item \notin {"all", "failed"}
    BY <1>5, ChoiceSent
  <1>8. OwnerType' /\ owner'[r] = n
    BY <1>6, <1>7, OwnerPut DEF Types
  <1> QED BY <1>2, <1>3, <1>4, <1>5, <1>7, <1>8

\* What RefuseCommit does to its request.
LEMMA RefuseCommitDoes ==
    ASSUME Types, NEW r \in Requests, Settled(r), RefuseCommit(r)
    PROVE  /\ UNCHANGED <<kind, model, client, cancelled, notified, cause, queue, final,
                          engine, outcome>>
           /\ owner[r].pc = "check"
           /\ OwnerType'
           /\ \E x \in Errors :
                 \/ /\ UNCHANGED <<work, lease, slot, epoch>>
                    /\ owner'[r] = [owner[r] EXCEPT !.pc = "ack", !.err = x, !.after = "drop"]
                 \/ /\ work'[r] = "none" /\ lease'[r] = 0 /\ slot'[r] = FALSE /\ epoch'[r] = FALSE
                    /\ owner'[r] = [owner[r] EXCEPT !.pc = "answer", !.err = x]
  <1> DEFINE x == IF shutdown /\ kind[r] # "embed" THEN "ShuttingDown" ELSE "Cancelled"
  <1>1. owner[r] \in Owner
    BY DEF Types, OwnerType
  <1>2. x \in Errors
    BY DEF Errors
  <1>3. UNCHANGED <<kind, model, client, cancelled, notified, cause, queue, final, engine,
                    outcome>>
    BY DEF RefuseCommit, task, channel, worker, held, cache
  <1>4. owner[r].pc = "check"
    BY DEF RefuseCommit, At
  <1>5. CASE kind[r] = "choice"
    <2>1. /\ owner' = [owner EXCEPT ![r].pc = "ack", ![r].err = x, ![r].after = "drop"]
          /\ UNCHANGED <<work, held>>
      BY <1>5 DEF RefuseCommit
    <2> HIDE DEF x
    <2>2. owner' = [owner EXCEPT ![r] = [owner[r] EXCEPT !.pc = "ack", !.err = x,
              !.after = "drop"]]
      BY <2>1 DEF Types, OwnerType
    <2>3. [owner[r] EXCEPT !.pc = "ack", !.err = x, !.after = "drop"] \in Owner
      BY <1>1, <1>2 DEF Owner, Places
    <2>4. OwnerType' /\ owner'[r] = [owner[r] EXCEPT !.pc = "ack", !.err = x, !.after = "drop"]
      BY <2>2, <2>3, OwnerPut DEF Types
    <2>5. UNCHANGED <<work, lease, slot, epoch>>
      BY <2>1 DEF held
    <2> QED BY <1>2, <1>3, <1>4, <2>4, <2>5
  <1>6. CASE kind[r] # "choice"
    <2>1. /\ owner' = [owner EXCEPT ![r].pc = "answer", ![r].err = x]
          /\ work' = [work EXCEPT ![r] = "none"] /\ DropActive(r)
      BY <1>6 DEF RefuseCommit
    <2> HIDE DEF x
    <2>2. owner' = [owner EXCEPT ![r] = [owner[r] EXCEPT !.pc = "answer", !.err = x]]
      BY <2>1 DEF Types, OwnerType
    <2>3. [owner[r] EXCEPT !.pc = "answer", !.err = x] \in Owner
      BY <1>1, <1>2 DEF Owner, Places
    <2>4. OwnerType' /\ owner'[r] = [owner[r] EXCEPT !.pc = "answer", !.err = x]
      BY <2>2, <2>3, OwnerPut DEF Types
    <2>5. work'[r] = "none" /\ lease'[r] = 0 /\ slot'[r] = FALSE /\ epoch'[r] = FALSE
      BY <2>1 DEF DropActive, Types, WorkerType, HeldType
    <2> QED BY <1>2, <1>3, <1>4, <2>4, <2>5
  <1> QED BY <1>5, <1>6

\* What Acked does to its request.
LEMMA AckedDoes ==
    ASSUME Types, NEW r \in Requests, Settled(r), Acked(r)
    PROVE  /\ UNCHANGED <<kind, model, client, cancelled, notified, cause, queue, final,
                          work, engine, outcome>>
           /\ owner[r].pc = "ack" /\ work[r] \in {"none", "adrift"}
           /\ IF owner[r].after = "drop"
              THEN lease'[r] = 0 /\ slot'[r] = FALSE /\ epoch'[r] = FALSE
              ELSE UNCHANGED <<lease, slot, epoch>>
           /\ OwnerType'
           /\ \E x \in Errors \cup {"none"} :
                 /\ owner[r].err # "none" => x # "none"
                 /\ \/ /\ lease[r] = 0 \/ owner[r].after = "drop"
                       /\ owner'[r] = [owner[r] EXCEPT !.pc = "answer", !.err = x]
                    \/ /\ lease[r] # 0 /\ owner[r].after # "drop"
                       /\ owner'[r] = [owner[r] EXCEPT !.pc = "retire", !.err = x]
  <1> DEFINE p == IF lease[r] = 0 \/ owner[r].after = "drop" THEN "answer" ELSE "retire"
  <1>1. owner[r] \in Owner /\ owner[r].err \in Errors \cup {"none"}
    BY DEF Types, OwnerType, Owner
  <1>2. p \in Places
    BY DEF Places
  <1>3. UNCHANGED <<kind, model, client, cancelled, notified, cause, queue, final, work,
                    engine, outcome>>
    BY DEF Acked, task, channel, worker, held, cache
  <1>4. owner[r].pc = "ack" /\ work[r] \in {"none", "adrift"}
    BY DEF Acked, At
  <1>5. IF owner[r].after = "drop"
        THEN lease'[r] = 0 /\ slot'[r] = FALSE /\ epoch'[r] = FALSE
        ELSE UNCHANGED <<lease, slot, epoch>>
    BY DEF Acked, DropActive, held, Types, HeldType
  <1>6. PICK e \in {"none", "Core"} :
          owner' = [owner EXCEPT ![r].pc = p,
                                 ![r].err = IF owner[r].err = "none" THEN e ELSE owner[r].err]
    BY DEF Acked
  <1> DEFINE x == IF owner[r].err = "none" THEN e ELSE owner[r].err
  <1>7. x \in Errors \cup {"none"} /\ (owner[r].err # "none" => x # "none")
    BY <1>1 DEF Errors
  <1>8. owner' = [owner EXCEPT ![r].pc = p, ![r].err = x]
    BY <1>6
  <1>9. /\ lease[r] = 0 \/ owner[r].after = "drop" => p = "answer"
        /\ lease[r] # 0 /\ owner[r].after # "drop" => p = "retire"
    OBVIOUS
  <1> HIDE DEF p, x
  <1>10. owner' = [owner EXCEPT ![r] = [owner[r] EXCEPT !.pc = p, !.err = x]]
    BY <1>8 DEF Types, OwnerType
  <1>11. [owner[r] EXCEPT !.pc = p, !.err = x] \in Owner
    BY <1>1, <1>2, <1>7 DEF Owner
  <1>12. OwnerType' /\ owner'[r] = [owner[r] EXCEPT !.pc = p, !.err = x]
    BY <1>10, <1>11, OwnerPut DEF Types
  <1> QED BY <1>3, <1>4, <1>5, <1>7, <1>9, <1>12

\* What Call does to its request.
LEMMA CallDoes ==
    ASSUME Types, NEW r \in Requests, Settled(r), Call(r)
    PROVE  /\ UNCHANGED <<kind, model, cancelled, notified, cause, queue, final, work, lease,
                          slot, epoch, engine>>
           /\ client[r].st = "idle" /\ client'[r] = [client[r] EXCEPT !.st = "waiting"]
           /\ outcome'[r] = "active"
           /\ OwnerType'
           /\ owner'[r] = [owner[r] EXCEPT !.pc = "start"]
  <1>1. owner[r] \in Owner
    BY DEF Types, OwnerType
  <1>2. UNCHANGED <<kind, model, cancelled, notified, cause, queue, final, work, lease, slot,
                    epoch, engine>>
    BY DEF Call, channel, worker, held, cache
  <1>3. client[r].st = "idle" /\ client'[r] = [client[r] EXCEPT !.st = "waiting"]
    BY DEF Call, Types, ClientType
  <1>4. outcome'[r] = "active"
    BY DEF Call, Ends, Types, RestType
  <1>5. owner' = [owner EXCEPT ![r] = [owner[r] EXCEPT !.pc = "start"]]
    BY <1>1 DEF Call, Goto
  <1>6. [owner[r] EXCEPT !.pc = "start"] \in Owner
    BY <1>1, OwnerPlaced DEF Places
  <1> QED BY <1>1, <1>2, <1>3, <1>4, <1>5, <1>6, OwnerPut DEF Types

\* What CallRefused does to its request.
LEMMA CallRefusedDoes ==
    ASSUME Types, NEW r \in Requests, Settled(r), CallRefused(r)
    PROVE  /\ UNCHANGED <<kind, model, owner, cancelled, notified, cause, queue, final, work,
                          lease, slot, epoch, engine, outcome>>
           /\ client[r].st = "idle" /\ client'[r] = [st |-> "ended", got |-> "err"]
  BY DEF CallRefused, channel, worker, held, cache, Types, ClientType

\* What CallInvalid does to its request.
LEMMA CallInvalidDoes ==
    ASSUME Types, NEW r \in Requests, Settled(r), CallInvalid(r)
    PROVE  /\ UNCHANGED <<kind, model, owner, cancelled, notified, cause, queue, final, work,
                          lease, slot, epoch, engine>>
           /\ client[r].st = "idle" /\ client'[r] = [st |-> "ended", got |-> "err"]
           /\ outcome'[r] \in {"none", "Cancelled", "ClientError"}
  BY DEF CallInvalid, Ends, channel, worker, held, cache, Types, ClientType, RestType

\* What Leave does to its request.
LEMMA LeaveDoes ==
    ASSUME Types, NEW r \in Requests, Settled(r), Leave(r)
    PROVE  /\ UNCHANGED <<kind, model, owner, cause, queue, final, work, lease, slot, epoch,
                          engine, outcome>>
           /\ client[r].st = "waiting" /\ kind[r] # "count"
           /\ client'[r] = [client[r] EXCEPT !.st = "gone"]
           /\ cancelled'[r] = TRUE
  BY DEF Leave, channel, worker, held, cache, Types, ClientType

\* What Start does to its request.
LEMMA StartDoes ==
    ASSUME Types, NEW r \in Requests, Settled(r), Start(r)
    PROVE  /\ UNCHANGED <<kind, model, client, cancelled, notified, cause, queue, final,
                          work, lease, slot, epoch, engine, outcome>>
           /\ owner[r].pc = "start"
           /\ OwnerType'
           /\ \/ kind[r] # "count" /\ owner'[r] = [owner[r] EXCEPT !.pc = "answer", !.err = "ShuttingDown"]
              \/ owner'[r] = [owner[r] EXCEPT !.pc = "llm"]
  <1>1. owner[r] \in Owner
    BY DEF Types, OwnerType
  <1>2. UNCHANGED <<kind, model, client, cancelled, notified, cause, queue, final, work,
                    lease, slot, epoch, engine, outcome>>
    BY DEF Start, channel, worker, held, cache
  <1>3. owner[r].pc = "start"
    BY DEF Start, At
  <1>4. \/ kind[r] # "count" /\ owner' = [owner EXCEPT ![r] = [owner[r] EXCEPT !.pc = "answer", !.err = "ShuttingDown"]]
        \/ owner' = [owner EXCEPT ![r] = [owner[r] EXCEPT !.pc = "llm"]]
    BY <1>1 DEF Start
  <1>5. [owner[r] EXCEPT !.pc = "answer", !.err = "ShuttingDown"] \in Owner
    BY <1>1, OwnerPlaced DEF Places, Errors
  <1>6. [owner[r] EXCEPT !.pc = "llm"] \in Owner
    BY <1>1, OwnerPlaced DEF Places
  <1> QED BY <1>1, <1>2, <1>3, <1>4, <1>5, <1>6, OwnerPut DEF Types

\* What Lend does to its request.
LEMMA LendDoes ==
    ASSUME Types, NEW r \in Requests, Settled(r), Lend(r)
    PROVE  /\ UNCHANGED <<kind, model, client, cancelled, notified, cause, queue, final,
                          work, slot, epoch, outcome>>
           /\ owner[r].pc = "llm"
           /\ lease'[r] = engine'[model[r]].inst /\ lease'[r] # 0
           /\ \/ engine[model[r]].inst # 0 /\ engine' = engine
              \/ /\ engine[model[r]].inst = 0
                 /\ engine'[model[r]].loads = engine[model[r]].loads + 1
                 /\ engine'[model[r]].inst = engine[model[r]].loads + 1
           /\ OwnerType'
           /\ owner'[r] = [owner[r] EXCEPT !.pc = "health"]
  <1>1. owner[r] \in Owner
    BY DEF Types, OwnerType
  <1>2. UNCHANGED <<kind, model, client, cancelled, notified, cause, queue, final, work,
                    slot, epoch, outcome>>
    BY DEF Lend, channel, worker
  <1>3. owner[r].pc = "llm"
    BY DEF Lend, At
  <1>4. lease'[r] = engine'[model[r]].inst /\ lease'[r] # 0
    BY DEF Lend, Types, HeldType, CacheType, RestType
  <1>5. \/ engine[model[r]].inst # 0 /\ engine' = engine
        \/ /\ engine[model[r]].inst = 0
           /\ engine'[model[r]].loads = engine[model[r]].loads + 1
           /\ engine'[model[r]].inst = engine[model[r]].loads + 1
    BY DEF Lend, Types, CacheType, RestType
  <1>6. owner' = [owner EXCEPT ![r] = [owner[r] EXCEPT !.pc = "health"]]
    BY <1>1 DEF Lend, Goto
  <1>7. [owner[r] EXCEPT !.pc = "health"] \in Owner
    BY <1>1, OwnerPlaced DEF Places
  <1> QED BY <1>1, <1>2, <1>3, <1>4, <1>5, <1>6, <1>7, OwnerPut DEF Types

\* What LoadFails does to its request.
LEMMA LoadFailsDoes ==
    ASSUME Types, NEW r \in Requests, Settled(r), LoadFails(r)
    PROVE  /\ UNCHANGED <<kind, model, client, cancelled, notified, cause, queue, final,
                          work, lease, slot, epoch, engine, outcome>>
           /\ owner[r].pc = "llm"
           /\ OwnerType'
           /\ owner'[r] = [owner[r] EXCEPT !.pc = "answer", !.err = "Internal"]
  <1>1. owner[r] \in Owner
    BY DEF Types, OwnerType
  <1>2. UNCHANGED <<kind, model, client, cancelled, notified, cause, queue, final, work,
                    lease, slot, epoch, engine, outcome>>
    BY DEF LoadFails, channel, worker, held, cache
  <1>3. owner[r].pc = "llm"
    BY DEF LoadFails, At
  <1>4. owner' = [owner EXCEPT ![r] = [owner[r] EXCEPT !.pc = "answer", !.err = "Internal"]]
    BY <1>1 DEF LoadFails
  <1>5. [owner[r] EXCEPT !.pc = "answer", !.err = "Internal"] \in Owner
    BY <1>1, OwnerPlaced DEF Places, Errors
  <1> QED BY <1>1, <1>2, <1>3, <1>4, <1>5, OwnerPut DEF Types

\* What CheckHealth does to its request.
LEMMA CheckHealthDoes ==
    ASSUME Types, NEW r \in Requests, Settled(r), CheckHealth(r)
    PROVE  /\ UNCHANGED <<kind, model, client, cancelled, notified, cause, queue, final,
                          work, slot, epoch, engine, outcome>>
           /\ owner[r].pc = "health"
           /\ OwnerType'
           /\ \/ lease' = lease /\ owner'[r] = [owner[r] EXCEPT !.pc = IF kind[r] = "count" THEN "slot" ELSE "reserve"]
              \/ lease'[r] = 0 /\ owner'[r] = [owner[r] EXCEPT !.pc = "reload"]
  <1>1. owner[r] \in Owner
    BY DEF Types, OwnerType
  <1>2. UNCHANGED <<kind, model, client, cancelled, notified, cause, queue, final, work,
                    slot, epoch, engine, outcome>>
    BY DEF CheckHealth, channel, worker
  <1>3. owner[r].pc = "health"
    BY DEF CheckHealth, At
  <1>4. \/ lease' = lease /\ owner' = [owner EXCEPT ![r] = [owner[r] EXCEPT !.pc = IF kind[r] = "count" THEN "slot" ELSE "reserve"]]
        \/ lease'[r] = 0 /\ owner' = [owner EXCEPT ![r] = [owner[r] EXCEPT !.pc = "reload"]]
    BY <1>1 DEF CheckHealth, Goto, Types, HeldType
  <1>5. [owner[r] EXCEPT !.pc = IF kind[r] = "count" THEN "slot" ELSE "reserve"] \in Owner
    BY <1>1, OwnerPlaced DEF Places
  <1>6. [owner[r] EXCEPT !.pc = "reload"] \in Owner
    BY <1>1, OwnerPlaced DEF Places
  <1> QED BY <1>1, <1>2, <1>3, <1>4, <1>5, <1>6, OwnerPut DEF Types

\* What Reloaded does to its request.
LEMMA ReloadedDoes ==
    ASSUME Types, NEW r \in Requests, Settled(r), Reloaded(r)
    PROVE  /\ UNCHANGED <<kind, model, client, cancelled, notified, cause, queue, final,
                          work, lease, slot, epoch, outcome>>
           /\ owner[r].pc = "reload"
           /\ lease[r] = 0
           /\ engine'[model[r]].inst = 0 /\ engine'[model[r]].loads = engine[model[r]].loads
           /\ OwnerType'
           /\ \/ owner'[r] = [owner[r] EXCEPT !.pc = "answer", !.err = "Internal"]
              \/ owner'[r] = [owner[r] EXCEPT !.pc = "llm", !.tries = 1]
  <1>1. owner[r] \in Owner
    BY DEF Types, OwnerType
  <1>2. UNCHANGED <<kind, model, client, cancelled, notified, cause, queue, final, work,
                    lease, slot, epoch, outcome>>
    BY DEF Reloaded, channel, worker, held
  <1>3. owner[r].pc = "reload"
    BY DEF Reloaded, At
  <1>4. lease[r] = 0
    BY DEF Reloaded, Unloaded, Lenders, OnModel
  <1>5. engine'[model[r]].inst = 0 /\ engine'[model[r]].loads = engine[model[r]].loads
    BY DEF Reloaded, Unloaded, Types, CacheType, RestType
  <1>6. \/ owner' = [owner EXCEPT ![r] = [owner[r] EXCEPT !.pc = "answer", !.err = "Internal"]]
        \/ owner' = [owner EXCEPT ![r] = [owner[r] EXCEPT !.pc = "llm", !.tries = 1]]
    BY <1>1 DEF Reloaded
  <1>7. [owner[r] EXCEPT !.pc = "answer", !.err = "Internal"] \in Owner
    BY <1>1, OwnerPlaced DEF Places, Errors
  <1>8. [owner[r] EXCEPT !.pc = "llm", !.tries = 1] \in Owner
    BY <1>1 DEF Owner, Places
  <1> QED BY <1>1, <1>2, <1>3, <1>4, <1>5, <1>6, <1>7, <1>8, OwnerPut DEF Types

\* What Reserve does to its request.
LEMMA ReserveDoes ==
    ASSUME Types, NEW r \in Requests, Settled(r), Reserve(r)
    PROVE  /\ UNCHANGED <<kind, model, client, cancelled, notified, cause, queue, final,
                          lease, slot, epoch, engine, outcome>>
           /\ owner[r].pc = "reserve"
           /\ work'[r] = "reserved"
           /\ OwnerType'
           /\ owner'[r] = [owner[r] EXCEPT !.pc = "slot"]
  <1>1. owner[r] \in Owner
    BY DEF Types, OwnerType
  <1>2. UNCHANGED <<kind, model, client, cancelled, notified, cause, queue, final, lease,
                    slot, epoch, engine, outcome>>
    BY DEF Reserve, channel, held, cache
  <1>3. owner[r].pc = "reserve"
    BY DEF Reserve, At
  <1>4. work'[r] = "reserved"
    BY DEF Reserve, Types, WorkerType
  <1>5. owner' = [owner EXCEPT ![r] = [owner[r] EXCEPT !.pc = "slot"]]
    BY <1>1 DEF Reserve, Goto
  <1>6. [owner[r] EXCEPT !.pc = "slot"] \in Owner
    BY <1>1, OwnerPlaced DEF Places
  <1> QED BY <1>1, <1>2, <1>3, <1>4, <1>5, <1>6, OwnerPut DEF Types

\* What ReserveFails does to its request.
LEMMA ReserveFailsDoes ==
    ASSUME Types, NEW r \in Requests, Settled(r), ReserveFails(r)
    PROVE  /\ UNCHANGED <<kind, model, client, cancelled, notified, cause, queue, final,
                          work, engine, outcome>>
           /\ owner[r].pc = "reserve"
           /\ lease'[r] = 0 /\ slot'[r] = FALSE /\ epoch'[r] = FALSE
           /\ OwnerType'
           /\ owner'[r] = [owner[r] EXCEPT !.pc = "answer", !.err = "Core"]
  <1>1. owner[r] \in Owner
    BY DEF Types, OwnerType
  <1>2. UNCHANGED <<kind, model, client, cancelled, notified, cause, queue, final, work,
                    engine, outcome>>
    BY DEF ReserveFails, channel, worker, cache
  <1>3. owner[r].pc = "reserve"
    BY DEF ReserveFails, At
  <1>4. lease'[r] = 0 /\ slot'[r] = FALSE /\ epoch'[r] = FALSE
    BY DEF ReserveFails, DropActive, Types, HeldType
  <1>5. owner' = [owner EXCEPT ![r] = [owner[r] EXCEPT !.pc = "answer", !.err = "Core"]]
    BY <1>1 DEF ReserveFails
  <1>6. [owner[r] EXCEPT !.pc = "answer", !.err = "Core"] \in Owner
    BY <1>1, OwnerPlaced DEF Places, Errors
  <1> QED BY <1>1, <1>2, <1>3, <1>4, <1>5, <1>6, OwnerPut DEF Types

\* What AcquireSlot does to its request.
LEMMA AcquireSlotDoes ==
    ASSUME Types, NEW r \in Requests, Settled(r), AcquireSlot(r)
    PROVE  /\ UNCHANGED <<kind, model, client, cancelled, notified, cause, queue, final,
                          lease, epoch, engine, outcome>>
           /\ owner[r].pc = "slot"
           /\ slot'[r] = TRUE
           /\ work'[r] = IF kind[r] = "count" THEN "running" ELSE work[r]
           /\ OwnerType'
           /\ owner'[r] = [owner[r] EXCEPT !.pc = IF kind[r] = "count" THEN "counting" ELSE "epoch"]
  <1>1. owner[r] \in Owner
    BY DEF Types, OwnerType
  <1>2. UNCHANGED <<kind, model, client, cancelled, notified, cause, queue, final, lease,
                    epoch, engine, outcome>>
    BY DEF AcquireSlot, channel, cache
  <1>3. owner[r].pc = "slot"
    BY DEF AcquireSlot, At
  <1>4. slot'[r] = TRUE
    BY DEF AcquireSlot, Types, HeldType
  <1>5. work'[r] = IF kind[r] = "count" THEN "running" ELSE work[r]
    BY DEF AcquireSlot, Types, WorkerType
  <1>6. owner' = [owner EXCEPT ![r] = [owner[r] EXCEPT !.pc = IF kind[r] = "count" THEN "counting" ELSE "epoch"]]
    BY <1>1 DEF AcquireSlot, Goto
  <1>7. [owner[r] EXCEPT !.pc = IF kind[r] = "count" THEN "counting" ELSE "epoch"] \in Owner
    BY <1>1, OwnerPlaced DEF Places
  <1> QED BY <1>1, <1>2, <1>3, <1>4, <1>5, <1>6, <1>7, OwnerPut DEF Types

\* What AcquireEpoch does to its request.
LEMMA AcquireEpochDoes ==
    ASSUME Types, NEW r \in Requests, Settled(r), AcquireEpoch(r)
    PROVE  /\ UNCHANGED <<kind, model, client, cancelled, notified, cause, queue, final,
                          work, lease, slot, engine, outcome>>
           /\ owner[r].pc = "epoch"
           /\ epoch'[r] = TRUE
           /\ OwnerType'
           /\ owner'[r] = [owner[r] EXCEPT !.pc = "check"]
  <1>1. owner[r] \in Owner
    BY DEF Types, OwnerType
  <1>2. UNCHANGED <<kind, model, client, cancelled, notified, cause, queue, final, work,
                    lease, slot, engine, outcome>>
    BY DEF AcquireEpoch, channel, worker, cache
  <1>3. owner[r].pc = "epoch"
    BY DEF AcquireEpoch, At
  <1>4. epoch'[r] = TRUE
    BY DEF AcquireEpoch, Types, HeldType
  <1>5. owner' = [owner EXCEPT ![r] = [owner[r] EXCEPT !.pc = "check"]]
    BY <1>1 DEF AcquireEpoch, Goto
  <1>6. [owner[r] EXCEPT !.pc = "check"] \in Owner
    BY <1>1, OwnerPlaced DEF Places
  <1> QED BY <1>1, <1>2, <1>3, <1>4, <1>5, <1>6, OwnerPut DEF Types

\* What AdmissionInterrupted does to its request.
LEMMA AdmissionInterruptedDoes ==
    ASSUME Types, NEW r \in Requests, NEW e \in Errors, Settled(r), AdmissionInterrupted(r, e)
    PROVE  /\ UNCHANGED <<kind, model, client, cancelled, cause, queue, final, engine,
                          outcome>>
           /\ owner[r].pc = "llm" \/ owner[r].pc = "reload" \/ owner[r].pc = "reserve"
                  \/ owner[r].pc = "slot" \/ owner[r].pc = "epoch"
           /\ lease'[r] = 0 /\ slot'[r] = FALSE /\ epoch'[r] = FALSE
           /\ \/ notified' = notified /\ e # "Cancelled"
              \/ notified'[r] = FALSE /\ notified[r] /\ e = "Cancelled"
           /\ OwnerType'
           /\ \/ kind[r] = "choice" /\ work' = work
                     /\ owner'[r] = [owner[r] EXCEPT !.pc = "ack", !.err = e, !.after = "answer"]
              \/ work'[r] = "none" /\ owner'[r] = [owner[r] EXCEPT !.pc = "answer", !.err = e, !.after = "answer"]
  <1>1. owner[r] \in Owner
    BY DEF Types, OwnerType
  <1>2. UNCHANGED <<kind, model, client, cancelled, cause, queue, final, engine, outcome>>
    BY DEF AdmissionInterrupted, channel
  <1>3. owner[r].pc = "llm" \/ owner[r].pc = "reload" \/ owner[r].pc = "reserve"
            \/ owner[r].pc = "slot" \/ owner[r].pc = "epoch"
    BY DEF AdmissionInterrupted, Admitting
  <1>4. lease'[r] = 0 /\ slot'[r] = FALSE /\ epoch'[r] = FALSE
    BY DEF AdmissionInterrupted, DropActive, Types, HeldType
  <1>5. \/ notified' = notified /\ e # "Cancelled"
        \/ notified'[r] = FALSE /\ notified[r] /\ e = "Cancelled"
    BY DEF AdmissionInterrupted, Interrupt, Types, ClientType
  <1>6. \/ kind[r] = "choice" /\ work' = work
               /\ owner' = [owner EXCEPT ![r] = [owner[r] EXCEPT !.pc = "ack", !.err = e,
                      !.after = "answer"]]
        \/ work'[r] = "none" /\ owner' = [owner EXCEPT ![r] = [owner[r] EXCEPT !.pc = "answer", !.err = e, !.after = "answer"]]
    BY <1>1 DEF AdmissionInterrupted, Types, WorkerType
  <1>7. [owner[r] EXCEPT !.pc = "ack", !.err = e, !.after = "answer"] \in Owner
    BY <1>1, OwnerPlaced DEF Places
  <1>8. [owner[r] EXCEPT !.pc = "answer", !.err = e, !.after = "answer"] \in Owner
    BY <1>1, OwnerPlaced DEF Places
  <1> QED BY <1>1, <1>2, <1>3, <1>4, <1>5, <1>6, <1>7, <1>8, OwnerPut DEF Types

\* What BeginCommit does to its request.
LEMMA BeginCommitDoes ==
    ASSUME Types, NEW r \in Requests, Settled(r), BeginCommit(r)
    PROVE  /\ UNCHANGED <<kind, model, client, cancelled, notified, cause, queue, final,
                          lease, slot, epoch, engine, outcome>>
           /\ owner[r].pc = "check"
           /\ work'[r] = "preparing"
           /\ OwnerType'
           /\ owner'[r] = [owner[r] EXCEPT !.pc = "commit"]
  <1>1. owner[r] \in Owner
    BY DEF Types, OwnerType
  <1>2. UNCHANGED <<kind, model, client, cancelled, notified, cause, queue, final, lease,
                    slot, epoch, engine, outcome>>
    BY DEF BeginCommit, channel, held, cache
  <1>3. owner[r].pc = "check"
    BY DEF BeginCommit, At
  <1>4. work'[r] = "preparing"
    BY DEF BeginCommit, Types, WorkerType
  <1>5. owner' = [owner EXCEPT ![r] = [owner[r] EXCEPT !.pc = "commit"]]
    BY <1>1 DEF BeginCommit, Goto
  <1>6. [owner[r] EXCEPT !.pc = "commit"] \in Owner
    BY <1>1, OwnerPlaced DEF Places
  <1> QED BY <1>1, <1>2, <1>3, <1>4, <1>5, <1>6, OwnerPut DEF Types

\* What Committed does to its request.
LEMMA CommittedDoes ==
    ASSUME Types, NEW r \in Requests, Settled(r), Committed(r)
    PROVE  /\ UNCHANGED <<kind, model, client, cancelled, notified, cause, queue, final,
                          lease, slot, epoch, engine, outcome>>
           /\ owner[r].pc = "commit"
           /\ work'[r] = "running"
           /\ OwnerType'
           /\ owner'[r] = [owner[r] EXCEPT !.pc = IF kind[r] = "embed" THEN "next" ELSE "ready"]
  <1>1. owner[r] \in Owner
    BY DEF Types, OwnerType
  <1>2. UNCHANGED <<kind, model, client, cancelled, notified, cause, queue, final, lease,
                    slot, epoch, engine, outcome>>
    BY DEF Committed, channel, held, cache
  <1>3. owner[r].pc = "commit"
    BY DEF Committed, At
  <1>4. work'[r] = "running"
    BY DEF Committed, Types, WorkerType
  <1>5. owner' = [owner EXCEPT ![r] = [owner[r] EXCEPT !.pc = IF kind[r] = "embed" THEN "next" ELSE "ready"]]
    BY <1>1 DEF Committed, Goto
  <1>6. [owner[r] EXCEPT !.pc = IF kind[r] = "embed" THEN "next" ELSE "ready"] \in Owner
    BY <1>1, OwnerPlaced DEF Places
  <1> QED BY <1>1, <1>2, <1>3, <1>4, <1>5, <1>6, OwnerPut DEF Types

\* What CommitFails does to its request.
LEMMA CommitFailsDoes ==
    ASSUME Types, NEW r \in Requests, Settled(r), CommitFails(r)
    PROVE  /\ UNCHANGED <<kind, model, client, cancelled, notified, cause, queue, final,
                          lease, slot, epoch, engine, outcome>>
           /\ owner[r].pc = "commit"
           /\ work'[r] = "none"
           /\ OwnerType'
           /\ owner'[r] = [owner[r] EXCEPT !.pc = "retire", !.err = "Core", !.after = "answer"]
  <1>1. owner[r] \in Owner
    BY DEF Types, OwnerType
  <1>2. UNCHANGED <<kind, model, client, cancelled, notified, cause, queue, final, lease,
                    slot, epoch, engine, outcome>>
    BY DEF CommitFails, channel, held, cache
  <1>3. owner[r].pc = "commit"
    BY DEF CommitFails, At
  <1>4. work'[r] = "none"
    BY DEF CommitFails, Types, WorkerType
  <1>5. owner' = [owner EXCEPT ![r] = [owner[r] EXCEPT !.pc = "retire", !.err = "Core",
            !.after = "answer"]]
    BY <1>1 DEF CommitFails
  <1>6. [owner[r] EXCEPT !.pc = "retire", !.err = "Core", !.after = "answer"] \in Owner
    BY <1>1, OwnerPlaced DEF Places, Errors
  <1> QED BY <1>1, <1>2, <1>3, <1>4, <1>5, <1>6, OwnerPut DEF Types

\* What CommitInterrupted does to its request.
LEMMA CommitInterruptedDoes ==
    ASSUME Types, NEW r \in Requests, NEW e \in Errors, Settled(r), CommitInterrupted(r, e)
    PROVE  /\ UNCHANGED <<kind, model, client, cancelled, cause, queue, final, lease, slot,
                          epoch, engine, outcome>>
           /\ owner[r].pc = "commit"
           /\ work'[r] \in {"preparing", "adrift"}
           /\ \/ notified' = notified /\ e # "Cancelled"
              \/ notified'[r] = FALSE /\ notified[r] /\ e = "Cancelled"
           /\ OwnerType'
           /\ owner'[r] = [owner[r] EXCEPT !.pc = "ack", !.err = e, !.after = "answer"]
  <1>1. owner[r] \in Owner
    BY DEF Types, OwnerType
  <1>2. UNCHANGED <<kind, model, client, cancelled, cause, queue, final, lease, slot, epoch,
                    engine, outcome>>
    BY DEF CommitInterrupted, channel, held, cache
  <1>3. owner[r].pc = "commit"
    BY DEF CommitInterrupted, At
  <1>4. work'[r] \in {"preparing", "adrift"}
    BY DEF CommitInterrupted, Types, WorkerType
  <1>5. \/ notified' = notified /\ e # "Cancelled"
        \/ notified'[r] = FALSE /\ notified[r] /\ e = "Cancelled"
    BY DEF CommitInterrupted, Interrupt, Types, ClientType
  <1>6. owner' = [owner EXCEPT ![r] = [owner[r] EXCEPT !.pc = "ack", !.err = e,
            !.after = "answer"]]
    BY <1>1 DEF CommitInterrupted
  <1>7. [owner[r] EXCEPT !.pc = "ack", !.err = e, !.after = "answer"] \in Owner
    BY <1>1, OwnerPlaced DEF Places
  <1> QED BY <1>1, <1>2, <1>3, <1>4, <1>5, <1>6, <1>7, OwnerPut DEF Types

\* What SendReady does to its request.
LEMMA SendReadyDoes ==
    ASSUME Types, NEW r \in Requests, Settled(r), SendReady(r)
    PROVE  /\ UNCHANGED <<kind, model, cancelled, notified, cause, queue, final, work, lease,
                          slot, epoch, engine, outcome>>
           /\ owner[r].pc = "ready"
           /\ OwnerType'
           /\ \/ client[r].st = "waiting"
                     /\ client'[r] = [client[r] EXCEPT !.st = "holding"]
                            /\ owner'[r] = [owner[r] EXCEPT !.pc = IF kind[r] = "choice" THEN "top" ELSE "next"]
              \/ client' = client /\ client[r].st # "waiting"
                     /\ owner'[r] = [owner[r] EXCEPT !.pc = "ack", !.after = "quit"]
  <1>1. owner[r] \in Owner
    BY DEF Types, OwnerType
  <1>2. UNCHANGED <<kind, model, cancelled, notified, cause, queue, final, work, lease, slot,
                    epoch, engine, outcome>>
    BY DEF SendReady, channel, held, cache
  <1>3. owner[r].pc = "ready"
    BY DEF SendReady, At
  <1>4. \/ client[r].st = "waiting" /\ client'[r] = [client[r] EXCEPT !.st = "holding"]
               /\ owner' = [owner EXCEPT ![r] = [owner[r] EXCEPT !.pc = IF kind[r] = "choice" THEN "top" ELSE "next"]]
        \/ client' = client /\ client[r].st # "waiting"
               /\ owner' = [owner EXCEPT ![r] = [owner[r] EXCEPT !.pc = "ack", !.after = "quit"]]
    BY <1>1 DEF SendReady, Goto, Types, ClientType
  <1>5. [owner[r] EXCEPT !.pc = IF kind[r] = "choice" THEN "top" ELSE "next"] \in Owner
    BY <1>1, OwnerPlaced DEF Places
  <1>6. [owner[r] EXCEPT !.pc = "ack", !.after = "quit"] \in Owner
    BY <1>1, OwnerPlaced DEF Places
  <1> QED BY <1>1, <1>2, <1>3, <1>4, <1>5, <1>6, OwnerPut DEF Types

\* What Top does to its request.
LEMMA TopDoes ==
    ASSUME Types, NEW r \in Requests, Settled(r), Top(r)
    PROVE  /\ UNCHANGED <<kind, model, client, cancelled, notified, cause, queue, final,
                          work, lease, slot, epoch, engine, outcome>>
           /\ owner[r].pc = "top"
           /\ OwnerType'
           /\ owner'[r] = [owner[r] EXCEPT !.pc = "next", !.connected = owner[r].connected
                  /\ ~cancelled[r]]
  <1>1. owner[r] \in Owner
    BY DEF Types, OwnerType
  <1>2. UNCHANGED <<kind, model, client, cancelled, notified, cause, queue, final, work,
                    lease, slot, epoch, engine, outcome>>
    BY DEF Top, channel, held, cache
  <1>3. owner[r].pc = "top"
    BY DEF Top, At
  <1>4. owner' = [owner EXCEPT ![r] = [owner[r] EXCEPT !.pc = "next",
            !.connected = owner[r].connected /\ ~cancelled[r]]]
    BY <1>1 DEF Top
  <1>5. [owner[r] EXCEPT !.pc = "next", !.connected = owner[r].connected
            /\ ~cancelled[r]] \in Owner
    <2> DEFINE c == owner[r].connected /\ ~cancelled[r]
    <2>1. "next" \in Places /\ c \in BOOLEAN
      BY DEF Places
    <2> HIDE DEF c
    <2>2. [owner[r] EXCEPT !.pc = "next", !.connected = c] \in Owner
      BY <1>1, <2>1 DEF Owner
    <2> QED BY <2>2 DEF c
  <1> QED BY <1>1, <1>2, <1>3, <1>4, <1>5, OwnerPut DEF Types

\* What CountInterrupted does to its request.
LEMMA CountInterruptedDoes ==
    ASSUME Types, NEW r \in Requests, NEW e \in Errors, Settled(r), CountInterrupted(r, e)
    PROVE  /\ UNCHANGED <<kind, model, client, cancelled, cause, queue, final, work, lease,
                          slot, epoch, engine, outcome>>
           /\ owner[r].pc = "counting"
           /\ notified' = notified
           /\ OwnerType'
           /\ owner'[r] = [owner[r] EXCEPT !.pc = "answer", !.err = e]
  <1>1. owner[r] \in Owner
    BY DEF Types, OwnerType
  <1>2. UNCHANGED <<kind, model, client, cancelled, cause, queue, final, work, lease, slot,
                    epoch, engine, outcome>>
    BY DEF CountInterrupted, channel, worker, held, cache
  <1>3. owner[r].pc = "counting"
    BY DEF CountInterrupted, At
  <1>4. notified' = notified
    BY DEF CountInterrupted, Interrupt
  <1>5. owner' = [owner EXCEPT ![r] = [owner[r] EXCEPT !.pc = "answer", !.err = e]]
    BY <1>1 DEF CountInterrupted
  <1>6. [owner[r] EXCEPT !.pc = "answer", !.err = e] \in Owner
    BY <1>1, OwnerPlaced DEF Places
  <1> QED BY <1>1, <1>2, <1>3, <1>4, <1>5, <1>6, OwnerPut DEF Types

\* What Retire does to its request.
LEMMA RetireDoes ==
    ASSUME Types, NEW r \in Requests, Settled(r), Retire(r)
    PROVE  /\ UNCHANGED <<kind, model, client, cancelled, notified, cause, queue, final,
                          work, engine, outcome>>
           /\ owner[r].pc = "retire"
           /\ lease'[r] = 0 /\ slot'[r] = FALSE /\ epoch'[r] = FALSE
           /\ OwnerType'
           /\ \/ owner'[r] = [owner[r] EXCEPT !.pc = owner[r].after]
              \/ owner'[r] = [owner[r] EXCEPT !.pc = "unload", !.broken = lease[r]]
  <1>1. owner[r] \in Owner
    BY DEF Types, OwnerType
  <1>2. UNCHANGED <<kind, model, client, cancelled, notified, cause, queue, final, work,
                    engine, outcome>>
    BY DEF Retire, channel, worker
  <1>3. owner[r].pc = "retire"
    BY DEF Retire, At
  <1>4. lease'[r] = 0 /\ slot'[r] = FALSE /\ epoch'[r] = FALSE
    BY DEF Retire, DropActive, Types, HeldType
  <1>5. \/ owner' = [owner EXCEPT ![r] = [owner[r] EXCEPT !.pc = owner[r].after]]
        \/ owner' = [owner EXCEPT ![r] = [owner[r] EXCEPT !.pc = "unload", !.broken = lease[r]]]
    BY <1>1 DEF Retire, Goto
  <1>6. owner[r].after \in Places
    BY <1>3 DEF Settled, PlanStage, Places
  <1>7. [owner[r] EXCEPT !.pc = owner[r].after] \in Owner
    BY <1>1, <1>6 DEF Owner
  <1>8. lease[r] \in Nat
    BY DEF Types, HeldType
  <1>9. [owner[r] EXCEPT !.pc = "unload", !.broken = lease[r]] \in Owner
    BY <1>1, <1>8 DEF Owner, Places
  <1> QED BY <1>1, <1>2, <1>3, <1>4, <1>5, <1>7, <1>9, OwnerPut DEF Types

\* What Retired does to its request.
LEMMA RetiredDoes ==
    ASSUME Types, NEW r \in Requests, Settled(r), Retired(r)
    PROVE  /\ UNCHANGED <<kind, model, client, cancelled, notified, cause, queue, final,
                          work, lease, slot, epoch, outcome>>
           /\ owner[r].pc = "unload"
           /\ lease[r] = 0
           /\ engine'[model[r]].inst = 0 /\ engine'[model[r]].loads = engine[model[r]].loads
           /\ OwnerType'
           /\ owner'[r] = [owner[r] EXCEPT !.pc = owner[r].after]
  <1>1. owner[r] \in Owner
    BY DEF Types, OwnerType
  <1>2. UNCHANGED <<kind, model, client, cancelled, notified, cause, queue, final, work,
                    lease, slot, epoch, outcome>>
    BY DEF Retired, channel, worker, held
  <1>3. owner[r].pc = "unload"
    BY DEF Retired, At
  <1>4. lease[r] = 0
    BY DEF Retired, Unloaded, Lenders, OnModel
  <1>5. engine'[model[r]].inst = 0 /\ engine'[model[r]].loads = engine[model[r]].loads
    BY DEF Retired, Unloaded, Types, CacheType, RestType
  <1>6. owner' = [owner EXCEPT ![r] = [owner[r] EXCEPT !.pc = owner[r].after]]
    BY <1>1 DEF Retired, Goto
  <1>7. owner[r].after \in Places
    BY <1>3 DEF Settled, PlanStage, Places
  <1>8. [owner[r] EXCEPT !.pc = owner[r].after] \in Owner
    BY <1>1, <1>7 DEF Owner
  <1> QED BY <1>1, <1>2, <1>3, <1>4, <1>5, <1>6, <1>8, OwnerPut DEF Types

\* What WorkerAck does to its request.
LEMMA WorkerAckDoes ==
    ASSUME Types, NEW r \in Requests, Settled(r), WorkerAck(r)
    PROVE  /\ UNCHANGED <<kind, model, owner, client, cancelled, notified, cause, queue,
                          final, lease, slot, epoch, engine, outcome>>
           /\ work'[r] = "none"
           /\ owner[r].pc = "ack" \/ work[r] \in {"over", "adrift"}
  BY DEF WorkerAck, At, task, channel, held, cache, Types, WorkerType

\* What LeaveCount does to its request.
LEMMA LeaveCountDoes ==
    ASSUME Types, NEW r \in Requests, Settled(r), LeaveCount(r)
    PROVE  /\ UNCHANGED <<kind, model, cancelled, cause, queue, final, work, engine>>
           /\ kind[r] = "count"
           /\ client'[r] = [client[r] EXCEPT !.st = "gone"]
           /\ notified'[r] = FALSE
           /\ outcome'[r] = "Cancelled"
           /\ \/ owner[r].pc = "counting" /\ UNCHANGED <<lease, slot, epoch>>
              \/ /\ owner[r].pc \in {"llm", "reload", "reserve", "slot", "epoch"}
                 /\ lease'[r] = 0 /\ slot'[r] = FALSE /\ epoch'[r] = FALSE
           /\ OwnerType'
           /\ owner'[r] = [NewOwner EXCEPT !.pc = "done", !.broken = owner[r].broken]
  <1>1. owner[r] \in Owner
    BY DEF Types, OwnerType
  <1>2. UNCHANGED <<kind, model, cancelled, cause, queue, final, work, engine>>
    BY DEF LeaveCount, channel
  <1>3. kind[r] = "count"
    BY DEF LeaveCount
  <1>4. client'[r] = [client[r] EXCEPT !.st = "gone"]
    BY DEF LeaveCount, Types, ClientType
  <1>5. notified'[r] = FALSE
    BY DEF LeaveCount, Returns, Types, ClientType
  <1>6. outcome'[r] = "Cancelled"
    BY DEF LeaveCount, Ends, Types, RestType
  <1>7. \/ owner[r].pc = "counting" /\ UNCHANGED <<lease, slot, epoch>>
        \/ /\ owner[r].pc \in {"llm", "reload", "reserve", "slot", "epoch"}
           /\ lease'[r] = 0 /\ slot'[r] = FALSE /\ epoch'[r] = FALSE
    BY DEF LeaveCount, At, DropActive, Admitting, held, Types, HeldType
  <1>8. owner' = [owner EXCEPT ![r] = [NewOwner EXCEPT !.pc = "done", !.broken = owner[r].broken]]
    BY <1>1 DEF LeaveCount, Returns
  <1>9. [NewOwner EXCEPT !.pc = "done", !.broken = owner[r].broken] \in Owner
    BY <1>1 DEF Owner, Places, NewOwner
  <1> QED BY <1>1, <1>2, <1>3, <1>4, <1>5, <1>6, <1>7, <1>8, <1>9, OwnerPut DEF Types

\* What Counted does to its request.
LEMMA CountedDoes ==
    ASSUME Types, NEW r \in Requests, Settled(r), Counted(r)
    PROVE  /\ UNCHANGED <<kind, model, client, cancelled, notified, cause, queue, final,
                          engine, outcome>>
           /\ kind[r] = "count"
           /\ work'[r] = "none"
           /\ lease'[r] = 0 /\ slot'[r] = FALSE /\ epoch'[r] = FALSE
           /\ OwnerType'
           /\ \E x \in {"none", "Core"} :
              \/ owner[r].pc # "counting" /\ owner'[r] = owner[r]
              \/ owner[r].pc = "counting"
                     /\ owner'[r] = [owner[r] EXCEPT !.pc = "answer", !.err = x]
  <1>1. owner[r] \in Owner
    BY DEF Types, OwnerType
  <1>2. UNCHANGED <<kind, model, client, cancelled, notified, cause, queue, final, engine,
                    outcome>>
    BY DEF Counted, channel, cache
  <1>3. kind[r] = "count"
    BY DEF Counted, Counting
  <1>4. work'[r] = "none"
    BY DEF Counted, Types, WorkerType
  <1>5. lease'[r] = 0 /\ slot'[r] = FALSE /\ epoch'[r] = FALSE
    BY DEF Counted, DropActive, Types, HeldType
  <1>6. \E x \in {"none", "Core"} :
        \/ owner[r].pc # "counting" /\ owner' = [owner EXCEPT ![r] = owner[r]]
        \/ owner[r].pc = "counting"
               /\ owner' = [owner EXCEPT ![r] = [owner[r] EXCEPT !.pc = "answer", !.err = x]]
    <2>1. CASE owner[r].pc # "counting"
      <3>1. UNCHANGED owner
        BY <2>1 DEF Counted, At
      <3> QED BY <2>1, <3>1 DEF Types, OwnerType
    <2>2. CASE owner[r].pc = "counting"
      <3>1. PICK x \in {"none", "Core"} :
              owner' = [owner EXCEPT ![r].pc = "answer", ![r].err = x]
        BY <2>2 DEF Counted, At
      <3>2. owner' = [owner EXCEPT ![r] = [owner[r] EXCEPT !.pc = "answer", !.err = x]]
        BY <3>1 DEF Types, OwnerType
      <3> QED BY <2>2, <3>2
    <2> QED BY <2>1, <2>2
  <1>7. "answer" \in Places /\ {"none", "Core"} \subseteq Errors \cup {"none"}
    BY DEF Places, Errors
  <1>8. \A x \in {"none", "Core"} : [owner[r] EXCEPT !.pc = "answer", !.err = x] \in Owner
    BY <1>1, <1>7 DEF Owner
  <1> QED BY <1>1, <1>2, <1>3, <1>4, <1>5, <1>6, <1>8, OwnerPut DEF Types

\* What Answer does to its request.
LEMMA AnswerDoes ==
    ASSUME Types, NEW r \in Requests, Settled(r), Answer(r)
    PROVE  /\ UNCHANGED <<kind, model, cancelled, cause, queue, final, work, lease, slot,
                          epoch, engine>>
           /\ owner[r].pc = "answer"
           /\ notified'[r] = FALSE
           /\ \/ client[r].st # "waiting" /\ client' = client
              \/ client[r].st = "waiting" /\ client'[r] =
                    [st |-> "ended", got |-> IF owner[r].err = "none" THEN "all" ELSE "err"]
           /\ kind[r] \in {"chat", "choice"} => outcome'[r] = "Cancelled"
           /\ outcome'[r] = "Success" => owner[r].err = "none"
           /\ outcome'[r] # "active"
           /\ OwnerType'
           /\ owner'[r] = [NewOwner EXCEPT !.pc = "done", !.broken = owner[r].broken]
  <1>1. owner[r] \in Owner
    BY DEF Types, OwnerType
  <1>2. UNCHANGED <<kind, model, cancelled, cause, queue, final, work, lease, slot, epoch,
                    engine>>
    BY DEF Answer, channel, held, cache
  <1>3. owner[r].pc = "answer"
    BY DEF Answer, At
  <1>4. notified'[r] = FALSE
    BY DEF Answer, Returns, Types, ClientType
  <1>5. \/ client[r].st # "waiting" /\ client' = client
        \/ client[r].st = "waiting" /\ client'[r] =
              [st |-> "ended", got |-> IF owner[r].err = "none" THEN "all" ELSE "err"]
    BY DEF Answer, Types, ClientType
  <1>6. kind[r] \in {"chat", "choice"} => outcome'[r] = "Cancelled"
    BY DEF Answer, Ends, Types, RestType
  <1>7. outcome'[r] = "Success" => owner[r].err = "none"
    BY DEF Answer, Ends, ResultOutcome, Types, RestType
  <1>8. outcome'[r] # "active"
    BY DEF Answer, Ends, ResultOutcome, Types, RestType
  <1>9. owner' = [owner EXCEPT ![r] = [NewOwner EXCEPT !.pc = "done", !.broken = owner[r].broken]]
    BY <1>1 DEF Answer, Returns
  <1>10. [NewOwner EXCEPT !.pc = "done", !.broken = owner[r].broken] \in Owner
    BY <1>1 DEF Owner, Places, NewOwner
  <1> QED BY <1>1, <1>2, <1>3, <1>4, <1>5, <1>6, <1>7, <1>8, <1>9, <1>10, OwnerPut DEF Types

\* What Quit does to its request.
LEMMA QuitDoes ==
    ASSUME Types, NEW r \in Requests, Settled(r), Quit(r)
    PROVE  /\ UNCHANGED <<kind, model, client, cancelled, cause, queue, final, work, lease,
                          slot, epoch, engine>>
           /\ owner[r].pc = "quit"
           /\ notified'[r] = FALSE
           /\ outcome'[r] = "Cancelled"
           /\ OwnerType'
           /\ owner'[r] = [NewOwner EXCEPT !.pc = "done", !.broken = owner[r].broken]
  <1>1. owner[r] \in Owner
    BY DEF Types, OwnerType
  <1>2. UNCHANGED <<kind, model, client, cancelled, cause, queue, final, work, lease, slot,
                    epoch, engine>>
    BY DEF Quit, channel, held, cache
  <1>3. owner[r].pc = "quit"
    BY DEF Quit, At
  <1>4. notified'[r] = FALSE
    BY DEF Quit, Returns, Types, ClientType
  <1>5. outcome'[r] = "Cancelled"
    BY DEF Quit, Ends, Types, RestType
  <1>6. owner' = [owner EXCEPT ![r] = [NewOwner EXCEPT !.pc = "done", !.broken = owner[r].broken]]
    BY <1>1 DEF Quit, Returns
  <1>7. [NewOwner EXCEPT !.pc = "done", !.broken = owner[r].broken] \in Owner
    BY <1>1 DEF Owner, Places, NewOwner
  <1> QED BY <1>1, <1>2, <1>3, <1>4, <1>5, <1>6, <1>7, OwnerPut DEF Types

\* What DeliverChat does to its request.
LEMMA DeliverChatDoes ==
    ASSUME Types, NEW r \in Requests, Settled(r), DeliverChat(r)
    PROVE  /\ UNCHANGED <<kind, model, client, cancelled, cause, queue, work, lease, slot,
                          epoch, engine>>
           /\ owner[r].pc = "deliver"
           /\ kind[r] = "chat"
           /\ notified'[r] = FALSE
           /\ final'[r] # "open"
           /\ owner[r].connected /\ (owner[r].terminal \/ owner[r].err # "none") =>
                 /\ final'[r] \in {"err", "all"}
                 /\ (final'[r] = "all" <=> outcome'[r] = "Success")
           /\ outcome'[r] \in {"Success", "ServerError"}
           /\ OwnerType'
           /\ owner'[r] = [NewOwner EXCEPT !.pc = "done", !.broken = owner[r].broken]
  <1>1. owner[r] \in Owner
    BY DEF Types, OwnerType
  <1>2. UNCHANGED <<kind, model, client, cancelled, cause, queue, work, lease, slot, epoch,
                    engine>>
    BY DEF DeliverChat, held, cache
  <1>3. owner[r].pc = "deliver"
    BY DEF DeliverChat, At
  <1>4. kind[r] = "chat"
    BY DEF DeliverChat
  <1>5. notified'[r] = FALSE
    BY DEF DeliverChat, Returns, Types, ClientType
  <1>6. final'[r] # "open"
    BY DEF DeliverChat, Types, ChannelType
  <1>7. owner[r].connected /\ (owner[r].terminal \/ owner[r].err # "none") =>
           /\ final'[r] \in {"err", "all"}
           /\ (final'[r] = "all" <=> outcome'[r] = "Success")
    BY DEF DeliverChat, Ends, Types, ChannelType, RestType
  <1>8. outcome'[r] \in {"Success", "ServerError"}
    BY DEF DeliverChat, Ends, Types, RestType
  <1>9. owner' = [owner EXCEPT ![r] = [NewOwner EXCEPT !.pc = "done", !.broken = owner[r].broken]]
    BY <1>1 DEF DeliverChat, Returns
  <1>10. [NewOwner EXCEPT !.pc = "done", !.broken = owner[r].broken] \in Owner
    BY <1>1 DEF Owner, Places, NewOwner
  <1> QED BY <1>1, <1>2, <1>3, <1>4, <1>5, <1>6, <1>7, <1>8, <1>9, <1>10, OwnerPut DEF Types

\* What DeliverChoice does to its request.
LEMMA DeliverChoiceDoes ==
    ASSUME Types, NEW r \in Requests, Settled(r), DeliverChoice(r)
    PROVE  /\ UNCHANGED <<kind, model, client, cancelled, cause, work, lease, slot, epoch,
                          engine>>
           /\ owner[r].pc = "deliver"
           /\ kind[r] = "choice"
           /\ notified'[r] = FALSE
           /\ final'[r] = "dropped"
           /\ queue' = queue \/ queue'[r] = Append(queue[r], "err")
           /\ outcome'[r] = "Success" => owner[r].terminal /\ ~owner[r].failed
                  /\ owner[r].connected
           /\ outcome'[r] # "active"
           /\ OwnerType'
           /\ owner'[r] = [NewOwner EXCEPT !.pc = "done", !.broken = owner[r].broken]
  <1>1. owner[r] \in Owner
    BY DEF Types, OwnerType
  <1>2. UNCHANGED <<kind, model, client, cancelled, cause, work, lease, slot, epoch, engine>>
    BY DEF DeliverChoice, held, cache
  <1>3. owner[r].pc = "deliver"
    BY DEF DeliverChoice, At
  <1>4. kind[r] = "choice"
    BY DEF DeliverChoice
  <1>5. notified'[r] = FALSE
    BY DEF DeliverChoice, Returns, Types, ClientType
  <1>6. final'[r] = "dropped"
    BY DEF DeliverChoice, Types, ChannelType
  <1>7. queue' = queue \/ queue'[r] = Append(queue[r], "err")
    BY DEF DeliverChoice, Types, ChannelType
  <1>8. outcome'[r] = "Success" => owner[r].terminal /\ ~owner[r].failed /\ owner[r].connected
    BY DEF DeliverChoice, Ends, ChoiceOutcome, ResultOutcome, CauseOutcome, Succeeded, Types,
           RestType
  <1>9. outcome'[r] # "active"
    BY DEF DeliverChoice, Ends, ChoiceOutcome, ResultOutcome, CauseOutcome, Types, RestType
  <1>10. owner' = [owner EXCEPT ![r] = [NewOwner EXCEPT !.pc = "done",
             !.broken = owner[r].broken]]
    BY <1>1 DEF DeliverChoice, Returns
  <1>11. [NewOwner EXCEPT !.pc = "done", !.broken = owner[r].broken] \in Owner
    BY <1>1 DEF Owner, Places, NewOwner
  <1> QED BY <1>1, <1>2, <1>3, <1>4, <1>5, <1>6, <1>7, <1>8, <1>9, <1>10, <1>11,
                 OwnerPut DEF Types

\* What DeliverEmbedding does to its request.
LEMMA DeliverEmbeddingDoes ==
    ASSUME Types, NEW r \in Requests, Settled(r), DeliverEmbedding(r)
    PROVE  /\ UNCHANGED <<kind, model, client, cancelled, notified, cause, queue, final,
                          work, lease, slot, epoch, engine, outcome>>
           /\ owner[r].pc = "deliver"
           /\ kind[r] = "embed"
           /\ OwnerType'
           /\ owner'[r] = [owner[r] EXCEPT !.pc = "answer"]
  <1>1. owner[r] \in Owner
    BY DEF Types, OwnerType
  <1>2. UNCHANGED <<kind, model, client, cancelled, notified, cause, queue, final, work,
                    lease, slot, epoch, engine, outcome>>
    BY DEF DeliverEmbedding, channel, worker, held, cache
  <1>3. owner[r].pc = "deliver"
    BY DEF DeliverEmbedding, At
  <1>4. kind[r] = "embed"
    BY DEF DeliverEmbedding
  <1>5. owner' = [owner EXCEPT ![r] = [owner[r] EXCEPT !.pc = "answer"]]
    BY <1>1 DEF DeliverEmbedding, Goto
  <1>6. [owner[r] EXCEPT !.pc = "answer"] \in Owner
    BY <1>1, OwnerPlaced DEF Places
  <1> QED BY <1>1, <1>2, <1>3, <1>4, <1>5, <1>6, OwnerPut DEF Types

\* What ClientCancel does to its request.
LEMMA ClientCancelDoes ==
    ASSUME Types, NEW r \in Requests, NEW c \in {"client", "buffer"}, Settled(r),
        ClientCancel(r, c)
    PROVE  /\ UNCHANGED <<kind, model, owner, client, queue, final, work, lease, slot, epoch,
                          engine, outcome>>
           /\ client[r].st = "holding"
           /\ cancelled[r] => cancelled'[r]
           /\ cancelled'[r] \/ cause[r] # "none"
           /\ notified'[r] => notified[r] \/ cancelled'[r]
  BY DEF ClientCancel, CancelWith, channel, worker, held, cache, Types, ClientType

\* What ClientDrop does to its request.
LEMMA ClientDropDoes ==
    ASSUME Types, NEW r \in Requests, Settled(r), ClientDrop(r)
    PROVE  /\ UNCHANGED <<kind, model, owner, final, work, lease, slot, epoch, engine,
                          outcome>>
           /\ client[r].st = "holding" /\ client'[r] = [client[r] EXCEPT !.st = "gone"]
           /\ cancelled[r] => cancelled'[r]
           /\ cancelled'[r] \/ cause[r] # "none"
           /\ notified'[r] => notified[r] \/ cancelled'[r]
  BY DEF ClientDrop, CancelWith, worker, held, cache, Types, ClientType

\* What ClientRecv does to its request.
LEMMA ClientRecvDoes ==
    ASSUME Types, NEW r \in Requests, Settled(r), ClientRecv(r)
    PROVE  /\ UNCHANGED <<kind, model, owner, cancelled, notified, cause, final, work, lease,
                          slot, epoch, engine, outcome>>
           /\ client[r].st = "holding" /\ queue[r] # <<>> /\ queue'[r] = Tail(queue[r])
           /\ client'[r] = [client[r] EXCEPT !.got = IF client[r].got = "all" THEN "all" ELSE Head(queue[r])]
  BY DEF ClientRecv, worker, held, cache, Types, ClientType, ChannelType

\* What ClientEnd does to its request.
LEMMA ClientEndDoes ==
    ASSUME Types, NEW r \in Requests, Settled(r), ClientEnd(r)
    PROVE  /\ UNCHANGED <<kind, model, owner, cancelled, notified, cause, queue, final, work,
                          lease, slot, epoch, engine, outcome>>
           /\ client[r].st = "holding" /\ queue[r] = <<>> /\ final[r] # "open"
           /\ client'[r] = [st |-> "ended", got |-> IF final[r] # "dropped" THEN final[r]
                        ELSE IF kind[r] = "chat" THEN "ownerlost" ELSE client[r].got]
  BY DEF ClientEnd, channel, worker, held, cache, Types, ClientType
=============================================================================
