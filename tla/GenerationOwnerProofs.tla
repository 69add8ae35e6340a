------------------------ MODULE GenerationOwnerProofs -----------------------
(***************************************************************************)
(* Proofs about GenerationOwner.  The inductive invariant, IInv, is that   *)
(* the types hold and that every request is Settled.  A step of request r  *)
(* keeps it because                                                        *)
(*   - r is settled afterwards (ActionKeeps, from ActionDoes);             *)
(*   - it changes nothing of another request but through the engine, which *)
(*     requests share (ActionTouches), and leaves r well typed             *)
(*     (ActionFits);                                                       *)
(*   - what it does to the engine spares the others (Spares): the instance *)
(*     stays while another request holds a lease of it, and the number of  *)
(*     loads never decreases (OthersStay).                                 *)
(* Advance puts the four together.  An engine that breaks and a shutdown   *)
(* are no steps of a request and have lemmas of their own.  Instances are  *)
(* numbered by loads, so an instance that was left never comes back: that  *)
(* makes Broken inductive.                                                 *)
(***************************************************************************)
EXTENDS GenerationOwnerSteps

\* The types of what belongs to one request.
RowType(r) ==
    /\ owner[r] \in Owner /\ client[r] \in Client
    /\ cancelled[r] \in BOOLEAN /\ notified[r] \in BOOLEAN
    /\ cause[r] \in {"none", "client", "buffer"}
    /\ queue[r] \in Seq(Items \cup {"none", "err"})
    /\ final[r] \in {"open", "dropped", "err", "all"}
    /\ work[r] \in {"none", "reserved", "preparing", "running", "child", "childbad", "over",
                    "adrift"}
    /\ lease[r] \in Nat /\ slot[r] \in BOOLEAN /\ epoch[r] \in BOOLEAN
    /\ kind[r] \in Kinds /\ model[r] \in Models
    /\ engine[model[r]].inst \in Nat /\ engine[model[r]].loads \in Nat
    /\ engine[model[r]].inst <= engine[model[r]].loads

\* What the types say of one request.
LEMMA TypesAt ==
    ASSUME Types, NEW r \in Requests
    PROVE  RowType(r)
  <1>1. model[r] \in Models
    BY DEF Types, RestType
  <1>2. engine[model[r]] \in [inst : Nat, loads : Nat, healthy : BOOLEAN]
    BY <1>1 DEF Types, CacheType
  <1>3. /\ engine[model[r]].inst \in Nat /\ engine[model[r]].loads \in Nat
        /\ engine[model[r]].inst <= engine[model[r]].loads
    BY <1>1, <1>2 DEF Types, CacheType
  <1>4. owner[r] \in Owner /\ client[r] \in Client
    BY DEF Types, OwnerType, ClientType
  <1>5. /\ cancelled[r] \in BOOLEAN /\ notified[r] \in BOOLEAN
        /\ cause[r] \in {"none", "client", "buffer"}
    BY DEF Types, ClientType
  <1>6. /\ queue[r] \in Seq(Items \cup {"none", "err"})
        /\ final[r] \in {"open", "dropped", "err", "all"}
    BY DEF Types, ChannelType
  <1>7. work[r] \in {"none", "reserved", "preparing", "running", "child", "childbad", "over",
            "adrift"}
    BY DEF Types, WorkerType
  <1>8. lease[r] \in Nat /\ slot[r] \in BOOLEAN /\ epoch[r] \in BOOLEAN
    BY DEF Types, HeldType
  <1>9. kind[r] \in Kinds
    BY DEF Types, RestType
  <1> QED BY <1>1, <1>3, <1>4, <1>5, <1>6, <1>7, <1>8, <1>9 DEF RowType

\* Call keeps what is known of its request.
LEMMA CallKeeps ==
    ASSUME Types, NEW r \in Requests, Settled(r), Call(r)
    PROVE  Settled(r)'
  <1>1. /\ UNCHANGED <<kind, model, cancelled, notified, cause, queue, final, work, lease,
                       slot, epoch, engine>>
        /\ client[r].st = "idle" /\ client'[r] = [client[r] EXCEPT !.st = "waiting"]
        /\ outcome'[r] = "active"
        /\ OwnerType'
        /\ owner'[r] = [owner[r] EXCEPT !.pc = "start"]
    BY CallDoes
  <1>2. RowType(r)
    BY TypesAt
  <1>3. WorkStage(r)'
    BY <1>1, <1>2 DEF Settled, WorkStage, ClientTruth
  <1>4. PlanStage(r)'
    BY <1>1, <1>2 DEF PlanStage
  <1>5. HeldStage(r)'
    BY <1>1, <1>2 DEF Settled, HeldStage, Busy, Leased, Slotted, Shared, InLoop
  <1>6. Broken(r)'
    BY <1>1, <1>2 DEF Settled, Broken, ClientTruth
  <1>7. ClientTruth(r)'
    BY <1>1, <1>2 DEF Settled, ClientTruth, InLoop
  <1>8. ChatTruth(r)'
    BY <1>1, <1>2 DEF Settled, ChatTruth, ClientTruth, Bound
  <1>9. ChoiceTruth(r)'
    BY <1>1, <1>2 DEF Settled, ChoiceTruth, ClientTruth, Bound
  <1>10. Truthful(r)'
    BY <1>1, <1>2 DEF Truthful
  <1> QED BY <1>3, <1>4, <1>5, <1>6, <1>7, <1>8, <1>9, <1>10 DEF Settled

\* CallRefused keeps what is known of its request.
LEMMA CallRefusedKeeps ==
    ASSUME Types, NEW r \in Requests, Settled(r), CallRefused(r)
    PROVE  Settled(r)'
  <1>1. /\ UNCHANGED <<kind, model, owner, cancelled, notified, cause, queue, final, work,
                       lease, slot, epoch, engine, outcome>>
        /\ client[r].st = "idle" /\ client'[r] = [st |-> "ended", got |-> "err"]
    BY CallRefusedDoes
  <1>2. RowType(r)
    BY TypesAt
  <1>3. WorkStage(r)'
    BY <1>1, <1>2 DEF RowType, Owner, Client, Settled, WorkStage, Finishing
  <1>4. PlanStage(r)'
    BY <1>1, <1>2 DEF Settled, PlanStage
  <1>5. HeldStage(r)'
    BY <1>1, <1>2 DEF Settled, HeldStage, Busy
  <1>6. Broken(r)'
    BY <1>1, <1>2 DEF RowType, Owner, Client, Settled, Broken, HeldStage
  <1>7. ClientTruth(r)'
    BY <1>1, <1>2 DEF Settled, ClientTruth
  <1>8. ChatTruth(r)'
    BY <1>1, <1>2 DEF Settled, ChatTruth, Bound
  <1>9. ChoiceTruth(r)'
    BY <1>1, <1>2 DEF Settled, ChoiceTruth, Bound
  <1>10. Truthful(r)'
    BY <1>1, <1>2 DEF Settled, Truthful, ClientTruth
  <1> QED BY <1>3, <1>4, <1>5, <1>6, <1>7, <1>8, <1>9, <1>10 DEF Settled

\* CallInvalid keeps what is known of its request.
LEMMA CallInvalidKeeps ==
    ASSUME Types, NEW r \in Requests, Settled(r), CallInvalid(r)
    PROVE  Settled(r)'
  <1>1. /\ UNCHANGED <<kind, model, owner, cancelled, notified, cause, queue, final, work,
                       lease, slot, epoch, engine>>
        /\ client[r].st = "idle" /\ client'[r] = [st |-> "ended", got |-> "err"]
        /\ outcome'[r] \in {"none", "Cancelled", "ClientError"}
    BY CallInvalidDoes
  <1>2. RowType(r)
    BY TypesAt
  <1>3. WorkStage(r)'
    BY <1>1, <1>2 DEF RowType, Owner, Client, Settled, WorkStage, Finishing
  <1>4. PlanStage(r)'
    BY <1>1, <1>2 DEF Settled, PlanStage
  <1>5. HeldStage(r)'
    BY <1>1, <1>2 DEF Settled, HeldStage, Busy
  <1>6. Broken(r)'
    BY <1>1, <1>2 DEF RowType, Owner, Client, Settled, Broken, HeldStage
  <1>7. ClientTruth(r)'
    BY <1>1, <1>2 DEF Settled, ClientTruth
  <1>8. ChatTruth(r)'
    BY <1>1, <1>2 DEF Settled, ChatTruth, ClientTruth, Bound
  <1>9. ChoiceTruth(r)'
    BY <1>1, <1>2 DEF Settled, ChoiceTruth, Bound
  <1>10. Truthful(r)'
    BY <1>1, <1>2 DEF Truthful
  <1> QED BY <1>3, <1>4, <1>5, <1>6, <1>7, <1>8, <1>9, <1>10 DEF Settled

\* Leave keeps what is known of its request.
LEMMA LeaveKeeps ==
    ASSUME Types, NEW r \in Requests, Settled(r), Leave(r)
    PROVE  Settled(r)'
  <1>1. /\ UNCHANGED <<kind, model, owner, cause, queue, final, work, lease, slot, epoch,
                       engine, outcome>>
        /\ client[r].st = "waiting" /\ kind[r] # "count"
        /\ client'[r] = [client[r] EXCEPT !.st = "gone"]
        /\ cancelled'[r] = TRUE
    BY LeaveDoes
  <1>2. RowType(r)
    BY TypesAt
  <1>3. WorkStage(r)'
    BY <1>1, <1>2 DEF RowType, Owner, Client, Settled, WorkStage, Finishing
  <1>4. PlanStage(r)'
    BY <1>1, <1>2 DEF Settled, PlanStage
  <1>5. HeldStage(r)'
    BY <1>1, <1>2 DEF Settled, HeldStage, Busy
  <1>6. Broken(r)'
    BY <1>1, <1>2 DEF RowType, Owner, Client, Settled, Broken, HeldStage
  <1>7. ClientTruth(r)'
    BY <1>1, <1>2 DEF Settled, ClientTruth, Generation
  <1>8. ChatTruth(r)'
    BY <1>1, <1>2 DEF Settled, ChatTruth, Bound
  <1>9. ChoiceTruth(r)'
    BY <1>1, <1>2 DEF Settled, ChoiceTruth, Bound
  <1>10. Truthful(r)'
    BY <1>1, <1>2 DEF Truthful
  <1> QED BY <1>3, <1>4, <1>5, <1>6, <1>7, <1>8, <1>9, <1>10 DEF Settled

\* Start keeps what is known of its request.
LEMMA StartKeeps ==
    ASSUME Types, NEW r \in Requests, Settled(r), Start(r)
    PROVE  Settled(r)'
  <1>1. /\ UNCHANGED <<kind, model, client, cancelled, notified, cause, queue, final, work,
                       lease, slot, epoch, engine, outcome>>
        /\ owner[r].pc = "start"
    BY StartDoes
  <1>2. RowType(r)
    BY TypesAt
  <1>3. /\ owner'[r].after = owner[r].after
        /\ owner'[r].connected = owner[r].connected
        /\ owner'[r].terminal = owner[r].terminal
        /\ owner'[r].failed = owner[r].failed
        /\ owner'[r].item = owner[r].item
        /\ owner'[r].broken = owner[r].broken
        /\ \/ /\ kind[r] # "count" /\ owner'[r].pc = "answer"
              /\ owner'[r].err = "ShuttingDown"
           \/ owner'[r].pc = "llm"
    <2>1. owner[r] \in Owner
      BY <1>2 DEF RowType
    <2>2. \/ kind[r] # "count" /\ owner'[r] = [owner[r] EXCEPT !.pc = "answer", !.err = "ShuttingDown"]
          \/ owner'[r] = [owner[r] EXCEPT !.pc = "llm"]
      BY StartDoes
    <2>3. /\ owner'[r].after = owner[r].after
          /\ owner'[r].connected = owner[r].connected
          /\ owner'[r].terminal = owner[r].terminal
          /\ owner'[r].failed = owner[r].failed
          /\ owner'[r].item = owner[r].item
          /\ owner'[r].broken = owner[r].broken
      BY <2>1, <2>2 DEF Owner
    <2>4. \/ /\ kind[r] # "count" /\ owner'[r].pc = "answer"
             /\ owner'[r].err = "ShuttingDown"
          \/ owner'[r].pc = "llm"
      BY <2>1, <2>2 DEF Owner
    <2> QED BY <2>3, <2>4
  <1>4. WorkStage(r)'
    BY <1>1, <1>2, <1>3 DEF RowType, Client, Settled, WorkStage, Finishing
  <1>5. PlanStage(r)'
    BY <1>1, <1>2, <1>3 DEF PlanStage
  <1>6. HeldStage(r)'
    BY <1>1, <1>2, <1>3 DEF Settled, HeldStage, Busy, Leased, Slotted, Shared, InLoop
  <1>7. Broken(r)'
    BY <1>1, <1>2, <1>3 DEF RowType, Client, Settled, Broken, HeldStage
  <1>8. ClientTruth(r)'
    BY <1>1, <1>2, <1>3 DEF Settled, ClientTruth, Generation, InLoop
  <1>9. ChatTruth(r)'
    BY <1>1, <1>2, <1>3 DEF Settled, ChatTruth, Bound
  <1>10. ChoiceTruth(r)'
    BY <1>1, <1>2, <1>3 DEF Settled, ChoiceTruth, Bound
  <1>11. Truthful(r)'
    BY <1>1, <1>2, <1>3 DEF Settled, Truthful
  <1> QED BY <1>4, <1>5, <1>6, <1>7, <1>8, <1>9, <1>10, <1>11 DEF Settled

\* Lend keeps what is known of its request.
LEMMA LendKeeps ==
    ASSUME Types, NEW r \in Requests, Settled(r), Lend(r)
    PROVE  Settled(r)'
  <1>1. /\ UNCHANGED <<kind, model, client, cancelled, notified, cause, queue, final, work,
                       slot, epoch, outcome>>
        /\ owner[r].pc = "llm"
        /\ lease'[r] = engine'[model[r]].inst /\ lease'[r] # 0
        /\ \/ engine[model[r]].inst # 0 /\ engine' = engine
           \/ /\ engine[model[r]].inst = 0
              /\ engine'[model[r]].loads = engine[model[r]].loads + 1
              /\ engine'[model[r]].inst = engine[model[r]].loads + 1
        /\ OwnerType'
        /\ owner'[r] = [owner[r] EXCEPT !.pc = "health"]
    BY LendDoes
  <1>2. RowType(r)
    BY TypesAt
  <1>3. WorkStage(r)'
    BY <1>1, <1>2 DEF RowType, Owner, Client, Settled, WorkStage, Finishing
  <1>4. PlanStage(r)'
    BY <1>1, <1>2 DEF PlanStage
  <1>5. HeldStage(r)'
    BY <1>1, <1>2 DEF Settled, HeldStage, Busy, Slotted, Shared, InLoop
  <1>6. Broken(r)'
    BY <1>1, <1>2 DEF RowType, Owner, Client, Settled, Broken, HeldStage
  <1>7. ClientTruth(r)'
    BY <1>1, <1>2 DEF Settled, ClientTruth, Generation, InLoop
  <1>8. ChatTruth(r)'
    BY <1>1, <1>2 DEF Settled, ChatTruth, Bound
  <1>9. ChoiceTruth(r)'
    BY <1>1, <1>2 DEF Settled, ChoiceTruth, Bound
  <1>10. Truthful(r)'
    BY <1>1, <1>2 DEF Settled, Truthful
  <1> QED BY <1>3, <1>4, <1>5, <1>6, <1>7, <1>8, <1>9, <1>10 DEF Settled

\* LoadFails keeps what is known of its request.
LEMMA LoadFailsKeeps ==
    ASSUME Types, NEW r \in Requests, Settled(r), LoadFails(r)
    PROVE  Settled(r)'
  <1>1. /\ UNCHANGED <<kind, model, client, cancelled, notified, cause, queue, final, work,
                       lease, slot, epoch, engine, outcome>>
        /\ owner[r].pc = "llm"
        /\ OwnerType'
        /\ owner'[r] = [owner[r] EXCEPT !.pc = "answer", !.err = "Internal"]
    BY LoadFailsDoes
  <1>2. RowType(r)
    BY TypesAt
  <1>3. WorkStage(r)'
    BY <1>1, <1>2 DEF RowType, Owner, Client, Settled, WorkStage, Finishing
  <1>4. PlanStage(r)'
    BY <1>1, <1>2 DEF PlanStage
  <1>5. HeldStage(r)'
    BY <1>1, <1>2 DEF Settled, HeldStage, Busy, Leased, Slotted, Shared, InLoop
  <1>6. Broken(r)'
    BY <1>1, <1>2 DEF RowType, Owner, Client, Settled, Broken, HeldStage
  <1>7. ClientTruth(r)'
    BY <1>1, <1>2 DEF Settled, ClientTruth, Generation, InLoop
  <1>8. ChatTruth(r)'
    BY <1>1, <1>2 DEF Settled, ChatTruth
  <1>9. ChoiceTruth(r)'
    BY <1>1, <1>2 DEF Settled, ChoiceTruth, Bound
  <1>10. Truthful(r)'
    BY <1>1, <1>2 DEF Settled, Truthful
  <1> QED BY <1>3, <1>4, <1>5, <1>6, <1>7, <1>8, <1>9, <1>10 DEF Settled

\* CheckHealth keeps what is known of its request.
LEMMA CheckHealthKeeps ==
    ASSUME Types, NEW r \in Requests, Settled(r), CheckHealth(r)
    PROVE  Settled(r)'
  <1>1. /\ UNCHANGED <<kind, model, client, cancelled, notified, cause, queue, final, work,
                       slot, epoch, engine, outcome>>
        /\ owner[r].pc = "health"
        /\ OwnerType'
        /\ \/ lease' = lease /\ owner'[r] = [owner[r] EXCEPT !.pc = IF kind[r] = "count" THEN "slot" ELSE "reserve"]
           \/ lease'[r] = 0 /\ owner'[r] = [owner[r] EXCEPT !.pc = "reload"]
    BY CheckHealthDoes
  <1>2. RowType(r)
    BY TypesAt
  <1>3. WorkStage(r)'
    BY <1>1, <1>2 DEF RowType, Owner, Client, Settled, WorkStage, Finishing
  <1>4. PlanStage(r)'
    BY <1>1, <1>2 DEF RowType, Owner, PlanStage
  <1>5. HeldStage(r)'
    BY <1>1, <1>2 DEF RowType, Owner, Settled, WorkStage, HeldStage, Busy, Leased, Slotted,
           Shared, InLoop
  <1>6. Broken(r)'
    BY <1>1, <1>2 DEF RowType, Owner, Client, Settled, Broken, HeldStage
  <1>7. ClientTruth(r)'
    BY <1>1, <1>2 DEF RowType, Owner, Settled, ClientTruth, Generation, InLoop
  <1>8. ChatTruth(r)'
    BY <1>1, <1>2 DEF RowType, Owner, Settled, ChatTruth, Bound
  <1>9. ChoiceTruth(r)'
    BY <1>1, <1>2 DEF RowType, Owner, Settled, ChoiceTruth, Bound
  <1>10. Truthful(r)'
    BY <1>1, <1>2 DEF Settled, Truthful
  <1> QED BY <1>3, <1>4, <1>5, <1>6, <1>7, <1>8, <1>9, <1>10 DEF Settled

\* Reloaded keeps what is known of its request.
LEMMA ReloadedKeeps ==
    ASSUME Types, NEW r \in Requests, Settled(r), Reloaded(r)
    PROVE  Settled(r)'
  <1>1. /\ UNCHANGED <<kind, model, client, cancelled, notified, cause, queue, final, work,
                       lease, slot, epoch, outcome>>
        /\ owner[r].pc = "reload"
        /\ lease[r] = 0
        /\ engine'[model[r]].inst = 0 /\ engine'[model[r]].loads = engine[model[r]].loads
    BY ReloadedDoes
  <1>2. RowType(r)
    BY TypesAt
  <1>3. /\ owner'[r].after = owner[r].after
        /\ owner'[r].connected = owner[r].connected
        /\ owner'[r].terminal = owner[r].terminal
        /\ owner'[r].failed = owner[r].failed
        /\ owner'[r].item = owner[r].item
        /\ owner'[r].broken = owner[r].broken
        /\ \/ owner'[r].pc = "answer" /\ owner'[r].err = "Internal"
           \/ owner'[r].pc = "llm"
    <2>1. owner[r] \in Owner
      BY <1>2 DEF RowType
    <2>2. \/ owner'[r] = [owner[r] EXCEPT !.pc = "answer", !.err = "Internal"]
          \/ owner'[r] = [owner[r] EXCEPT !.pc = "llm", !.tries = 1]
      BY ReloadedDoes
    <2>3. /\ owner'[r].after = owner[r].after
          /\ owner'[r].connected = owner[r].connected
          /\ owner'[r].terminal = owner[r].terminal
          /\ owner'[r].failed = owner[r].failed
          /\ owner'[r].item = owner[r].item
          /\ owner'[r].broken = owner[r].broken
      BY <2>1, <2>2 DEF Owner
    <2>4. \/ owner'[r].pc = "answer" /\ owner'[r].err = "Internal"
          \/ owner'[r].pc = "llm"
      BY <2>1, <2>2 DEF Owner
    <2> QED BY <2>3, <2>4
  <1>4. WorkStage(r)'
    BY <1>1, <1>2, <1>3 DEF RowType, Client, Settled, WorkStage, Finishing
  <1>5. PlanStage(r)'
    BY <1>1, <1>2, <1>3 DEF PlanStage
  <1>6. HeldStage(r)'
    BY <1>1, <1>2, <1>3 DEF Settled, HeldStage, Busy, Leased, Slotted, Shared, InLoop
  <1>7. Broken(r)'
    BY <1>1, <1>2, <1>3 DEF RowType, Client, Settled, Broken, HeldStage
  <1>8. ClientTruth(r)'
    BY <1>1, <1>2, <1>3 DEF Settled, ClientTruth, Generation, InLoop
  <1>9. ChatTruth(r)'
    BY <1>1, <1>2, <1>3 DEF Settled, ChatTruth, Bound
  <1>10. ChoiceTruth(r)'
    BY <1>1, <1>2, <1>3 DEF Settled, ChoiceTruth, Bound
  <1>11. Truthful(r)'
    BY <1>1, <1>2, <1>3 DEF Settled, Truthful
  <1> QED BY <1>4, <1>5, <1>6, <1>7, <1>8, <1>9, <1>10, <1>11 DEF Settled

\* Reserve keeps what is known of its request.
LEMMA ReserveKeeps ==
    ASSUME Types, NEW r \in Requests, Settled(r), Reserve(r)
    PROVE  Settled(r)'
  <1>1. /\ UNCHANGED <<kind, model, client, cancelled, notified, cause, queue, final, lease,
                       slot, epoch, engine, outcome>>
        /\ owner[r].pc = "reserve"
        /\ work'[r] = "reserved"
        /\ OwnerType'
        /\ owner'[r] = [owner[r] EXCEPT !.pc = "slot"]
    BY ReserveDoes
  <1>2. RowType(r)
    BY TypesAt
  <1>3. WorkStage(r)'
    BY <1>1, <1>2 DEF RowType, Owner, Client, Settled, WorkStage, Finishing
  <1>4. PlanStage(r)'
    BY <1>1, <1>2 DEF PlanStage
  <1>5. HeldStage(r)'
    BY <1>1, <1>2 DEF Settled, HeldStage, Busy, Leased, Slotted, Shared, InLoop
  <1>6. Broken(r)'
    BY <1>1, <1>2 DEF RowType, Owner, Client, Settled, Broken, HeldStage
  <1>7. ClientTruth(r)'
    BY <1>1, <1>2 DEF Settled, ClientTruth, Generation, InLoop
  <1>8. ChatTruth(r)'
    BY <1>1, <1>2 DEF Settled, ChatTruth, Bound
  <1>9. ChoiceTruth(r)'
    BY <1>1, <1>2 DEF Settled, ChoiceTruth, Bound
  <1>10. Truthful(r)'
    BY <1>1, <1>2 DEF Settled, Truthful
  <1> QED BY <1>3, <1>4, <1>5, <1>6, <1>7, <1>8, <1>9, <1>10 DEF Settled

\* ReserveFails keeps what is known of its request.
LEMMA ReserveFailsKeeps ==
    ASSUME Types, NEW r \in Requests, Settled(r), ReserveFails(r)
    PROVE  Settled(r)'
  <1>1. /\ UNCHANGED <<kind, model, client, cancelled, notified, cause, queue, final, work,
                       engine, outcome>>
        /\ owner[r].pc = "reserve"
        /\ lease'[r] = 0 /\ slot'[r] = FALSE /\ epoch'[r] = FALSE
        /\ OwnerType'
        /\ owner'[r] = [owner[r] EXCEPT !.pc = "answer", !.err = "Core"]
    BY ReserveFailsDoes
  <1>2. RowType(r)
    BY TypesAt
  <1>3. WorkStage(r)'
    BY <1>1, <1>2 DEF RowType, Owner, Client, Settled, WorkStage, Finishing
  <1>4. PlanStage(r)'
    BY <1>1, <1>2 DEF PlanStage
  <1>5. HeldStage(r)'
    BY <1>1, <1>2 DEF Settled, WorkStage, HeldStage, Busy, Leased, Slotted, Shared, InLoop
  <1>6. Broken(r)'
    BY <1>1, <1>2 DEF RowType, Owner, Client, Settled, Broken, HeldStage
  <1>7. ClientTruth(r)'
    BY <1>1, <1>2 DEF Settled, ClientTruth, Generation, InLoop
  <1>8. ChatTruth(r)'
    BY <1>1, <1>2 DEF Settled, ChatTruth
  <1>9. ChoiceTruth(r)'
    BY <1>1, <1>2 DEF Settled, ChoiceTruth, Bound
  <1>10. Truthful(r)'
    BY <1>1, <1>2 DEF Settled, Truthful
  <1> QED BY <1>3, <1>4, <1>5, <1>6, <1>7, <1>8, <1>9, <1>10 DEF Settled

\* AcquireSlot keeps what is known of its request.
LEMMA AcquireSlotKeeps ==
    ASSUME Types, NEW r \in Requests, Settled(r), AcquireSlot(r)
    PROVE  Settled(r)'
  <1>1. /\ UNCHANGED <<kind, model, client, cancelled, notified, cause, queue, final, lease,
                       epoch, engine, outcome>>
        /\ owner[r].pc = "slot"
        /\ slot'[r] = TRUE
        /\ work'[r] = IF kind[r] = "count" THEN "running" ELSE work[r]
        /\ OwnerType'
        /\ owner'[r] = [owner[r] EXCEPT !.pc = IF kind[r] = "count" THEN "counting" ELSE "epoch"]
    BY AcquireSlotDoes
  <1>2. RowType(r)
    BY TypesAt
  <1>3. WorkStage(r)'
    BY <1>1, <1>2 DEF RowType, Owner, Client, Settled, WorkStage, Finishing
  <1>4. PlanStage(r)'
    BY <1>1, <1>2 DEF PlanStage
  <1>5. HeldStage(r)'
    BY <1>1, <1>2 DEF Settled, HeldStage, Busy, Leased, Shared, InLoop
  <1>6. Broken(r)'
    BY <1>1, <1>2 DEF RowType, Owner, Client, Settled, Broken, HeldStage
  <1>7. ClientTruth(r)'
    BY <1>1, <1>2 DEF Settled, ClientTruth, Generation, InLoop
  <1>8. ChatTruth(r)'
    BY <1>1, <1>2 DEF Settled, ChatTruth, Bound
  <1>9. ChoiceTruth(r)'
    BY <1>1, <1>2 DEF Settled, ChoiceTruth, Bound
  <1>10. Truthful(r)'
    BY <1>1, <1>2 DEF Settled, Truthful
  <1> QED BY <1>3, <1>4, <1>5, <1>6, <1>7, <1>8, <1>9, <1>10 DEF Settled

\* AcquireEpoch keeps what is known of its request.
LEMMA AcquireEpochKeeps ==
    ASSUME Types, NEW r \in Requests, Settled(r), AcquireEpoch(r)
    PROVE  Settled(r)'
  <1>1. /\ UNCHANGED <<kind, model, client, cancelled, notified, cause, queue, final, work,
                       lease, slot, engine, outcome>>
        /\ owner[r].pc = "epoch"
        /\ epoch'[r] = TRUE
        /\ OwnerType'
        /\ owner'[r] = [owner[r] EXCEPT !.pc = "check"]
    BY AcquireEpochDoes
  <1>2. RowType(r)
    BY TypesAt
  <1>3. WorkStage(r)'
    BY <1>1, <1>2 DEF RowType, Owner, Client, Settled, WorkStage, Finishing
  <1>4. PlanStage(r)'
    BY <1>1, <1>2 DEF PlanStage
  <1>5. HeldStage(r)'
    BY <1>1, <1>2 DEF Settled, HeldStage, Leased, Slotted
  <1>6. Broken(r)'
    BY <1>1, <1>2 DEF RowType, Owner, Client, Settled, Broken, HeldStage
  <1>7. ClientTruth(r)'
    BY <1>1, <1>2 DEF Settled, ClientTruth, Generation, InLoop
  <1>8. ChatTruth(r)'
    BY <1>1, <1>2 DEF Settled, ChatTruth, Bound
  <1>9. ChoiceTruth(r)'
    BY <1>1, <1>2 DEF Settled, ChoiceTruth, Bound
  <1>10. Truthful(r)'
    BY <1>1, <1>2 DEF Settled, Truthful
  <1> QED BY <1>3, <1>4, <1>5, <1>6, <1>7, <1>8, <1>9, <1>10 DEF Settled

\* AdmissionInterrupted keeps what is known of its request.
LEMMA AdmissionInterruptedKeeps ==
    ASSUME Types, NEW r \in Requests, NEW e \in Errors, Settled(r), AdmissionInterrupted(r, e)
    PROVE  Settled(r)'
  <1>1. /\ UNCHANGED <<kind, model, client, cancelled, cause, queue, final, engine, outcome>>
        /\ owner[r].pc = "llm" \/ owner[r].pc = "reload" \/ owner[r].pc = "reserve"
               \/ owner[r].pc = "slot" \/ owner[r].pc = "epoch"
        /\ lease'[r] = 0 /\ slot'[r] = FALSE /\ epoch'[r] = FALSE
        /\ \/ notified' = notified /\ e # "Cancelled"
           \/ notified'[r] = FALSE /\ notified[r] /\ e = "Cancelled"
    BY AdmissionInterruptedDoes
  <1>2. RowType(r)
    BY TypesAt
  <1>3. /\ owner'[r].err = e /\ owner'[r].after = "answer"
        /\ owner'[r].connected = owner[r].connected
        /\ owner'[r].terminal = owner[r].terminal
        /\ owner'[r].failed = owner[r].failed
        /\ owner'[r].item = owner[r].item
        /\ owner'[r].broken = owner[r].broken
        /\ \/ kind[r] = "choice" /\ work' = work /\ owner'[r].pc = "ack"
           \/ work'[r] = "none" /\ owner'[r].pc = "answer"
    <2>1. owner[r] \in Owner
      BY <1>2 DEF RowType
    <2>2. \/ kind[r] = "choice" /\ work' = work
                 /\ owner'[r] = [owner[r] EXCEPT !.pc = "ack", !.err = e, !.after = "answer"]
          \/ work'[r] = "none" /\ owner'[r] = [owner[r] EXCEPT !.pc = "answer", !.err = e, !.after = "answer"]
      BY AdmissionInterruptedDoes
    <2>3. /\ owner'[r].connected = owner[r].connected
          /\ owner'[r].terminal = owner[r].terminal
          /\ owner'[r].failed = owner[r].failed
          /\ owner'[r].item = owner[r].item
          /\ owner'[r].broken = owner[r].broken
      BY <2>1, <2>2 DEF Owner
    <2>4. owner'[r].err = e /\ owner'[r].after = "answer"
      BY <2>1, <2>2 DEF Owner
    <2>5. \/ kind[r] = "choice" /\ work' = work /\ owner'[r].pc = "ack"
          \/ work'[r] = "none" /\ owner'[r].pc = "answer"
      BY <2>1, <2>2 DEF Owner
    <2> QED BY <2>3, <2>4, <2>5
  <1>4. WorkStage(r)'
    BY <1>1, <1>2, <1>3 DEF RowType, Client, Settled, WorkStage, Finishing
  <1>5. PlanStage(r)'
    BY <1>1, <1>2, <1>3 DEF PlanStage
  <1>6. HeldStage(r)'
    BY <1>1, <1>2, <1>3 DEF Settled, WorkStage, HeldStage, Busy, Leased, Slotted, Shared,
           InLoop
  <1>7. Broken(r)'
    BY <1>1, <1>2, <1>3 DEF RowType, Client, Settled, Broken, HeldStage
  <1>8. ClientTruth(r)'
    BY <1>1, <1>2, <1>3 DEF Settled, ClientTruth, Generation, InLoop
  <1>9. ChatTruth(r)'
    BY <1>1, <1>2, <1>3 DEF Settled, ChatTruth, Errors
  <1>10. ChoiceTruth(r)'
    BY <1>1, <1>2, <1>3 DEF Settled, ChoiceTruth, Bound
  <1>11. Truthful(r)'
    BY <1>1, <1>2, <1>3 DEF Settled, Truthful
  <1> QED BY <1>4, <1>5, <1>6, <1>7, <1>8, <1>9, <1>10, <1>11 DEF Settled

\* BeginCommit keeps what is known of its request.
LEMMA BeginCommitKeeps ==
    ASSUME Types, NEW r \in Requests, Settled(r), BeginCommit(r)
    PROVE  Settled(r)'
  <1>1. /\ UNCHANGED <<kind, model, client, cancelled, notified, cause, queue, final, lease,
                       slot, epoch, engine, outcome>>
        /\ owner[r].pc = "check"
        /\ work'[r] = "preparing"
        /\ OwnerType'
        /\ owner'[r] = [owner[r] EXCEPT !.pc = "commit"]
    BY BeginCommitDoes
  <1>2. RowType(r)
    BY TypesAt
  <1>3. WorkStage(r)'
    BY <1>1, <1>2 DEF RowType, Owner, Client, Settled, WorkStage, Finishing
  <1>4. PlanStage(r)'
    BY <1>1, <1>2 DEF PlanStage
  <1>5. HeldStage(r)'
    BY <1>1, <1>2 DEF Settled, HeldStage, Leased, Slotted, Shared
  <1>6. Broken(r)'
    BY <1>1, <1>2 DEF RowType, Owner, Client, Settled, Broken, HeldStage
  <1>7. ClientTruth(r)'
    BY <1>1, <1>2 DEF Settled, ClientTruth, Generation, InLoop
  <1>8. ChatTruth(r)'
    BY <1>1, <1>2 DEF Settled, ChatTruth, Bound
  <1>9. ChoiceTruth(r)'
    BY <1>1, <1>2 DEF Settled, ChoiceTruth, Bound
  <1>10. Truthful(r)'
    BY <1>1, <1>2 DEF Settled, Truthful
  <1> QED BY <1>3, <1>4, <1>5, <1>6, <1>7, <1>8, <1>9, <1>10 DEF Settled

\* RefuseCommit keeps what is known of its request.
LEMMA RefuseCommitKeeps ==
    ASSUME Types, NEW r \in Requests, Settled(r), RefuseCommit(r)
    PROVE  Settled(r)'
  <1>1. /\ UNCHANGED <<kind, model, client, cancelled, notified, cause, queue, final, engine,
                       outcome>>
        /\ owner[r].pc = "check"
    BY RefuseCommitDoes
  <1>2. RowType(r)
    BY TypesAt
  <1>3. /\ owner'[r].err \in Errors
        /\ owner'[r].connected = owner[r].connected
        /\ owner'[r].terminal = owner[r].terminal
        /\ owner'[r].failed = owner[r].failed
        /\ owner'[r].item = owner[r].item
        /\ owner'[r].broken = owner[r].broken
        /\ \/ /\ UNCHANGED <<work, lease, slot, epoch>>
              /\ owner'[r].pc = "ack" /\ owner'[r].after = "drop"
           \/ /\ work'[r] = "none" /\ lease'[r] = 0 /\ slot'[r] = FALSE /\ epoch'[r] = FALSE
              /\ owner'[r].pc = "answer" /\ owner'[r].after = owner[r].after
    <2>1. owner[r] \in Owner
      BY <1>2 DEF RowType
    <2>2. PICK x \in Errors :
             \/ /\ UNCHANGED <<work, lease, slot, epoch>>
                /\ owner'[r] = [owner[r] EXCEPT !.pc = "ack", !.err = x, !.after = "drop"]
             \/ /\ work'[r] = "none" /\ lease'[r] = 0 /\ slot'[r] = FALSE /\ epoch'[r] = FALSE
                /\ owner'[r] = [owner[r] EXCEPT !.pc = "answer", !.err = x]
      BY RefuseCommitDoes
    <2>3. /\ owner'[r].connected = owner[r].connected
          /\ owner'[r].terminal = owner[r].terminal
          /\ owner'[r].failed = owner[r].failed
          /\ owner'[r].item = owner[r].item
          /\ owner'[r].broken = owner[r].broken
      BY <2>1, <2>2 DEF Owner
    <2>4. owner'[r].err \in Errors
      BY <2>1, <2>2 DEF Owner
    <2>5. \/ /\ UNCHANGED <<work, lease, slot, epoch>>
             /\ owner'[r].pc = "ack" /\ owner'[r].after = "drop"
          \/ /\ work'[r] = "none" /\ lease'[r] = 0 /\ slot'[r] = FALSE /\ epoch'[r] = FALSE
             /\ owner'[r].pc = "answer" /\ owner'[r].after = owner[r].after
      BY <2>1, <2>2 DEF Owner
    <2> QED BY <2>3, <2>4, <2>5
  <1>4. WorkStage(r)'
    BY <1>1, <1>2, <1>3 DEF RowType, Client, Settled, WorkStage, Finishing
  <1>5. PlanStage(r)'
    BY <1>1, <1>2, <1>3 DEF PlanStage
  <1>6. HeldStage(r)'
    BY <1>1, <1>2, <1>3 DEF Settled, HeldStage, Busy, Leased, Slotted, Shared, InLoop
  <1>7. Broken(r)'
    BY <1>1, <1>2, <1>3 DEF RowType, Client, Settled, Broken, HeldStage
  <1>8. ClientTruth(r)'
    BY <1>1, <1>2, <1>3 DEF Settled, ClientTruth, Generation, InLoop
  <1>9. ChatTruth(r)'
    BY <1>1, <1>2, <1>3 DEF Settled, ChatTruth, Errors
  <1>10. ChoiceTruth(r)'
    BY <1>1, <1>2, <1>3 DEF Settled, ChoiceTruth, Bound
  <1>11. Truthful(r)'
    BY <1>1, <1>2, <1>3 DEF Settled, Truthful
  <1> QED BY <1>4, <1>5, <1>6, <1>7, <1>8, <1>9, <1>10, <1>11 DEF Settled

\* Committed keeps what is known of its request.
LEMMA CommittedKeeps ==
    ASSUME Types, NEW r \in Requests, Settled(r), Committed(r)
    PROVE  Settled(r)'
  <1>1. /\ UNCHANGED <<kind, model, client, cancelled, notified, cause, queue, final, lease,
                       slot, epoch, engine, outcome>>
        /\ owner[r].pc = "commit"
        /\ work'[r] = "running"
        /\ OwnerType'
        /\ owner'[r] = [owner[r] EXCEPT !.pc = IF kind[r] = "embed" THEN "next" ELSE "ready"]
    BY CommittedDoes
  <1>2. RowType(r)
    BY TypesAt
  <1>3. WorkStage(r)'
    BY <1>1, <1>2 DEF RowType, Settled, WorkStage, Finishing, Kinds
  <1>4. PlanStage(r)'
    BY <1>1, <1>2 DEF PlanStage
  <1>5. HeldStage(r)'
    BY <1>1, <1>2 DEF Settled, HeldStage, Leased, Slotted, Shared
  <1>6. Broken(r)'
    BY <1>1, <1>2 DEF RowType, Owner, Client, Settled, Broken, HeldStage
  <1>7. ClientTruth(r)'
    BY <1>1, <1>2 DEF Settled, ClientTruth, Generation, InLoop
  <1>8. ChatTruth(r)'
    BY <1>1, <1>2 DEF Settled, ChatTruth, Bound
  <1>9. ChoiceTruth(r)'
    BY <1>1, <1>2 DEF Settled, ChoiceTruth, Bound
  <1>10. Truthful(r)'
    BY <1>1, <1>2 DEF Settled, Truthful
  <1> QED BY <1>3, <1>4, <1>5, <1>6, <1>7, <1>8, <1>9, <1>10 DEF Settled

\* CommitFails keeps what is known of its request.
LEMMA CommitFailsKeeps ==
    ASSUME Types, NEW r \in Requests, Settled(r), CommitFails(r)
    PROVE  Settled(r)'
  <1>1. /\ UNCHANGED <<kind, model, client, cancelled, notified, cause, queue, final, lease,
                       slot, epoch, engine, outcome>>
        /\ owner[r].pc = "commit"
        /\ work'[r] = "none"
        /\ OwnerType'
        /\ owner'[r] = [owner[r] EXCEPT !.pc = "retire", !.err = "Core", !.after = "answer"]
    BY CommitFailsDoes
  <1>2. RowType(r)
    BY TypesAt
  <1>3. WorkStage(r)'
    BY <1>1, <1>2 DEF RowType, Owner, Client, Settled, WorkStage, Finishing
  <1>4. PlanStage(r)'
    BY <1>1, <1>2 DEF PlanStage
  <1>5. HeldStage(r)'
    BY <1>1, <1>2 DEF Settled, HeldStage, Leased, Slotted, Shared
  <1>6. Broken(r)'
    BY <1>1, <1>2 DEF RowType, Owner, Client, Settled, Broken, HeldStage
  <1>7. ClientTruth(r)'
    BY <1>1, <1>2 DEF Settled, ClientTruth, Generation, InLoop
  <1>8. ChatTruth(r)'
    BY <1>1, <1>2 DEF Settled, ChatTruth
  <1>9. ChoiceTruth(r)'
    BY <1>1, <1>2 DEF Settled, ChoiceTruth, Bound
  <1>10. Truthful(r)'
    BY <1>1, <1>2 DEF Settled, Truthful
  <1> QED BY <1>3, <1>4, <1>5, <1>6, <1>7, <1>8, <1>9, <1>10 DEF Settled

\* CommitInterrupted keeps what is known of its request.
LEMMA CommitInterruptedKeeps ==
    ASSUME Types, NEW r \in Requests, NEW e \in Errors, Settled(r), CommitInterrupted(r, e)
    PROVE  Settled(r)'
  <1>1. /\ UNCHANGED <<kind, model, client, cancelled, cause, queue, final, lease, slot,
                       epoch, engine, outcome>>
        /\ owner[r].pc = "commit"
        /\ work'[r] \in {"preparing", "adrift"}
        /\ \/ notified' = notified /\ e # "Cancelled"
           \/ notified'[r] = FALSE /\ notified[r] /\ e = "Cancelled"
        /\ OwnerType'
        /\ owner'[r] = [owner[r] EXCEPT !.pc = "ack", !.err = e, !.after = "answer"]
    BY CommitInterruptedDoes
  <1>2. RowType(r)
    BY TypesAt
  <1>3. WorkStage(r)'
    BY <1>1, <1>2 DEF RowType, Owner, Client, Settled, WorkStage, Finishing
  <1>4. PlanStage(r)'
    BY <1>1, <1>2 DEF PlanStage
  <1>5. HeldStage(r)'
    BY <1>1, <1>2 DEF Settled, HeldStage, Leased, Slotted, Shared
  <1>6. Broken(r)'
    BY <1>1, <1>2 DEF RowType, Owner, Client, Settled, Broken, HeldStage
  <1>7. ClientTruth(r)'
    BY <1>1, <1>2 DEF Settled, ClientTruth, Generation, InLoop
  <1>8. ChatTruth(r)'
    BY <1>1, <1>2 DEF Settled, ChatTruth, Errors
  <1>9. ChoiceTruth(r)'
    BY <1>1, <1>2 DEF Settled, ChoiceTruth, Bound
  <1>10. Truthful(r)'
    BY <1>1, <1>2 DEF Settled, Truthful
  <1> QED BY <1>3, <1>4, <1>5, <1>6, <1>7, <1>8, <1>9, <1>10 DEF Settled

\* SendReady keeps what is known of its request.
LEMMA SendReadyKeeps ==
    ASSUME Types, NEW r \in Requests, Settled(r), SendReady(r)
    PROVE  Settled(r)'
  <1>1. /\ UNCHANGED <<kind, model, cancelled, notified, cause, queue, final, work, lease,
                       slot, epoch, engine, outcome>>
        /\ owner[r].pc = "ready"
    BY SendReadyDoes
  <1>2. RowType(r)
    BY TypesAt
  <1>3. /\ owner'[r].err = owner[r].err
        /\ owner'[r].connected = owner[r].connected
        /\ owner'[r].terminal = owner[r].terminal
        /\ owner'[r].failed = owner[r].failed
        /\ owner'[r].item = owner[r].item
        /\ owner'[r].broken = owner[r].broken
        /\ \/ /\ client[r].st = "waiting" /\ client'[r] = [client[r] EXCEPT !.st = "holding"]
              /\ owner'[r].pc \in {"top", "next"} /\ owner'[r].after = owner[r].after
           \/ /\ client' = client /\ client[r].st # "waiting"
              /\ owner'[r].pc = "ack" /\ owner'[r].after = "quit"
    <2>1. owner[r] \in Owner
      BY <1>2 DEF RowType
    <2>2. \/ client[r].st = "waiting" /\ client'[r] = [client[r] EXCEPT !.st = "holding"]
                 /\ owner'[r] = [owner[r] EXCEPT !.pc = IF kind[r] = "choice" THEN "top" ELSE "next"]
          \/ client' = client /\ client[r].st # "waiting"
                 /\ owner'[r] = [owner[r] EXCEPT !.pc = "ack", !.after = "quit"]
      BY SendReadyDoes
    <2>3. /\ owner'[r].err = owner[r].err
          /\ owner'[r].connected = owner[r].connected
          /\ owner'[r].terminal = owner[r].terminal
          /\ owner'[r].failed = owner[r].failed
          /\ owner'[r].item = owner[r].item
          /\ owner'[r].broken = owner[r].broken
      BY <2>1, <2>2 DEF Owner
    <2>4. \/ /\ client[r].st = "waiting" /\ client'[r] = [client[r] EXCEPT !.st = "holding"]
             /\ owner'[r].pc \in {"top", "next"} /\ owner'[r].after = owner[r].after
          \/ /\ client' = client /\ client[r].st # "waiting"
             /\ owner'[r].pc = "ack" /\ owner'[r].after = "quit"
      BY <2>1, <2>2 DEF Owner
    <2> QED BY <2>3, <2>4
  <1>4. WorkStage(r)'
    BY <1>1, <1>2, <1>3 DEF RowType, Client, Settled, WorkStage, Finishing
  <1>5. PlanStage(r)'
    BY <1>1, <1>2, <1>3 DEF Settled, PlanStage, HeldStage, Leased
  <1>6. HeldStage(r)'
    BY <1>1, <1>2, <1>3 DEF Settled, HeldStage, Leased, Slotted, Shared
  <1>7. Broken(r)'
    BY <1>1, <1>2, <1>3 DEF RowType, Client, Settled, Broken, HeldStage
  <1>8. ClientTruth(r)'
    BY <1>1, <1>2, <1>3 DEF RowType, Client, Settled, ClientTruth, Generation, WorkStage
  <1>9. ChatTruth(r)'
    BY <1>1, <1>2, <1>3 DEF Settled, ChatTruth, Bound
  <1>10. ChoiceTruth(r)'
    BY <1>1, <1>2, <1>3 DEF Settled, ChoiceTruth, ClientTruth, Bound
  <1>11. Truthful(r)'
    BY <1>1, <1>2, <1>3 DEF RowType, Client, Settled, Truthful
  <1> QED BY <1>4, <1>5, <1>6, <1>7, <1>8, <1>9, <1>10, <1>11 DEF Settled

\* Top keeps what is known of its request.
LEMMA TopKeeps ==
    ASSUME Types, NEW r \in Requests, Settled(r), Top(r)
    PROVE  Settled(r)'
  <1>1. /\ UNCHANGED <<kind, model, client, cancelled, notified, cause, queue, final, work,
                       lease, slot, epoch, engine, outcome>>
        /\ owner[r].pc = "top"
        /\ OwnerType'
        /\ owner'[r] = [owner[r] EXCEPT !.pc = "next", !.connected = owner[r].connected
               /\ ~cancelled[r]]
    BY TopDoes
  <1>2. RowType(r)
    BY TypesAt
  <1>3. WorkStage(r)'
    BY <1>1, <1>2 DEF RowType, Owner, Client, Settled, WorkStage, Finishing
  <1>4. PlanStage(r)'
    BY <1>1, <1>2 DEF PlanStage
  <1>5. HeldStage(r)'
    BY <1>1, <1>2 DEF Settled, HeldStage, Leased, Slotted, Shared, InLoop
  <1>6. Broken(r)'
    BY <1>1, <1>2 DEF RowType, Owner, Client, Settled, Broken, HeldStage
  <1>7. ClientTruth(r)'
    BY <1>1, <1>2 DEF Settled, ClientTruth, Generation, InLoop
  <1>8. ChatTruth(r)'
    BY <1>1, <1>2 DEF RowType, Owner, Settled, ChatTruth, Bound
  <1>9. ChoiceTruth(r)'
    BY <1>1, <1>2 DEF Settled, ChoiceTruth, Bound
  <1>10. Truthful(r)'
    BY <1>1, <1>2 DEF Settled, Truthful
  <1> QED BY <1>3, <1>4, <1>5, <1>6, <1>7, <1>8, <1>9, <1>10 DEF Settled

\* CountInterrupted keeps what is known of its request.
LEMMA CountInterruptedKeeps ==
    ASSUME Types, NEW r \in Requests, NEW e \in Errors, Settled(r), CountInterrupted(r, e)
    PROVE  Settled(r)'
  <1>1. /\ UNCHANGED <<kind, model, client, cancelled, cause, queue, final, work, lease,
                       slot, epoch, engine, outcome>>
        /\ owner[r].pc = "counting"
        /\ notified' = notified
        /\ OwnerType'
        /\ owner'[r] = [owner[r] EXCEPT !.pc = "answer", !.err = e]
    BY CountInterruptedDoes
  <1>2. RowType(r)
    BY TypesAt
  <1>3. WorkStage(r)'
    BY <1>1, <1>2 DEF RowType, Owner, Client, Settled, WorkStage, Finishing
  <1>4. PlanStage(r)'
    BY <1>1, <1>2 DEF PlanStage
  <1>5. HeldStage(r)'
    BY <1>1, <1>2 DEF Settled, WorkStage, HeldStage, Busy, Shared, InLoop
  <1>6. Broken(r)'
    BY <1>1, <1>2 DEF RowType, Owner, Client, Settled, Broken, HeldStage
  <1>7. ClientTruth(r)'
    BY <1>1, <1>2 DEF Settled, ClientTruth, Generation, InLoop
  <1>8. ChatTruth(r)'
    BY <1>1, <1>2 DEF Settled, ChatTruth, WorkStage
  <1>9. ChoiceTruth(r)'
    BY <1>1, <1>2 DEF Settled, ChoiceTruth, WorkStage
  <1>10. Truthful(r)'
    BY <1>1, <1>2 DEF Settled, Truthful
  <1> QED BY <1>3, <1>4, <1>5, <1>6, <1>7, <1>8, <1>9, <1>10 DEF Settled

\* Retire keeps what is known of its request.
LEMMA RetireKeeps ==
    ASSUME Types, NEW r \in Requests, Settled(r), Retire(r)
    PROVE  Settled(r)'
  <1>1. /\ UNCHANGED <<kind, model, client, cancelled, notified, cause, queue, final, work,
                       engine, outcome>>
        /\ owner[r].pc = "retire"
        /\ lease'[r] = 0 /\ slot'[r] = FALSE /\ epoch'[r] = FALSE
    BY RetireDoes
  <1>2. RowType(r)
    BY TypesAt
  <1>3. /\ owner'[r].err = owner[r].err
        /\ owner'[r].after = owner[r].after
        /\ owner'[r].connected = owner[r].connected
        /\ owner'[r].terminal = owner[r].terminal
        /\ owner'[r].failed = owner[r].failed
        /\ owner'[r].item = owner[r].item
        /\ \/ owner'[r].pc = owner[r].after /\ owner'[r].broken = owner[r].broken
           \/ owner'[r].pc = "unload" /\ owner'[r].broken = lease[r]
    <2>1. owner[r] \in Owner
      BY <1>2 DEF RowType
    <2>2. \/ owner'[r] = [owner[r] EXCEPT !.pc = owner[r].after]
          \/ owner'[r] = [owner[r] EXCEPT !.pc = "unload", !.broken = lease[r]]
      BY RetireDoes
    <2>3. /\ owner'[r].err = owner[r].err
          /\ owner'[r].after = owner[r].after
          /\ owner'[r].connected = owner[r].connected
          /\ owner'[r].terminal = owner[r].terminal
          /\ owner'[r].failed = owner[r].failed
          /\ owner'[r].item = owner[r].item
      BY <2>1, <2>2 DEF Owner
    <2>4. \/ owner'[r].pc = owner[r].after /\ owner'[r].broken = owner[r].broken
          \/ owner'[r].pc = "unload" /\ owner'[r].broken = lease[r]
      BY <2>1, <2>2 DEF Owner
    <2> QED BY <2>3, <2>4
  <1>4. WorkStage(r)'
    BY <1>1, <1>2, <1>3 DEF Settled, WorkStage, PlanStage
  <1>5. PlanStage(r)'
    BY <1>1, <1>2, <1>3 DEF Settled, PlanStage
  <1>6. HeldStage(r)'
    BY <1>1, <1>2, <1>3 DEF Settled, WorkStage, PlanStage, HeldStage, Busy, Leased, Slotted,
           Shared, InLoop
  <1>7. Broken(r)'
    BY <1>1, <1>2, <1>3 DEF RowType, Client, Settled, Broken, HeldStage
  <1>8. ClientTruth(r)'
    BY <1>1, <1>2, <1>3 DEF Settled, ClientTruth, Generation, InLoop, PlanStage
  <1>9. ChatTruth(r)'
    BY <1>1, <1>2, <1>3 DEF Settled, ChatTruth, Bound
  <1>10. ChoiceTruth(r)'
    BY <1>1, <1>2, <1>3 DEF Settled, ChoiceTruth, Bound
  <1>11. Truthful(r)'
    BY <1>1, <1>2, <1>3 DEF Settled, Truthful
  <1> QED BY <1>4, <1>5, <1>6, <1>7, <1>8, <1>9, <1>10, <1>11 DEF Settled

\* Retired keeps what is known of its request.
LEMMA RetiredKeeps ==
    ASSUME Types, NEW r \in Requests, Settled(r), Retired(r)
    PROVE  Settled(r)'
  <1>1. /\ UNCHANGED <<kind, model, client, cancelled, notified, cause, queue, final, work,
                       lease, slot, epoch, outcome>>
        /\ owner[r].pc = "unload"
        /\ lease[r] = 0
        /\ engine'[model[r]].inst = 0 /\ engine'[model[r]].loads = engine[model[r]].loads
    BY RetiredDoes
  <1>2. RowType(r)
    BY TypesAt
  <1>3. /\ owner'[r].pc = owner[r].after
        /\ owner'[r].err = owner[r].err
        /\ owner'[r].after = owner[r].after
        /\ owner'[r].connected = owner[r].connected
        /\ owner'[r].terminal = owner[r].terminal
        /\ owner'[r].failed = owner[r].failed
        /\ owner'[r].item = owner[r].item
        /\ owner'[r].broken = owner[r].broken
    <2>1. owner[r] \in Owner
      BY <1>2 DEF RowType
    <2>2. owner'[r] = [owner[r] EXCEPT !.pc = owner[r].after]
      BY RetiredDoes
    <2>3. /\ owner'[r].err = owner[r].err
          /\ owner'[r].after = owner[r].after
          /\ owner'[r].connected = owner[r].connected
          /\ owner'[r].terminal = owner[r].terminal
          /\ owner'[r].failed = owner[r].failed
          /\ owner'[r].item = owner[r].item
          /\ owner'[r].broken = owner[r].broken
      BY <2>1, <2>2 DEF Owner
    <2>4. owner'[r].pc = owner[r].after
      BY <2>1, <2>2 DEF Owner
    <2> QED BY <2>3, <2>4
  <1>4. WorkStage(r)'
    BY <1>1, <1>2, <1>3 DEF Settled, WorkStage, PlanStage
  <1>5. PlanStage(r)'
    BY <1>1, <1>2, <1>3 DEF Settled, PlanStage
  <1>6. HeldStage(r)'
    BY <1>1, <1>2, <1>3 DEF Settled, PlanStage, HeldStage, Busy, Leased, Slotted, Shared,
           InLoop
  <1>7. Broken(r)'
    BY <1>1, <1>2, <1>3 DEF RowType, Client, Settled, Broken, HeldStage
  <1>8. ClientTruth(r)'
    BY <1>1, <1>2, <1>3 DEF Settled, ClientTruth, Generation, InLoop, PlanStage
  <1>9. ChatTruth(r)'
    BY <1>1, <1>2, <1>3 DEF Settled, ChatTruth, Bound
  <1>10. ChoiceTruth(r)'
    BY <1>1, <1>2, <1>3 DEF Settled, ChoiceTruth, Bound
  <1>11. Truthful(r)'
    BY <1>1, <1>2, <1>3 DEF Settled, Truthful
  <1> QED BY <1>4, <1>5, <1>6, <1>7, <1>8, <1>9, <1>10, <1>11 DEF Settled

\* WorkerAck keeps what is known of its request.
LEMMA WorkerAckKeeps ==
    ASSUME Types, NEW r \in Requests, Settled(r), WorkerAck(r)
    PROVE  Settled(r)'
  <1>1. /\ UNCHANGED <<kind, model, owner, client, cancelled, notified, cause, queue, final,
                       lease, slot, epoch, engine, outcome>>
        /\ work'[r] = "none"
        /\ owner[r].pc = "ack" \/ work[r] \in {"over", "adrift"}
    BY WorkerAckDoes
  <1>2. RowType(r)
    BY TypesAt
  <1>3. WorkStage(r)'
    BY <1>1, <1>2 DEF RowType, Owner, Client, Settled, WorkStage, Finishing
  <1>4. PlanStage(r)'
    BY <1>1, <1>2 DEF Settled, PlanStage
  <1>5. HeldStage(r)'
    BY <1>1, <1>2 DEF Settled, HeldStage, Busy
  <1>6. Broken(r)'
    BY <1>1, <1>2 DEF RowType, Owner, Client, Settled, Broken, HeldStage
  <1>7. ClientTruth(r)'
    BY <1>1, <1>2 DEF Settled, ClientTruth, Generation
  <1>8. ChatTruth(r)'
    BY <1>1, <1>2 DEF Settled, ChatTruth, Bound
  <1>9. ChoiceTruth(r)'
    BY <1>1, <1>2 DEF Settled, ChoiceTruth, Bound
  <1>10. Truthful(r)'
    BY <1>1, <1>2 DEF Settled, Truthful
  <1> QED BY <1>3, <1>4, <1>5, <1>6, <1>7, <1>8, <1>9, <1>10 DEF Settled

\* LeaveCount keeps what is known of its request.
LEMMA LeaveCountKeeps ==
    ASSUME Types, NEW r \in Requests, Settled(r), LeaveCount(r)
    PROVE  Settled(r)'
  <1>1. /\ UNCHANGED <<kind, model, cancelled, cause, queue, final, work, engine>>
        /\ kind[r] = "count"
        /\ client'[r] = [client[r] EXCEPT !.st = "gone"]
        /\ notified'[r] = FALSE
        /\ outcome'[r] = "Cancelled"
        /\ \/ owner[r].pc = "counting" /\ UNCHANGED <<lease, slot, epoch>>
           \/ /\ owner[r].pc \in {"llm", "reload", "reserve", "slot", "epoch"}
              /\ lease'[r] = 0 /\ slot'[r] = FALSE /\ epoch'[r] = FALSE
        /\ OwnerType'
        /\ owner'[r] = [NewOwner EXCEPT !.pc = "done", !.broken = owner[r].broken]
    BY LeaveCountDoes
  <1>2. RowType(r)
    BY TypesAt
  <1>3. WorkStage(r)'
    BY <1>1, <1>2 DEF Settled, WorkStage
  <1>4. PlanStage(r)'
    BY <1>1, <1>2 DEF PlanStage
  <1>5. HeldStage(r)'
    BY <1>1, <1>2 DEF Settled, WorkStage, HeldStage, Busy, Leased, Slotted, Shared, InLoop
  <1>6. Broken(r)'
    BY <1>1, <1>2 DEF Settled, Broken
  <1>7. ClientTruth(r)'
    BY <1>1, <1>2 DEF Settled, ClientTruth
  <1>8. ChatTruth(r)'
    BY <1>1, <1>2 DEF ChatTruth
  <1>9. ChoiceTruth(r)'
    BY <1>1, <1>2 DEF ChoiceTruth
  <1>10. Truthful(r)'
    BY <1>1, <1>2 DEF Truthful
  <1> QED BY <1>3, <1>4, <1>5, <1>6, <1>7, <1>8, <1>9, <1>10 DEF Settled

\* Counted keeps what is known of its request.
LEMMA CountedKeeps ==
    ASSUME Types, NEW r \in Requests, Settled(r), Counted(r)
    PROVE  Settled(r)'
  <1>1. /\ UNCHANGED <<kind, model, client, cancelled, notified, cause, queue, final, engine,
                       outcome>>
        /\ kind[r] = "count"
        /\ work'[r] = "none"
        /\ lease'[r] = 0 /\ slot'[r] = FALSE /\ epoch'[r] = FALSE
    BY CountedDoes
  <1>2. RowType(r)
    BY TypesAt
  <1>3. /\ owner'[r].after = owner[r].after
        /\ owner'[r].connected = owner[r].connected
        /\ owner'[r].terminal = owner[r].terminal
        /\ owner'[r].failed = owner[r].failed
        /\ owner'[r].item = owner[r].item
        /\ owner'[r].broken = owner[r].broken
        /\ \/ owner[r].pc # "counting" /\ owner'[r].pc = owner[r].pc
           \/ owner[r].pc = "counting" /\ owner'[r].pc = "answer"
    <2>1. owner[r] \in Owner
      BY <1>2 DEF RowType
    <2>2. PICK x \in {"none", "Core"} :
          \/ owner[r].pc # "counting" /\ owner'[r] = owner[r]
          \/ owner[r].pc = "counting" /\ owner'[r] = [owner[r] EXCEPT !.pc = "answer", !.err = x]
      BY CountedDoes
    <2>3. /\ owner'[r].after = owner[r].after
          /\ owner'[r].connected = owner[r].connected
          /\ owner'[r].terminal = owner[r].terminal
          /\ owner'[r].failed = owner[r].failed
          /\ owner'[r].item = owner[r].item
          /\ owner'[r].broken = owner[r].broken
      BY <2>1, <2>2 DEF Owner
    <2>4. \/ owner[r].pc # "counting" /\ owner'[r].pc = owner[r].pc
          \/ owner[r].pc = "counting" /\ owner'[r].pc = "answer"
      BY <2>1, <2>2 DEF Owner
    <2> QED BY <2>3, <2>4
  <1>4. WorkStage(r)'
    BY <1>1, <1>2, <1>3 DEF RowType, Client, Settled, WorkStage, Finishing
  <1>5. PlanStage(r)'
    BY <1>1, <1>2, <1>3 DEF Settled, PlanStage, WorkStage
  <1>6. HeldStage(r)'
    <2>1. work[r] = "running"
      BY DEF Counted, Counting
    <2>2. owner'[r].pc \notin Leased \cup Slotted \cup Shared
      BY <1>1, <1>3, <2>1 DEF Settled, WorkStage, Leased, Slotted, Shared, InLoop
    <2>3. ~Busy(r)'
      BY <1>1 DEF Busy
    <2> QED BY <1>1, <2>2, <2>3 DEF HeldStage
  <1>7. Broken(r)'
    BY <1>1, <1>2, <1>3 DEF RowType, Client, Settled, Broken, HeldStage
  <1>8. ClientTruth(r)'
    BY <1>1, <1>2, <1>3 DEF Settled, ClientTruth, Generation
  <1>9. ChatTruth(r)'
    BY <1>1, <1>2, <1>3 DEF ChatTruth
  <1>10. ChoiceTruth(r)'
    BY <1>1, <1>2, <1>3 DEF ChoiceTruth
  <1>11. Truthful(r)'
    BY <1>1, <1>2, <1>3 DEF Settled, Truthful
  <1> QED BY <1>4, <1>5, <1>6, <1>7, <1>8, <1>9, <1>10, <1>11 DEF Settled

\* Answer keeps what is known of its request.
LEMMA AnswerKeeps ==
    ASSUME Types, NEW r \in Requests, Settled(r), Answer(r)
    PROVE  Settled(r)'
  <1>1. /\ UNCHANGED <<kind, model, cancelled, cause, queue, final, work, lease, slot, epoch,
                       engine>>
        /\ owner[r].pc = "answer"
        /\ notified'[r] = FALSE
        /\ \/ client[r].st # "waiting" /\ client' = client
           \/ client[r].st = "waiting" /\ client'[r] =
                 [st |-> "ended", got |-> IF owner[r].err = "none" THEN "all" ELSE "err"]
        /\ kind[r] \in {"chat", "choice"} => outcome'[r] = "Cancelled"
        /\ outcome'[r] = "Success" => owner[r].err = "none"
        /\ outcome'[r] # "active"
        /\ OwnerType'
        /\ owner'[r] = [NewOwner EXCEPT !.pc = "done", !.broken = owner[r].broken]
    BY AnswerDoes
  <1>2. RowType(r)
    BY TypesAt
  <1>3. WorkStage(r)'
    BY <1>1, <1>2 DEF Settled, WorkStage, Finishing
  <1>4. PlanStage(r)'
    BY <1>1, <1>2 DEF PlanStage
  <1>5. HeldStage(r)'
    BY <1>1, <1>2 DEF Settled, HeldStage, Busy, Leased, Slotted, Shared, InLoop
  <1>6. Broken(r)'
    BY <1>1, <1>2 DEF Settled, Broken
  <1>7. ClientTruth(r)'
    BY <1>1, <1>2 DEF Settled, ClientTruth, Generation, InLoop
  <1>8. ChatTruth(r)'
    BY <1>1, <1>2 DEF Settled, ChatTruth, ClientTruth, Bound, NewOwner
  <1>9. ChoiceTruth(r)'
    BY <1>1, <1>2 DEF Settled, ChoiceTruth, NewOwner
  <1>10. Truthful(r)'
    BY <1>1, <1>2 DEF Settled, Truthful, ClientTruth, ChatTruth
  <1> QED BY <1>3, <1>4, <1>5, <1>6, <1>7, <1>8, <1>9, <1>10 DEF Settled

\* Quit keeps what is known of its request.
LEMMA QuitKeeps ==
    ASSUME Types, NEW r \in Requests, Settled(r), Quit(r)
    PROVE  Settled(r)'
  <1>1. /\ UNCHANGED <<kind, model, client, cancelled, cause, queue, final, work, lease,
                       slot, epoch, engine>>
        /\ owner[r].pc = "quit"
        /\ notified'[r] = FALSE
        /\ outcome'[r] = "Cancelled"
        /\ OwnerType'
        /\ owner'[r] = [NewOwner EXCEPT !.pc = "done", !.broken = owner[r].broken]
    BY QuitDoes
  <1>2. RowType(r)
    BY TypesAt
  <1>3. WorkStage(r)'
    BY <1>1, <1>2 DEF Settled, WorkStage, Finishing
  <1>4. PlanStage(r)'
    BY <1>1, <1>2 DEF PlanStage
  <1>5. HeldStage(r)'
    BY <1>1, <1>2 DEF Settled, HeldStage, Busy, Leased, Slotted, Shared, InLoop
  <1>6. Broken(r)'
    BY <1>1, <1>2 DEF Settled, Broken
  <1>7. ClientTruth(r)'
    BY <1>1, <1>2 DEF Settled, ClientTruth, Generation, InLoop
  <1>8. ChatTruth(r)'
    BY <1>1, <1>2 DEF Settled, ChatTruth, ClientTruth, Bound, NewOwner
  <1>9. ChoiceTruth(r)'
    BY <1>1, <1>2 DEF Settled, ChoiceTruth, NewOwner
  <1>10. Truthful(r)'
    BY <1>1, <1>2 DEF Settled, Truthful, ClientTruth
  <1> QED BY <1>3, <1>4, <1>5, <1>6, <1>7, <1>8, <1>9, <1>10 DEF Settled

\* DeliverChat keeps what is known of its request.
LEMMA DeliverChatKeeps ==
    ASSUME Types, NEW r \in Requests, Settled(r), DeliverChat(r)
    PROVE  Settled(r)'
  <1>1. /\ UNCHANGED <<kind, model, client, cancelled, cause, queue, work, lease, slot,
                       epoch, engine>>
        /\ owner[r].pc = "deliver"
        /\ kind[r] = "chat"
        /\ notified'[r] = FALSE
        /\ final'[r] # "open"
        /\ owner[r].connected /\ (owner[r].terminal \/ owner[r].err # "none") =>
              /\ final'[r] \in {"err", "all"}
              /\ (final'[r] = "all" <=> outcome'[r] = "Success")
        /\ outcome'[r] \in {"Success", "ServerError"}
        /\ OwnerType'
        /\ owner'[r] = [NewOwner EXCEPT !.pc = "done", !.broken = owner[r].broken]
    BY DeliverChatDoes
  <1>2. RowType(r)
    BY TypesAt
  <1>3. WorkStage(r)'
    BY <1>1, <1>2 DEF Settled, WorkStage, Finishing
  <1>4. PlanStage(r)'
    BY <1>1, <1>2 DEF PlanStage
  <1>5. HeldStage(r)'
    BY <1>1, <1>2 DEF Settled, HeldStage, Busy, Leased, Slotted, Shared, InLoop
  <1>6. Broken(r)'
    BY <1>1, <1>2 DEF Settled, Broken
  <1>7. ClientTruth(r)'
    BY <1>1, <1>2 DEF Settled, ClientTruth, Generation, InLoop
  <1>8. ChatTruth(r)'
    BY <1>1, <1>2 DEF Settled, ChatTruth, Bound, NewOwner
  <1>9. ChoiceTruth(r)'
    BY <1>1, <1>2 DEF ChoiceTruth
  <1>10. Truthful(r)'
    BY <1>1, <1>2 DEF Settled, Truthful, ClientTruth
  <1> QED BY <1>3, <1>4, <1>5, <1>6, <1>7, <1>8, <1>9, <1>10 DEF Settled

\* DeliverChoice keeps what is known of its request.
LEMMA DeliverChoiceKeeps ==
    ASSUME Types, NEW r \in Requests, Settled(r), DeliverChoice(r)
    PROVE  Settled(r)'
  <1>1. /\ UNCHANGED <<kind, model, client, cancelled, cause, work, lease, slot, epoch,
                       engine>>
        /\ owner[r].pc = "deliver"
        /\ kind[r] = "choice"
        /\ notified'[r] = FALSE
        /\ final'[r] = "dropped"
        /\ queue' = queue \/ queue'[r] = Append(queue[r], "err")
        /\ outcome'[r] = "Success" => owner[r].terminal /\ ~owner[r].failed /\ owner[r].connected
        /\ outcome'[r] # "active"
        /\ OwnerType'
        /\ owner'[r] = [NewOwner EXCEPT !.pc = "done", !.broken = owner[r].broken]
    BY DeliverChoiceDoes
  <1>2. RowType(r)
    BY TypesAt
  <1>3. WorkStage(r)'
    BY <1>1, <1>2 DEF Settled, WorkStage, Finishing
  <1>4. PlanStage(r)'
    BY <1>1, <1>2 DEF PlanStage
  <1>5. HeldStage(r)'
    BY <1>1, <1>2 DEF Settled, HeldStage, Busy, Leased, Slotted, Shared, InLoop
  <1>6. Broken(r)'
    BY <1>1, <1>2 DEF Settled, Broken
  <1>7. ClientTruth(r)'
    BY <1>1, <1>2 DEF Settled, ClientTruth, Generation, InLoop
  <1>8. ChatTruth(r)'
    BY <1>1, <1>2 DEF ChatTruth
  <1>9. ChoiceTruth(r)'
    BY <1>1, <1>2 DEF Settled, ChoiceTruth, NewOwner
  <1>10. Truthful(r)'
    BY <1>1, <1>2 DEF Settled, Truthful, ClientTruth
  <1> QED BY <1>3, <1>4, <1>5, <1>6, <1>7, <1>8, <1>9, <1>10 DEF Settled

\* DeliverEmbedding keeps what is known of its request.
LEMMA DeliverEmbeddingKeeps ==
    ASSUME Types, NEW r \in Requests, Settled(r), DeliverEmbedding(r)
    PROVE  Settled(r)'
  <1>1. /\ UNCHANGED <<kind, model, client, cancelled, notified, cause, queue, final, work,
                       lease, slot, epoch, engine, outcome>>
        /\ owner[r].pc = "deliver"
        /\ kind[r] = "embed"
        /\ OwnerType'
        /\ owner'[r] = [owner[r] EXCEPT !.pc = "answer"]
    BY DeliverEmbeddingDoes
  <1>2. RowType(r)
    BY TypesAt
  <1>3. WorkStage(r)'
    BY <1>1, <1>2 DEF RowType, Owner, Client, Settled, WorkStage, Finishing
  <1>4. PlanStage(r)'
    BY <1>1, <1>2 DEF PlanStage
  <1>5. HeldStage(r)'
    BY <1>1, <1>2 DEF Settled, HeldStage, Busy, Leased, Slotted, Shared, InLoop
  <1>6. Broken(r)'
    BY <1>1, <1>2 DEF RowType, Owner, Client, Settled, Broken, HeldStage
  <1>7. ClientTruth(r)'
    BY <1>1, <1>2 DEF Settled, ClientTruth, Generation
  <1>8. ChatTruth(r)'
    BY <1>1, <1>2 DEF ChatTruth
  <1>9. ChoiceTruth(r)'
    BY <1>1, <1>2 DEF ChoiceTruth
  <1>10. Truthful(r)'
    BY <1>1, <1>2 DEF Settled, Truthful
  <1> QED BY <1>3, <1>4, <1>5, <1>6, <1>7, <1>8, <1>9, <1>10 DEF Settled

\* ClientCancel keeps what is known of its request.
LEMMA ClientCancelKeeps ==
    ASSUME Types, NEW r \in Requests, NEW c \in {"client", "buffer"}, Settled(r),
        ClientCancel(r, c)
    PROVE  Settled(r)'
  <1>1. /\ UNCHANGED <<kind, model, owner, client, queue, final, work, lease, slot, epoch,
                       engine, outcome>>
        /\ client[r].st = "holding"
        /\ cancelled[r] => cancelled'[r]
        /\ cancelled'[r] \/ cause[r] # "none"
        /\ notified'[r] => notified[r] \/ cancelled'[r]
    BY ClientCancelDoes
  <1>2. RowType(r)
    BY TypesAt
  <1>3. WorkStage(r)'
    BY <1>1, <1>2 DEF RowType, Owner, Client, Settled, WorkStage, Finishing
  <1>4. PlanStage(r)'
    BY <1>1, <1>2 DEF Settled, PlanStage
  <1>5. HeldStage(r)'
    BY <1>1, <1>2 DEF Settled, HeldStage, Busy
  <1>6. Broken(r)'
    BY <1>1, <1>2 DEF RowType, Owner, Client, Settled, Broken, HeldStage
  <1>7. ClientTruth(r)'
    BY <1>1, <1>2 DEF Settled, ClientTruth, Generation
  <1>8. ChatTruth(r)'
    BY <1>1, <1>2 DEF Settled, ChatTruth, Bound
  <1>9. ChoiceTruth(r)'
    BY <1>1, <1>2 DEF Settled, ChoiceTruth, Bound
  <1>10. Truthful(r)'
    BY <1>1, <1>2 DEF Truthful
  <1> QED BY <1>3, <1>4, <1>5, <1>6, <1>7, <1>8, <1>9, <1>10 DEF Settled

\* ClientDrop keeps what is known of its request.
LEMMA ClientDropKeeps ==
    ASSUME Types, NEW r \in Requests, Settled(r), ClientDrop(r)
    PROVE  Settled(r)'
  <1>1. /\ UNCHANGED <<kind, model, owner, final, work, lease, slot, epoch, engine, outcome>>
        /\ client[r].st = "holding" /\ client'[r] = [client[r] EXCEPT !.st = "gone"]
        /\ cancelled[r] => cancelled'[r]
        /\ cancelled'[r] \/ cause[r] # "none"
        /\ notified'[r] => notified[r] \/ cancelled'[r]
    BY ClientDropDoes
  <1>2. RowType(r)
    BY TypesAt
  <1>3. WorkStage(r)'
    BY <1>1, <1>2 DEF RowType, Owner, Client, Settled, WorkStage, Finishing
  <1>4. PlanStage(r)'
    BY <1>1, <1>2 DEF Settled, PlanStage
  <1>5. HeldStage(r)'
    BY <1>1, <1>2 DEF Settled, HeldStage, Busy
  <1>6. Broken(r)'
    BY <1>1, <1>2 DEF RowType, Owner, Client, Settled, Broken, HeldStage
  <1>7. ClientTruth(r)'
    BY <1>1, <1>2 DEF Settled, ClientTruth, Generation
  <1>8. ChatTruth(r)'
    BY <1>1, <1>2 DEF Settled, ChatTruth, Bound
  <1>9. ChoiceTruth(r)'
    BY <1>1, <1>2 DEF Settled, ChoiceTruth, Bound
  <1>10. Truthful(r)'
    BY <1>1, <1>2 DEF Truthful
  <1> QED BY <1>3, <1>4, <1>5, <1>6, <1>7, <1>8, <1>9, <1>10 DEF Settled

\* ClientRecv keeps what is known of its request.
LEMMA ClientRecvKeeps ==
    ASSUME Types, NEW r \in Requests, Settled(r), ClientRecv(r)
    PROVE  Settled(r)'
  <1>1. /\ UNCHANGED <<kind, model, owner, cancelled, notified, cause, final, work, lease,
                       slot, epoch, engine, outcome>>
        /\ client[r].st = "holding" /\ queue[r] # <<>> /\ queue'[r] = Tail(queue[r])
        /\ client'[r] = [client[r] EXCEPT !.got = IF client[r].got = "all" THEN "all" ELSE Head(queue[r])]
    BY ClientRecvDoes
  <1>2. RowType(r)
    BY TypesAt
  <1>3. WorkStage(r)'
    BY <1>1, <1>2 DEF RowType, Owner, Client, Settled, WorkStage, Finishing
  <1>4. PlanStage(r)'
    BY <1>1, <1>2 DEF Settled, PlanStage
  <1>5. HeldStage(r)'
    BY <1>1, <1>2 DEF Settled, HeldStage, Busy
  <1>6. Broken(r)'
    BY <1>1, <1>2 DEF RowType, Owner, Client, Settled, Broken, HeldStage
  <1>7. ClientTruth(r)'
    <2>1. Head(queue[r]) \in Items \cup {"none", "err"}
      BY <1>1, <1>2 DEF RowType
    <2>2. client'[r].st = "holding" /\ client'[r].got # "ownerlost"
      BY <1>1, <1>2, <2>1 DEF RowType, Client, Items
    <2>3. owner[r].pc # "idle"
      BY <1>1 DEF Settled, ClientTruth
    <2> QED BY <1>1, <2>2, <2>3 DEF Settled, ClientTruth, Generation
  <1>8. ChatTruth(r)'
    BY <1>1, <1>2 DEF Settled, ChatTruth, Bound
  <1>9. ChoiceTruth(r)'
    <2>1. ASSUME \/ client[r].got = "all"
                 \/ \E i \in 1..Len(queue[r]) : queue[r][i] = "all"
          PROVE  \/ client'[r].got = "all"
                 \/ \E i \in 1..Len(queue'[r]) : queue'[r][i] = "all"
      <3>1. CASE client[r].got = "all"
        BY <1>1, <1>2, <3>1 DEF RowType, Client
      <3>2. ASSUME NEW i \in 1..Len(queue[r]), queue[r][i] = "all", client[r].got # "all"
            PROVE  \/ client'[r].got = "all"
                   \/ \E j \in 1..Len(queue'[r]) : queue'[r][j] = "all"
        <4>1. CASE i = 1
          <5>1. Head(queue[r]) = "all"
            BY <3>2, <4>1
          <5> QED BY <1>1, <1>2, <3>2, <5>1 DEF RowType, Client
        <4>2. CASE i # 1
          <5>1. queue[r] \in Seq(Items \cup {"none", "err"})
            BY <1>2 DEF RowType
          <5>2. i - 1 \in 1..Len(Tail(queue[r])) /\ Tail(queue[r])[i - 1] = queue[r][i]
            BY <3>2, <4>2, <5>1
          <5> QED BY <1>1, <3>2, <5>2
        <4> QED BY <4>1, <4>2
      <3> QED BY <2>1, <3>1, <3>2
    <2>2. client'[r].st = client[r].st
      BY <1>1, <1>2 DEF RowType, Client
    <2> QED BY <1>1, <2>1, <2>2 DEF Settled, ChoiceTruth, Bound
  <1>10. Truthful(r)'
    BY <1>1, <1>2 DEF Truthful
  <1> QED BY <1>3, <1>4, <1>5, <1>6, <1>7, <1>8, <1>9, <1>10 DEF Settled

\* ClientEnd keeps what is known of its request.
LEMMA ClientEndKeeps ==
    ASSUME Types, NEW r \in Requests, Settled(r), ClientEnd(r)
    PROVE  Settled(r)'
  <1>1. /\ UNCHANGED <<kind, model, owner, cancelled, notified, cause, queue, final, work,
                       lease, slot, epoch, engine, outcome>>
        /\ client[r].st = "holding" /\ queue[r] = <<>> /\ final[r] # "open"
        /\ client'[r] = [st |-> "ended", got |-> IF final[r] # "dropped" THEN final[r]
                     ELSE IF kind[r] = "chat" THEN "ownerlost" ELSE client[r].got]
    BY ClientEndDoes
  <1>2. RowType(r)
    BY TypesAt
  <1>3. WorkStage(r)'
    BY <1>1, <1>2 DEF RowType, Owner, Client, Settled, WorkStage, Finishing
  <1>4. PlanStage(r)'
    BY <1>1, <1>2 DEF Settled, PlanStage
  <1>5. HeldStage(r)'
    BY <1>1, <1>2 DEF Settled, HeldStage, Busy
  <1>6. Broken(r)'
    BY <1>1, <1>2 DEF RowType, Owner, Client, Settled, Broken, HeldStage
  <1>7. ClientTruth(r)'
    BY <1>1, <1>2 DEF RowType, Settled, ClientTruth, Generation, InLoop
  <1>8. ChatTruth(r)'
    BY <1>1, <1>2 DEF Settled, ChatTruth, Bound
  <1>9. ChoiceTruth(r)'
    BY <1>1, <1>2 DEF Settled, ChoiceTruth, Bound
  <1>10. Truthful(r)'
    BY <1>1, <1>2 DEF Settled, Truthful, ClientTruth, ChatTruth, ChoiceTruth, Generation
  <1> QED BY <1>3, <1>4, <1>5, <1>6, <1>7, <1>8, <1>9, <1>10 DEF Settled

\* Acked keeps what is known of its request.
LEMMA AckedKeeps ==
    ASSUME Types, NEW r \in Requests, Settled(r), Acked(r)
    PROVE  Settled(r)'
  <1>1. /\ UNCHANGED <<kind, model, client, cancelled, notified, cause, queue, final, work,
                       engine, outcome>>
        /\ owner[r].pc = "ack" /\ work[r] \in {"none", "adrift"}
        /\ IF owner[r].after = "drop"
           THEN lease'[r] = 0 /\ slot'[r] = FALSE /\ epoch'[r] = FALSE
           ELSE UNCHANGED <<lease, slot, epoch>>
    BY AckedDoes
  <1>2. RowType(r)
    BY TypesAt
  <1>3. /\ owner[r].err # "none" => owner'[r].err # "none"
        /\ owner'[r].after = owner[r].after
        /\ owner'[r].connected = owner[r].connected
        /\ owner'[r].terminal = owner[r].terminal
        /\ owner'[r].failed = owner[r].failed
        /\ owner'[r].item = owner[r].item
        /\ owner'[r].broken = owner[r].broken
        /\ \/ (lease[r] = 0 \/ owner[r].after = "drop") /\ owner'[r].pc = "answer"
           \/ lease[r] # 0 /\ owner[r].after # "drop" /\ owner'[r].pc = "retire"
    <2>1. owner[r] \in Owner
      BY <1>2 DEF RowType
    <2>2. PICK x \in Errors \cup {"none"} :
             /\ owner[r].err # "none" => x # "none"
             /\ \/ /\ lease[r] = 0 \/ owner[r].after = "drop"
                   /\ owner'[r] = [owner[r] EXCEPT !.pc = "answer", !.err = x]
                \/ /\ lease[r] # 0 /\ owner[r].after # "drop"
                   /\ owner'[r] = [owner[r] EXCEPT !.pc = "retire", !.err = x]
      BY AckedDoes
    <2>3. /\ owner'[r].after = owner[r].after
          /\ owner'[r].connected = owner[r].connected
          /\ owner'[r].terminal = owner[r].terminal
          /\ owner'[r].failed = owner[r].failed
          /\ owner'[r].item = owner[r].item
          /\ owner'[r].broken = owner[r].broken
      BY <2>1, <2>2 DEF Owner
    <2>4. owner[r].err # "none" => owner'[r].err # "none"
      BY <2>1, <2>2 DEF Owner
    <2>5. \/ (lease[r] = 0 \/ owner[r].after = "drop") /\ owner'[r].pc = "answer"
          \/ lease[r] # 0 /\ owner[r].after # "drop" /\ owner'[r].pc = "retire"
      BY <2>1, <2>2 DEF Owner
    <2> QED BY <2>3, <2>4, <2>5
  <1>4. WorkStage(r)'
    BY <1>1, <1>2, <1>3 DEF RowType, Client, Settled, WorkStage, Finishing
  <1>5. PlanStage(r)'
    BY <1>1, <1>2, <1>3 DEF Settled, PlanStage
  <1>6. HeldStage(r)'
    BY <1>1, <1>2, <1>3 DEF Settled, HeldStage, Busy, Leased, Slotted, Shared, InLoop
  <1>7. Broken(r)'
    BY <1>1, <1>2, <1>3 DEF RowType, Client, Settled, Broken, HeldStage
  <1>8. ClientTruth(r)'
    BY <1>1, <1>2, <1>3 DEF Settled, ClientTruth, Generation, InLoop
  <1>9. ChatTruth(r)'
    BY <1>1, <1>2, <1>3 DEF Settled, ChatTruth, Bound, PlanStage
  <1>10. ChoiceTruth(r)'
    BY <1>1, <1>2, <1>3 DEF Settled, ChoiceTruth, Bound, PlanStage
  <1>11. Truthful(r)'
    BY <1>1, <1>2, <1>3 DEF Settled, Truthful
  <1> QED BY <1>4, <1>5, <1>6, <1>7, <1>8, <1>9, <1>10, <1>11 DEF Settled

\* Next1 keeps what is known of its request for a chat generation.
LEMMA Next1ChatKeeps ==
    ASSUME Types, NEW r \in Requests, Settled(r), kind[r] = "chat",
           Next1(r)
    PROVE  Settled(r)'
  <1>1. /\ UNCHANGED <<kind, model, client, cancelled, notified, cause, queue, final, lease,
                       slot,
                       epoch, engine, outcome>>
        /\ owner[r].pc = "next" /\ work'[r] \in {"running", "over"}
        /\ OwnerType'
        /\ owner'[r].connected = owner[r].connected /\ owner'[r].broken = owner[r].broken
        /\ \/ /\ owner'[r].pc = "ack" /\ owner'[r].after = "deliver"
              /\ owner'[r].terminal \/ owner'[r].err # "none"
           \/ owner'[r].pc \in {"next", "send"}
    BY Next1ChatDoes
  <1>2. RowType(r)
    BY TypesAt
  <1>3. WorkStage(r)'
    BY <1>1, <1>2 DEF RowType, Owner, Client, Settled, WorkStage, Finishing
  <1>4. PlanStage(r)'
    BY <1>1, <1>2 DEF Settled, PlanStage, HeldStage, Leased, InLoop
  <1>5. HeldStage(r)'
    BY <1>1, <1>2 DEF Settled, HeldStage, Leased, Slotted, Shared, InLoop
  <1>6. Broken(r)'
    BY <1>1, <1>2 DEF RowType, Owner, Client, Settled, Broken, HeldStage
  <1>7. ClientTruth(r)'
    BY <1>1, <1>2 DEF Settled, ClientTruth, Generation, InLoop
  <1>8. ChatTruth(r)'
    BY <1>1, <1>2 DEF Settled, ChatTruth, Bound
  <1>9. ChoiceTruth(r)'
    BY <1>1, <1>2 DEF ChoiceTruth
  <1>10. Truthful(r)'
    BY <1>1, <1>2 DEF Settled, Truthful
  <1> QED BY <1>3, <1>4, <1>5, <1>6, <1>7, <1>8, <1>9, <1>10 DEF Settled

\* Next1 keeps what is known of its request for a choice generation.
LEMMA Next1ChoiceKeeps ==
    ASSUME Types, NEW r \in Requests, Settled(r), kind[r] = "choice",
           Next1(r)
    PROVE  Settled(r)'
  <1>1. /\ UNCHANGED <<kind, model, client, cancelled, notified, cause, queue, final, lease,
                       slot,
                       epoch, engine, outcome>>
        /\ owner[r].pc = "next" /\ work'[r] \in {"running", "child", "childbad", "over"}
        /\ OwnerType'
        /\ owner'[r].broken = owner[r].broken
        /\ owner'[r].failed => owner'[r].terminal
        /\ \/ /\ owner'[r].pc = "ack" /\ owner'[r].after = "deliver"
              /\ owner'[r].terminal => ~owner'[r].connected
           \/ owner'[r].pc = "top" /\ ~owner'[r].terminal
           \/ /\ owner'[r].pc = "send"
              /\ owner'[r].terminal =>
                   owner'[r].item = IF owner'[r].failed THEN "failed" ELSE "all"
    BY Next1ChoiceDoes
  <1>2. RowType(r)
    BY TypesAt
  <1>3. WorkStage(r)'
    BY <1>1, <1>2 DEF RowType, Owner, Client, Settled, WorkStage, Finishing
  <1>4. PlanStage(r)'
    BY <1>1, <1>2 DEF Settled, PlanStage, HeldStage, Leased, InLoop
  <1>5. HeldStage(r)'
    BY <1>1, <1>2 DEF Settled, HeldStage, Leased, Slotted, Shared, InLoop
  <1>6. Broken(r)'
    BY <1>1, <1>2 DEF RowType, Owner, Client, Settled, Broken, HeldStage
  <1>7. ClientTruth(r)'
    BY <1>1, <1>2 DEF Settled, ClientTruth, Generation, InLoop
  <1>8. ChatTruth(r)'
    BY <1>1, <1>2 DEF ChatTruth
  <1>9. ChoiceTruth(r)'
    BY <1>1, <1>2 DEF Settled, ChoiceTruth, Bound
  <1>10. Truthful(r)'
    BY <1>1, <1>2 DEF Settled, Truthful
  <1> QED BY <1>3, <1>4, <1>5, <1>6, <1>7, <1>8, <1>9, <1>10 DEF Settled

\* Next1 keeps what is known of its request for an embedding.
LEMMA Next1EmbedKeeps ==
    ASSUME Types, NEW r \in Requests, Settled(r), kind[r] = "embed",
           Next1(r)
    PROVE  Settled(r)'
  <1>1. /\ UNCHANGED <<kind, model, client, cancelled, notified, cause, queue, final, lease,
                       slot,
                       epoch, engine, outcome>>
        /\ owner[r].pc = "next" /\ work'[r] \in {"over"}
        /\ OwnerType'
        /\ owner'[r].pc = "ack" /\ owner'[r].after = "deliver"
        /\ owner'[r].broken = owner[r].broken
    BY Next1EmbedDoes
  <1>2. RowType(r)
    BY TypesAt
  <1>3. WorkStage(r)'
    BY <1>1, <1>2 DEF RowType, Owner, Client, Settled, WorkStage, Finishing
  <1>4. PlanStage(r)'
    BY <1>1, <1>2 DEF Settled, PlanStage, HeldStage, Leased, InLoop
  <1>5. HeldStage(r)'
    BY <1>1, <1>2 DEF Settled, HeldStage, Leased, Slotted, Shared, InLoop
  <1>6. Broken(r)'
    BY <1>1, <1>2 DEF RowType, Owner, Client, Settled, Broken, HeldStage
  <1>7. ClientTruth(r)'
    BY <1>1, <1>2 DEF Settled, ClientTruth, Generation
  <1>8. ChatTruth(r)'
    BY <1>1, <1>2 DEF ChatTruth
  <1>9. ChoiceTruth(r)'
    BY <1>1, <1>2 DEF ChoiceTruth
  <1>10. Truthful(r)'
    BY <1>1, <1>2 DEF Settled, Truthful
  <1> QED BY <1>3, <1>4, <1>5, <1>6, <1>7, <1>8, <1>9, <1>10 DEF Settled

\* LoopInterrupted keeps what is known of its request for a chat generation.
LEMMA LoopInterruptedChatKeeps ==
    ASSUME Types, NEW r \in Requests, Settled(r), kind[r] = "chat", NEW e \in Errors,
           LoopInterrupted(r, e)
    PROVE  Settled(r)'
  <1>1. /\ UNCHANGED <<kind, model, client, cancelled, cause, queue, final, work, lease, slot,
                       epoch, engine, outcome>>
        /\ owner[r].pc \in {"next", "send"}
        /\ \/ notified' = notified /\ e # "Cancelled"
           \/ notified'[r] = FALSE /\ notified[r] /\ e = "Cancelled"
        /\ OwnerType'
        /\ owner'[r].pc = "next" /\ owner'[r].broken = owner[r].broken
        /\ e # "Cancelled" => owner'[r].connected = owner[r].connected
    BY LoopInterruptedChatDoes
  <1>2. RowType(r)
    BY TypesAt
  <1>3. WorkStage(r)'
    BY <1>1, <1>2 DEF RowType, Owner, Client, Settled, WorkStage, Finishing
  <1>4. PlanStage(r)'
    BY <1>1, <1>2 DEF PlanStage
  <1>5. HeldStage(r)'
    BY <1>1, <1>2 DEF Settled, HeldStage, Leased, Slotted, Shared, InLoop
  <1>6. Broken(r)'
    BY <1>1, <1>2 DEF RowType, Owner, Client, Settled, Broken, HeldStage
  <1>7. ClientTruth(r)'
    BY <1>1, <1>2 DEF Settled, ClientTruth, Generation, InLoop
  <1>8. ChatTruth(r)'
    BY <1>1, <1>2 DEF Settled, ChatTruth, ClientTruth, Bound
  <1>9. ChoiceTruth(r)'
    BY <1>1, <1>2 DEF ChoiceTruth
  <1>10. Truthful(r)'
    BY <1>1, <1>2 DEF Settled, Truthful
  <1> QED BY <1>3, <1>4, <1>5, <1>6, <1>7, <1>8, <1>9, <1>10 DEF Settled

\* LoopInterrupted keeps what is known of its request for a choice generation.
LEMMA LoopInterruptedChoiceKeeps ==
    ASSUME Types, NEW r \in Requests, Settled(r), kind[r] = "choice", NEW e \in Errors,
           LoopInterrupted(r, e)
    PROVE  Settled(r)'
  <1>1. /\ UNCHANGED <<kind, model, client, cancelled, cause, queue, final, work, lease, slot,
                       epoch, engine, outcome>>
        /\ owner[r].pc \in {"next", "send"}
        /\ \/ notified' = notified /\ e # "Cancelled"
           \/ notified'[r] = FALSE /\ notified[r] /\ e = "Cancelled"
        /\ OwnerType'
        /\ owner'[r].terminal = owner[r].terminal /\ owner'[r].failed = owner[r].failed
        /\ owner'[r].broken = owner[r].broken
        /\ owner'[r].connected => owner[r].connected
        /\ \/ /\ owner[r].pc = "send" /\ owner'[r].pc = "ack"
              /\ owner'[r].after = "deliver" /\ ~owner'[r].connected
           \/ owner[r].pc = "next" /\ owner'[r].pc = "top"
           \/ /\ owner[r].pc = "send" /\ owner'[r].pc = "top"
              /\ owner[r].item \notin {"all", "failed"}
    BY LoopInterruptedChoiceDoes
  <1>2. RowType(r)
    BY TypesAt
  <1>3. WorkStage(r)'
    BY <1>1, <1>2 DEF RowType, Owner, Client, Settled, WorkStage, Finishing
  <1>4. PlanStage(r)'
    BY <1>1, <1>2 DEF Settled, PlanStage, HeldStage, Leased, InLoop
  <1>5. HeldStage(r)'
    BY <1>1, <1>2 DEF Settled, HeldStage, Leased, Slotted, Shared, InLoop
  <1>6. Broken(r)'
    BY <1>1, <1>2 DEF RowType, Owner, Client, Settled, Broken, HeldStage
  <1>7. ClientTruth(r)'
    BY <1>1, <1>2 DEF Settled, ClientTruth, Generation, InLoop
  <1>8. ChatTruth(r)'
    BY <1>1, <1>2 DEF ChatTruth
  <1>9. ChoiceTruth(r)'
    BY <1>1, <1>2 DEF Settled, ChoiceTruth, Bound
  <1>10. Truthful(r)'
    BY <1>1, <1>2 DEF Settled, Truthful
  <1> QED BY <1>3, <1>4, <1>5, <1>6, <1>7, <1>8, <1>9, <1>10 DEF Settled

\* LoopInterrupted keeps what is known of its request for an embedding.
LEMMA LoopInterruptedEmbedKeeps ==
    ASSUME Types, NEW r \in Requests, Settled(r), kind[r] = "embed", NEW e \in Errors,
           LoopInterrupted(r, e)
    PROVE  Settled(r)'
  <1>1. /\ UNCHANGED <<kind, model, client, cancelled, cause, queue, final, work, lease, slot,
                       epoch, engine, outcome>>
        /\ owner[r].pc \in {"next", "send"}
        /\ \/ notified' = notified /\ e # "Cancelled"
           \/ notified'[r] = FALSE /\ notified[r] /\ e = "Cancelled"
        /\ OwnerType'
        /\ owner'[r].pc = "ack" /\ owner'[r].after = "deliver"
        /\ owner'[r].broken = owner[r].broken
    BY LoopInterruptedEmbedDoes
  <1>2. RowType(r)
    BY TypesAt
  <1>3. WorkStage(r)'
    BY <1>1, <1>2 DEF RowType, Owner, Client, Settled, WorkStage, Finishing
  <1>4. PlanStage(r)'
    BY <1>1, <1>2 DEF Settled, PlanStage, HeldStage, Leased, InLoop
  <1>5. HeldStage(r)'
    BY <1>1, <1>2 DEF Settled, HeldStage, Leased, Slotted, Shared, InLoop
  <1>6. Broken(r)'
    BY <1>1, <1>2 DEF RowType, Owner, Client, Settled, Broken, HeldStage
  <1>7. ClientTruth(r)'
    BY <1>1, <1>2 DEF Settled, ClientTruth, Generation
  <1>8. ChatTruth(r)'
    BY <1>1, <1>2 DEF ChatTruth
  <1>9. ChoiceTruth(r)'
    BY <1>1, <1>2 DEF ChoiceTruth
  <1>10. Truthful(r)'
    BY <1>1, <1>2 DEF Settled, Truthful
  <1> QED BY <1>3, <1>4, <1>5, <1>6, <1>7, <1>8, <1>9, <1>10 DEF Settled

\* SendFails keeps what is known of its request for a chat generation.
LEMMA SendFailsChatKeeps ==
    ASSUME Types, NEW r \in Requests, Settled(r), kind[r] = "chat",
           SendFails(r)
    PROVE  Settled(r)'
  <1>1. /\ UNCHANGED <<kind, model, client, cancelled, notified, cause, queue, final, work,
                       lease,
                       slot, epoch, engine, outcome>>
        /\ owner[r].pc = "send" /\ client[r].st # "holding"
        /\ OwnerType'
        /\ owner'[r].pc = "next" /\ owner'[r].broken = owner[r].broken
    BY SendFailsChatDoes
  <1>2. RowType(r)
    BY TypesAt
  <1>3. WorkStage(r)'
    BY <1>1, <1>2 DEF RowType, Owner, Client, Settled, WorkStage, Finishing
  <1>4. PlanStage(r)'
    BY <1>1, <1>2 DEF PlanStage
  <1>5. HeldStage(r)'
    BY <1>1, <1>2 DEF Settled, HeldStage, Leased, Slotted, Shared, InLoop
  <1>6. Broken(r)'
    BY <1>1, <1>2 DEF RowType, Owner, Client, Settled, Broken, HeldStage
  <1>7. ClientTruth(r)'
    BY <1>1, <1>2 DEF Settled, ClientTruth, InLoop
  <1>8. ChatTruth(r)'
    BY <1>1, <1>2 DEF Settled, ChatTruth, ClientTruth, Bound, InLoop
  <1>9. ChoiceTruth(r)'
    BY <1>1, <1>2 DEF ChoiceTruth
  <1>10. Truthful(r)'
    BY <1>1, <1>2 DEF Settled, Truthful
  <1> QED BY <1>3, <1>4, <1>5, <1>6, <1>7, <1>8, <1>9, <1>10 DEF Settled

\* SendFails keeps what is known of its request for a choice generation.
LEMMA SendFailsChoiceKeeps ==
    ASSUME Types, NEW r \in Requests, Settled(r), kind[r] = "choice",
           SendFails(r)
    PROVE  Settled(r)'
  <1>1. /\ UNCHANGED <<kind, model, client, cancelled, notified, cause, queue, final, work,
                       lease,
                       slot, epoch, engine, outcome>>
        /\ owner[r].pc = "send" /\ client[r].st # "holding"
        /\ OwnerType'
        /\ owner'[r].terminal = owner[r].terminal /\ owner'[r].failed = owner[r].failed
        /\ owner'[r].broken = owner[r].broken
        /\ owner'[r].connected => owner[r].connected
        /\ \/ /\ owner[r].pc = "send" /\ owner'[r].pc = "ack"
              /\ owner'[r].after = "deliver" /\ ~owner'[r].connected
           \/ owner[r].pc = "next" /\ owner'[r].pc = "top"
           \/ /\ owner[r].pc = "send" /\ owner'[r].pc = "top"
              /\ owner[r].item \notin {"all", "failed"}
    BY SendFailsChoiceDoes
  <1>2. RowType(r)
    BY TypesAt
  <1>3. WorkStage(r)'
    BY <1>1, <1>2 DEF RowType, Owner, Client, Settled, WorkStage, Finishing
  <1>4. PlanStage(r)'
    BY <1>1, <1>2 DEF Settled, PlanStage, HeldStage, Leased, InLoop
  <1>5. HeldStage(r)'
    BY <1>1, <1>2 DEF Settled, HeldStage, Leased, Slotted, Shared, InLoop
  <1>6. Broken(r)'
    BY <1>1, <1>2 DEF RowType, Owner, Client, Settled, Broken, HeldStage
  <1>7. ClientTruth(r)'
    BY <1>1, <1>2 DEF Settled, ClientTruth, InLoop
  <1>8. ChatTruth(r)'
    BY <1>1, <1>2 DEF ChatTruth
  <1>9. ChoiceTruth(r)'
    BY <1>1, <1>2 DEF Settled, ChoiceTruth, Bound
  <1>10. Truthful(r)'
    BY <1>1, <1>2 DEF Settled, Truthful
  <1> QED BY <1>3, <1>4, <1>5, <1>6, <1>7, <1>8, <1>9, <1>10 DEF Settled

\* SendFails keeps what is known of its request for an embedding.
LEMMA SendFailsEmbedKeeps ==
    ASSUME Types, NEW r \in Requests, Settled(r), kind[r] = "embed",
           SendFails(r)
    PROVE  Settled(r)'
  <1>1. /\ UNCHANGED <<kind, model, client, cancelled, notified, cause, queue, final, work,
                       lease,
                       slot, epoch, engine, outcome>>
        /\ owner[r].pc = "send" /\ client[r].st # "holding"
        /\ OwnerType'
        /\ owner'[r].pc = "ack" /\ owner'[r].after = "deliver"
        /\ owner'[r].broken = owner[r].broken
    BY SendFailsEmbedDoes
  <1>2. RowType(r)
    BY TypesAt
  <1>3. WorkStage(r)'
    BY <1>1, <1>2 DEF RowType, Owner, Client, Settled, WorkStage, Finishing
  <1>4. PlanStage(r)'
    BY <1>1, <1>2 DEF Settled, PlanStage, HeldStage, Leased, InLoop
  <1>5. HeldStage(r)'
    BY <1>1, <1>2 DEF Settled, HeldStage, Leased, Slotted, Shared, InLoop
  <1>6. Broken(r)'
    BY <1>1, <1>2 DEF RowType, Owner, Client, Settled, Broken, HeldStage
  <1>7. ClientTruth(r)'
    BY <1>1, <1>2 DEF Settled, ClientTruth
  <1>8. ChatTruth(r)'
    BY <1>1, <1>2 DEF ChatTruth
  <1>9. ChoiceTruth(r)'
    BY <1>1, <1>2 DEF ChoiceTruth
  <1>10. Truthful(r)'
    BY <1>1, <1>2 DEF Settled, Truthful
  <1> QED BY <1>3, <1>4, <1>5, <1>6, <1>7, <1>8, <1>9, <1>10 DEF Settled

\* Send keeps what is known of its request for a chat generation.
LEMMA SendChatKeeps ==
    ASSUME Types, NEW r \in Requests, Settled(r), kind[r] = "chat",
           Send(r)
    PROVE  Settled(r)'
  <1>1. /\ UNCHANGED <<kind, model, client, cancelled, notified, cause, final, work, lease,
                       slot,
                       epoch, engine, outcome>>
        /\ owner[r].pc = "send" /\ client[r].st = "holding"
        /\ queue'[r] = Append(queue[r], owner[r].item)
        /\ OwnerType'
        /\ owner'[r].pc = "next" /\ owner'[r].broken = owner[r].broken
        /\ owner'[r].connected = owner[r].connected
    BY SendChatDoes
  <1>2. RowType(r)
    BY TypesAt
  <1>3. WorkStage(r)'
    BY <1>1, <1>2 DEF RowType, Owner, Client, Settled, WorkStage, Finishing
  <1>4. PlanStage(r)'
    BY <1>1, <1>2 DEF PlanStage
  <1>5. HeldStage(r)'
    BY <1>1, <1>2 DEF Settled, HeldStage, Leased, Slotted, Shared, InLoop
  <1>6. Broken(r)'
    BY <1>1, <1>2 DEF RowType, Owner, Client, Settled, Broken, HeldStage
  <1>7. ClientTruth(r)'
    BY <1>1, <1>2 DEF Settled, ClientTruth, Generation
  <1>8. ChatTruth(r)'
    BY <1>1, <1>2 DEF Settled, ChatTruth, Bound
  <1>9. ChoiceTruth(r)'
    BY <1>1, <1>2 DEF ChoiceTruth
  <1>10. Truthful(r)'
    BY <1>1, <1>2 DEF Truthful
  <1> QED BY <1>3, <1>4, <1>5, <1>6, <1>7, <1>8, <1>9, <1>10 DEF Settled

\* Send keeps what is known of its request for a choice generation.
LEMMA SendChoiceKeeps ==
    ASSUME Types, NEW r \in Requests, Settled(r), kind[r] = "choice",
           Send(r)
    PROVE  Settled(r)'
  <1>1. /\ UNCHANGED <<kind, model, client, cancelled, notified, cause, final, work, lease,
                       slot,
                       epoch, engine, outcome>>
        /\ owner[r].pc = "send" /\ client[r].st = "holding"
        /\ queue'[r] = Append(queue[r], owner[r].item)
        /\ OwnerType'
        /\ owner'[r].terminal = owner[r].terminal /\ owner'[r].failed = owner[r].failed
        /\ owner'[r].connected = owner[r].connected /\ owner'[r].broken = owner[r].broken
        /\ \/ owner'[r].pc = "ack" /\ owner'[r].after = "deliver"
           \/ owner'[r].pc = "top" /\ owner[r].item \notin {"all", "failed"}
    BY SendChoiceDoes
  <1>2. RowType(r)
    BY TypesAt
  <1>3. WorkStage(r)'
    BY <1>1, <1>2 DEF RowType, Owner, Client, Settled, WorkStage, Finishing
  <1>4. PlanStage(r)'
    BY <1>1, <1>2 DEF Settled, PlanStage, HeldStage, Leased, InLoop
  <1>5. HeldStage(r)'
    BY <1>1, <1>2 DEF Settled, HeldStage, Leased, Slotted, Shared, InLoop
  <1>6. Broken(r)'
    BY <1>1, <1>2 DEF RowType, Owner, Client, Settled, Broken, HeldStage
  <1>7. ClientTruth(r)'
    BY <1>1, <1>2 DEF Settled, ClientTruth, Generation
  <1>8. ChatTruth(r)'
    BY <1>1, <1>2 DEF ChatTruth
  <1>9. ChoiceTruth(r)'
    BY <1>1, <1>2 DEF Settled, ChoiceTruth, WorkStage, Bound
  <1>10. Truthful(r)'
    BY <1>1, <1>2 DEF Truthful
  <1> QED BY <1>3, <1>4, <1>5, <1>6, <1>7, <1>8, <1>9, <1>10 DEF Settled

\* A step of one request changes nothing of another, but for the engine.
Touches(r) ==
    /\ UNCHANGED <<kind, model, shutdown>> /\ unloading' \subseteq unloading \cup {r}
    /\ owner' = [owner EXCEPT ![r] = owner'[r]]
    /\ client' = [client EXCEPT ![r] = client'[r]]
    /\ cancelled' = [cancelled EXCEPT ![r] = cancelled'[r]]
    /\ notified' = [notified EXCEPT ![r] = notified'[r]]
    /\ cause' = [cause EXCEPT ![r] = cause'[r]]
    /\ queue' = [queue EXCEPT ![r] = queue'[r]]
    /\ final' = [final EXCEPT ![r] = final'[r]]
    /\ work' = [work EXCEPT ![r] = work'[r]]
    /\ stop' = [stop EXCEPT ![r] = stop'[r]]
    /\ deltas' = [deltas EXCEPT ![r] = deltas'[r]]
    /\ lease' = [lease EXCEPT ![r] = lease'[r]]
    /\ slot' = [slot EXCEPT ![r] = slot'[r]]
    /\ epoch' = [epoch EXCEPT ![r] = epoch'[r]]
    /\ outcome' = [outcome EXCEPT ![r] = outcome'[r]]

\* Call is a step of one request.
LEMMA CallTouches ==
    ASSUME Types, NEW r \in Requests, Call(r)
    PROVE  Touches(r)
  BY DEF Call, Touches, Goto, Ends, channel, worker, held, cache, Types, ClientType,
         ChannelType, WorkerType, HeldType

\* CallRefused is a step of one request.
LEMMA CallRefusedTouches ==
    ASSUME Types, NEW r \in Requests, CallRefused(r)
    PROVE  Touches(r)
  BY DEF CallRefused, Touches, channel, worker, held, cache, Types, OwnerType, ClientType,
         ChannelType, WorkerType, HeldType, RestType

\* CallInvalid is a step of one request.
LEMMA CallInvalidTouches ==
    ASSUME Types, NEW r \in Requests, CallInvalid(r)
    PROVE  Touches(r)
  BY DEF CallInvalid, Touches, Ends, channel, worker, held, cache, Types, OwnerType,
         ClientType, ChannelType, WorkerType, HeldType

\* Leave is a step of one request.
LEMMA LeaveTouches ==
    ASSUME Types, NEW r \in Requests, Leave(r)
    PROVE  Touches(r)
  BY DEF Leave, Touches, channel, worker, held, cache, Types, OwnerType, ClientType,
         ChannelType, WorkerType, HeldType, RestType

\* Start is a step of one request.
LEMMA StartTouches ==
    ASSUME Types, NEW r \in Requests, Start(r)
    PROVE  Touches(r)
  BY DEF Start, Touches, channel, worker, held, cache, Types, ClientType, ChannelType,
         WorkerType, HeldType, RestType

\* Lend is a step of one request.
LEMMA LendTouches ==
    ASSUME Types, NEW r \in Requests, Lend(r)
    PROVE  Touches(r)
  BY DEF Lend, Touches, Goto, channel, worker, Types, ClientType, ChannelType, WorkerType,
         HeldType, RestType

\* LoadFails is a step of one request.
LEMMA LoadFailsTouches ==
    ASSUME Types, NEW r \in Requests, LoadFails(r)
    PROVE  Touches(r)
  BY DEF LoadFails, Touches, channel, worker, held, cache, Types, ClientType, ChannelType,
         WorkerType, HeldType, RestType

\* CheckHealth is a step of one request.
LEMMA CheckHealthTouches ==
    ASSUME Types, NEW r \in Requests, CheckHealth(r)
    PROVE  Touches(r)
  BY DEF CheckHealth, Touches, Goto, channel, worker, Types, ClientType, ChannelType,
         WorkerType, HeldType, RestType

\* Reloaded is a step of one request.
LEMMA ReloadedTouches ==
    ASSUME Types, NEW r \in Requests, Reloaded(r)
    PROVE  Touches(r)
  BY DEF Reloaded, Touches, Unloaded, channel, worker, held, Types, ClientType, ChannelType,
         WorkerType, HeldType, RestType

\* Reserve is a step of one request.
LEMMA ReserveTouches ==
    ASSUME Types, NEW r \in Requests, Reserve(r)
    PROVE  Touches(r)
  BY DEF Reserve, Touches, Goto, channel, held, cache, Types, ClientType, ChannelType,
         WorkerType, HeldType, RestType

\* ReserveFails is a step of one request.
LEMMA ReserveFailsTouches ==
    ASSUME Types, NEW r \in Requests, ReserveFails(r)
    PROVE  Touches(r)
  BY DEF ReserveFails, Touches, DropActive, channel, worker, cache, Types, ClientType,
         ChannelType, WorkerType, RestType

\* AcquireSlot is a step of one request.
LEMMA AcquireSlotTouches ==
    ASSUME Types, NEW r \in Requests, AcquireSlot(r)
    PROVE  Touches(r)
  BY DEF AcquireSlot, Touches, Goto, channel, cache, Types, ClientType, ChannelType,
         WorkerType, HeldType, RestType

\* AcquireEpoch is a step of one request.
LEMMA AcquireEpochTouches ==
    ASSUME Types, NEW r \in Requests, AcquireEpoch(r)
    PROVE  Touches(r)
  BY DEF AcquireEpoch, Touches, Goto, channel, worker, cache, Types, ClientType, ChannelType,
         WorkerType, HeldType, RestType

\* AdmissionInterrupted is a step of one request.
LEMMA AdmissionInterruptedTouches ==
    ASSUME Types, NEW r \in Requests, NEW e \in Errors, AdmissionInterrupted(r, e)
    PROVE  Touches(r)
  BY DEF AdmissionInterrupted, Touches, Interrupt, DropActive, channel, Types, ClientType,
         ChannelType, WorkerType, RestType

\* BeginCommit is a step of one request.
LEMMA BeginCommitTouches ==
    ASSUME Types, NEW r \in Requests, BeginCommit(r)
    PROVE  Touches(r)
  BY DEF BeginCommit, Touches, Goto, channel, held, cache, Types, ClientType, ChannelType,
         WorkerType, HeldType, RestType

\* RefuseCommit is a step of one request.
LEMMA RefuseCommitTouches ==
    ASSUME Types, NEW r \in Requests, RefuseCommit(r)
    PROVE  Touches(r)
  BY DEF RefuseCommit, Touches, DropActive, channel, held, cache, Types, ClientType,
         ChannelType, WorkerType, HeldType, RestType

\* Committed is a step of one request.
LEMMA CommittedTouches ==
    ASSUME Types, NEW r \in Requests, Committed(r)
    PROVE  Touches(r)
  BY DEF Committed, Touches, Goto, channel, held, cache, Types, ClientType, ChannelType,
         WorkerType, HeldType, RestType

\* CommitFails is a step of one request.
LEMMA CommitFailsTouches ==
    ASSUME Types, NEW r \in Requests, CommitFails(r)
    PROVE  Touches(r)
  BY DEF CommitFails, Touches, channel, held, cache, Types, ClientType, ChannelType,
         WorkerType, HeldType, RestType

\* CommitInterrupted is a step of one request.
LEMMA CommitInterruptedTouches ==
    ASSUME Types, NEW r \in Requests, NEW e \in Errors, CommitInterrupted(r, e)
    PROVE  Touches(r)
  BY DEF CommitInterrupted, Touches, Interrupt, channel, held, cache, Types, ClientType,
         ChannelType, WorkerType, HeldType, RestType

\* SendReady is a step of one request.
LEMMA SendReadyTouches ==
    ASSUME Types, NEW r \in Requests, SendReady(r)
    PROVE  Touches(r)
  BY DEF SendReady, Touches, Goto, channel, held, cache, Types, ClientType, ChannelType,
         WorkerType, HeldType, RestType

\* Next1 is a step of one request.
LEMMA Next1Touches ==
    ASSUME Types, NEW r \in Requests, Next1(r)
    PROVE  Touches(r)
  BY DEF Next1, Touches, channel, held, cache, Types, ClientType, ChannelType, HeldType,
         RestType

\* Top is a step of one request.
LEMMA TopTouches ==
    ASSUME Types, NEW r \in Requests, Top(r)
    PROVE  Touches(r)
  BY DEF Top, Touches, channel, held, cache, Types, ClientType, ChannelType, WorkerType,
         HeldType, RestType

\* LoopInterrupted is a step of one request.
LEMMA LoopInterruptedTouches ==
    ASSUME Types, NEW r \in Requests, NEW e \in Errors, LoopInterrupted(r, e)
    PROVE  Touches(r)
  BY DEF LoopInterrupted, Touches, Interrupt, channel, held, cache, Types, ClientType,
         ChannelType, WorkerType, HeldType, RestType

\* Send is a step of one request.
LEMMA SendTouches ==
    ASSUME Types, NEW r \in Requests, Send(r)
    PROVE  Touches(r)
  BY DEF Send, Touches, worker, held, cache, Types, ClientType, ChannelType, WorkerType,
         HeldType, RestType

\* SendFails is a step of one request.
LEMMA SendFailsTouches ==
    ASSUME Types, NEW r \in Requests, SendFails(r)
    PROVE  Touches(r)
  BY DEF SendFails, Touches, channel, held, cache, Types, ClientType, ChannelType,
         WorkerType, HeldType, RestType

\* WorkerAck is a step of one request.
LEMMA WorkerAckTouches ==
    ASSUME Types, NEW r \in Requests, WorkerAck(r)
    PROVE  Touches(r)
  BY DEF WorkerAck, Touches, task, channel, held, cache, Types, OwnerType, ClientType,
         ChannelType, WorkerType, HeldType, RestType

\* Acked is a step of one request.
LEMMA AckedTouches ==
    ASSUME Types, NEW r \in Requests, Acked(r)
    PROVE  Touches(r)
  <1>1. owner' = [owner EXCEPT ![r] = owner'[r]]
    BY DEF Acked, Types, OwnerType
  <1>2. /\ lease' = [lease EXCEPT ![r] = lease'[r]]
        /\ slot' = [slot EXCEPT ![r] = slot'[r]]
        /\ epoch' = [epoch EXCEPT ![r] = epoch'[r]]
    BY DEF Acked, DropActive, held, Types, HeldType
  <1>3. /\ UNCHANGED <<kind, model, shutdown, client, cancelled, notified, cause, queue,
                       final,
                       work, stop, deltas, outcome>>
        /\ unloading' \subseteq unloading \cup {r}
    BY DEF Acked, task, channel, worker, cache
  <1> QED BY <1>1, <1>2, <1>3 DEF Touches, Types, ClientType, ChannelType, WorkerType,
                 RestType

\* Retire is a step of one request.
LEMMA RetireTouches ==
    ASSUME Types, NEW r \in Requests, Retire(r)
    PROVE  Touches(r)
  BY DEF Retire, Touches, Goto, DropActive, channel, worker, Types, ClientType, ChannelType,
         WorkerType, HeldType, RestType

\* Retired is a step of one request.
LEMMA RetiredTouches ==
    ASSUME Types, NEW r \in Requests, Retired(r)
    PROVE  Touches(r)
  BY DEF Retired, Touches, Goto, Unloaded, channel, worker, held, Types, ClientType,
         ChannelType, WorkerType, HeldType, RestType

\* Counted is a step of one request.
LEMMA CountedTouches ==
    ASSUME Types, NEW r \in Requests, Counted(r)
    PROVE  Touches(r)
  BY DEF Counted, Touches, DropActive, channel, cache, Types, OwnerType, ClientType,
         ChannelType, WorkerType, RestType

\* CountInterrupted is a step of one request.
LEMMA CountInterruptedTouches ==
    ASSUME Types, NEW r \in Requests, NEW e \in Errors, CountInterrupted(r, e)
    PROVE  Touches(r)
  BY DEF CountInterrupted, Touches, Interrupt, channel, worker, held, cache, Types,
         ClientType, ChannelType, WorkerType, HeldType, RestType

\* LeaveCount is a step of one request.
LEMMA LeaveCountTouches ==
    ASSUME Types, NEW r \in Requests, LeaveCount(r)
    PROVE  Touches(r)
  BY DEF LeaveCount, Touches, At, Returns, Ends, DropActive, channel, held, Types,
         ClientType, ChannelType, WorkerType, HeldType

\* Answer is a step of one request.
LEMMA AnswerTouches ==
    ASSUME Types, NEW r \in Requests, Answer(r)
    PROVE  Touches(r)
  BY DEF Answer, Touches, Returns, Ends, channel, held, cache, Types, ClientType,
         ChannelType, WorkerType, HeldType

\* Quit is a step of one request.
LEMMA QuitTouches ==
    ASSUME Types, NEW r \in Requests, Quit(r)
    PROVE  Touches(r)
  BY DEF Quit, Touches, Returns, Ends, channel, held, cache, Types, ClientType, ChannelType,
         WorkerType, HeldType

\* DeliverChat is a step of one request.
LEMMA DeliverChatTouches ==
    ASSUME Types, NEW r \in Requests, DeliverChat(r)
    PROVE  Touches(r)
  BY DEF DeliverChat, Touches, Returns, Ends, held, cache, Types, ClientType, ChannelType,
         WorkerType, HeldType

\* DeliverChoice is a step of one request.
LEMMA DeliverChoiceTouches ==
    ASSUME Types, NEW r \in Requests, DeliverChoice(r)
    PROVE  Touches(r)
  BY DEF DeliverChoice, Touches, Returns, Ends, held, cache, Types, ClientType, WorkerType,
         HeldType

\* DeliverEmbedding is a step of one request.
LEMMA DeliverEmbeddingTouches ==
    ASSUME Types, NEW r \in Requests, DeliverEmbedding(r)
    PROVE  Touches(r)
  BY DEF DeliverEmbedding, Touches, Goto, channel, worker, held, cache, Types, ClientType,
         ChannelType, WorkerType, HeldType, RestType

\* ClientCancel is a step of one request.
LEMMA ClientCancelTouches ==
    ASSUME Types, NEW r \in Requests, NEW c \in {"client", "buffer"}, ClientCancel(r, c)
    PROVE  Touches(r)
  BY DEF ClientCancel, Touches, CancelWith, channel, worker, held, cache, Types, OwnerType,
         ClientType, ChannelType, WorkerType, HeldType, RestType

\* ClientDrop is a step of one request.
LEMMA ClientDropTouches ==
    ASSUME Types, NEW r \in Requests, ClientDrop(r)
    PROVE  Touches(r)
  BY DEF ClientDrop, Touches, CancelWith, worker, held, cache, Types, OwnerType, ChannelType,
         WorkerType, HeldType, RestType

\* ClientRecv is a step of one request.
LEMMA ClientRecvTouches ==
    ASSUME Types, NEW r \in Requests, ClientRecv(r)
    PROVE  Touches(r)
  BY DEF ClientRecv, Touches, worker, held, cache, Types, OwnerType, ClientType, ChannelType,
         WorkerType, HeldType, RestType

\* ClientEnd is a step of one request.
LEMMA ClientEndTouches ==
    ASSUME Types, NEW r \in Requests, ClientEnd(r)
    PROVE  Touches(r)
  BY DEF ClientEnd, Touches, channel, worker, held, cache, Types, OwnerType, ClientType,
         ChannelType, WorkerType, HeldType, RestType

\* What a step leaves of its request, but for the owner itself.
Fits(r) ==
    /\ client'[r] \in Client
    /\ cancelled'[r] \in BOOLEAN /\ notified'[r] \in BOOLEAN
    /\ cause'[r] \in {"none", "client", "buffer"}
    /\ queue'[r] \in Seq(Items \cup {"none", "err"}) /\ Len(queue'[r]) <= QueueCap
    /\ final'[r] \in {"open", "dropped", "err", "all"}
    /\ work'[r] \in {"none", "reserved", "preparing", "running", "child", "childbad", "over",
                     "adrift"}
    /\ stop'[r] \in BOOLEAN /\ deltas'[r] \in Nat
    /\ lease'[r] \in Nat /\ slot'[r] \in BOOLEAN /\ epoch'[r] \in BOOLEAN
    /\ outcome'[r] \in Outcomes

\* A step of one request that leaves it well typed leaves everything well typed.
LEMMA TypesStep ==
    ASSUME Types, NEW r \in Requests, Touches(r), Fits(r), OwnerType', CacheType'
    PROVE  Types'
  <1>1. ClientType'
    BY DEF Types, ClientType, Touches, Fits
  <1>2. ChannelType'
    BY DEF Types, ChannelType, Touches, Fits
  <1>3. WorkerType'
    BY DEF Types, WorkerType, Touches, Fits
  <1>4. HeldType'
    BY DEF Types, HeldType, Touches, Fits
  <1>5. RestType'
    BY DEF Types, RestType, Touches, Fits
  <1> QED BY <1>1, <1>2, <1>3, <1>4, <1>5 DEF Types

\* Drop leaves its request well typed.
LEMMA DropFits ==
    ASSUME Types, NEW r \in Requests, DropActive(r)
    PROVE  lease'[r] \in Nat /\ slot'[r] \in BOOLEAN /\ epoch'[r] \in BOOLEAN
  <1>1. lease'[r] \in Nat
    BY DEF DropActive, Types, HeldType
  <1>2. slot'[r] \in BOOLEAN
    BY DEF DropActive, Types, HeldType
  <1>3. epoch'[r] \in BOOLEAN
    BY DEF DropActive, Types, HeldType
  <1> QED BY <1>1, <1>2, <1>3

\* Call leaves its request well typed.
LEMMA CallFits ==
    ASSUME Types, NEW r \in Requests, Call(r)
    PROVE  Fits(r)
  <1>1. client'[r] \in Client
    BY DEF Call, Types, ClientType, Client
  <1>2. outcome'[r] \in Outcomes
    BY DEF Call, Ends, Types, RestType, Outcomes
  <1>3. UNCHANGED <<cancelled, notified, cause, queue, final, work, stop, deltas, lease,
                    slot, epoch>>
    BY DEF Call, channel, worker, held
  <1> QED BY <1>1, <1>2, <1>3 DEF Fits, Types, ClientType, ChannelType, WorkerType, HeldType

\* CallRefused leaves its request well typed.
LEMMA CallRefusedFits ==
    ASSUME Types, NEW r \in Requests, CallRefused(r)
    PROVE  Fits(r)
  BY DEF CallRefused, Fits, channel, worker, held, Types, ClientType, ChannelType,
         WorkerType, HeldType, RestType, Client

\* CallInvalid leaves its request well typed.
LEMMA CallInvalidFits ==
    ASSUME Types, NEW r \in Requests, CallInvalid(r)
    PROVE  Fits(r)
  BY DEF CallInvalid, Fits, Ends, channel, worker, held, Types, ClientType, ChannelType,
         WorkerType, HeldType, RestType, Outcomes, Client

\* Leave leaves its request well typed.
LEMMA LeaveFits ==
    ASSUME Types, NEW r \in Requests, Leave(r)
    PROVE  Fits(r)
  BY DEF Leave, Fits, channel, worker, held, Types, ClientType, ChannelType, WorkerType,
         HeldType, RestType, Client

\* Start leaves its request well typed.
LEMMA StartFits ==
    ASSUME Types, NEW r \in Requests, Start(r)
    PROVE  Fits(r)
  BY DEF Start, Fits, channel, worker, held, Types, ClientType, ChannelType, WorkerType,
         HeldType, RestType

\* Lend leaves its request well typed.
LEMMA LendFits ==
    ASSUME Types, NEW r \in Requests, Lend(r)
    PROVE  Fits(r)
  <1>1. client'[r] \in Client
    BY DEF Lend, Types, ClientType
  <1>2. /\ cancelled'[r] \in BOOLEAN /\ notified'[r] \in BOOLEAN
        /\ cause'[r] \in {"none", "client", "buffer"}
    BY DEF Lend, Types, ClientType
  <1>3. queue'[r] \in Seq(Items \cup {"none", "err"}) /\ Len(queue'[r]) <= QueueCap
    BY DEF Lend, channel, Types, ChannelType
  <1>4. final'[r] \in {"open", "dropped", "err", "all"}
    BY DEF Lend, channel, Types, ChannelType
  <1>5. work'[r] \in {"none", "reserved", "preparing", "running", "child", "childbad", "over",
                     "adrift"}
    BY DEF Lend, worker, Types, WorkerType
  <1>6. stop'[r] \in BOOLEAN /\ deltas'[r] \in Nat
    BY DEF Lend, worker, Types, WorkerType
  <1>7. lease'[r] \in Nat /\ slot'[r] \in BOOLEAN /\ epoch'[r] \in BOOLEAN
    <2>1. model[r] \in Models
      BY DEF Types, RestType
    <2>2. engine[model[r]].inst \in Nat /\ engine[model[r]].loads \in Nat
      BY <2>1 DEF Types, CacheType
    <2>3. \E n \in Nat : lease' = [lease EXCEPT ![r] = n]
      <3>1. CASE engine[model[r]].inst # 0
        BY <2>2, <3>1 DEF Lend
      <3>2. CASE engine[model[r]].inst = 0
        <4>1. lease' = [lease EXCEPT ![r] = engine[model[r]].loads + 1]
          BY <3>2 DEF Lend
        <4>2. engine[model[r]].loads + 1 \in Nat
          BY <2>2
        <4> QED BY <4>1, <4>2
      <3> QED BY <3>1, <3>2
    <2>4. UNCHANGED <<slot, epoch>>
      BY DEF Lend
    <2> QED BY <2>3, <2>4 DEF Types, HeldType
  <1>8. outcome'[r] \in Outcomes
    BY DEF Lend, Types, RestType
  <1> QED BY <1>1, <1>2, <1>3, <1>4, <1>5, <1>6, <1>7, <1>8 DEF Fits

\* LoadFails leaves its request well typed.
LEMMA LoadFailsFits ==
    ASSUME Types, NEW r \in Requests, LoadFails(r)
    PROVE  Fits(r)
  BY DEF LoadFails, Fits, channel, worker, held, Types, ClientType, ChannelType, WorkerType,
         HeldType, RestType

\* CheckHealth leaves its request well typed.
LEMMA CheckHealthFits ==
    ASSUME Types, NEW r \in Requests, CheckHealth(r)
    PROVE  Fits(r)
  BY DEF CheckHealth, Fits, channel, worker, Types, ClientType, ChannelType, WorkerType,
         HeldType, RestType

\* Reloaded leaves its request well typed.
LEMMA ReloadedFits ==
    ASSUME Types, NEW r \in Requests, Reloaded(r)
    PROVE  Fits(r)
  BY DEF Reloaded, Fits, channel, worker, held, Types, ClientType, ChannelType, WorkerType,
         HeldType, RestType

\* Reserve leaves its request well typed.
LEMMA ReserveFits ==
    ASSUME Types, NEW r \in Requests, Reserve(r)
    PROVE  Fits(r)
  BY DEF Reserve, Fits, channel, held, Types, ClientType, ChannelType, WorkerType, HeldType,
         RestType

\* ReserveFails leaves its request well typed.
LEMMA ReserveFailsFits ==
    ASSUME Types, NEW r \in Requests, ReserveFails(r)
    PROVE  Fits(r)
  BY DEF ReserveFails, Fits, DropActive, channel, worker, Types, ClientType, ChannelType,
         WorkerType, HeldType, RestType

\* AcquireSlot leaves its request well typed.
LEMMA AcquireSlotFits ==
    ASSUME Types, NEW r \in Requests, AcquireSlot(r)
    PROVE  Fits(r)
  BY DEF AcquireSlot, Fits, channel, Types, ClientType, ChannelType, WorkerType, HeldType,
         RestType

\* AcquireEpoch leaves its request well typed.
LEMMA AcquireEpochFits ==
    ASSUME Types, NEW r \in Requests, AcquireEpoch(r)
    PROVE  Fits(r)
  BY DEF AcquireEpoch, Fits, channel, worker, Types, ClientType, ChannelType, WorkerType,
         HeldType, RestType

\* AdmissionInterrupted leaves its request well typed.
LEMMA AdmissionInterruptedFits ==
    ASSUME Types, NEW r \in Requests, NEW e \in Errors, AdmissionInterrupted(r, e)
    PROVE  Fits(r)
  BY DEF AdmissionInterrupted, Fits, Interrupt, DropActive, channel, Types, ClientType,
         ChannelType, WorkerType, HeldType, RestType

\* BeginCommit leaves its request well typed.
LEMMA BeginCommitFits ==
    ASSUME Types, NEW r \in Requests, BeginCommit(r)
    PROVE  Fits(r)
  BY DEF BeginCommit, Fits, channel, held, Types, ClientType, ChannelType, WorkerType,
         HeldType, RestType

\* RefuseCommit leaves its request well typed.
LEMMA RefuseCommitFits ==
    ASSUME Types, NEW r \in Requests, RefuseCommit(r)
    PROVE  Fits(r)
  <1>1. client'[r] \in Client
    BY DEF RefuseCommit, Types, ClientType
  <1>2. /\ cancelled'[r] \in BOOLEAN /\ notified'[r] \in BOOLEAN
        /\ cause'[r] \in {"none", "client", "buffer"}
    BY DEF RefuseCommit, Types, ClientType
  <1>3. queue'[r] \in Seq(Items \cup {"none", "err"}) /\ Len(queue'[r]) <= QueueCap
    BY DEF RefuseCommit, channel, Types, ChannelType
  <1>4. final'[r] \in {"open", "dropped", "err", "all"}
    BY DEF RefuseCommit, channel, Types, ChannelType
  <1>5. work'[r] \in {"none", "reserved", "preparing", "running", "child", "childbad", "over",
                     "adrift"}
    BY DEF RefuseCommit, Types, WorkerType
  <1>6. stop'[r] \in BOOLEAN /\ deltas'[r] \in Nat
    BY DEF RefuseCommit, Types, WorkerType
  <1>7. lease'[r] \in Nat /\ slot'[r] \in BOOLEAN /\ epoch'[r] \in BOOLEAN
    <2>1. CASE kind[r] = "choice"
      BY <2>1 DEF RefuseCommit, held, Types, HeldType
    <2>2. CASE kind[r] # "choice"
      BY <2>2, DropFits DEF RefuseCommit
    <2> QED BY <2>1, <2>2
  <1>8. outcome'[r] \in Outcomes
    BY DEF RefuseCommit, Types, RestType
  <1> QED BY <1>1, <1>2, <1>3, <1>4, <1>5, <1>6, <1>7, <1>8 DEF Fits

\* Committed leaves its request well typed.
LEMMA CommittedFits ==
    ASSUME Types, NEW r \in Requests, Committed(r)
    PROVE  Fits(r)
  BY DEF Committed, Fits, channel, held, Types, ClientType, ChannelType, WorkerType,
         HeldType, RestType

\* CommitFails leaves its request well typed.
LEMMA CommitFailsFits ==
    ASSUME Types, NEW r \in Requests, CommitFails(r)
    PROVE  Fits(r)
  BY DEF CommitFails, Fits, channel, held, Types, ClientType, ChannelType, WorkerType,
         HeldType, RestType

\* CommitInterrupted leaves its request well typed.
LEMMA CommitInterruptedFits ==
    ASSUME Types, NEW r \in Requests, NEW e \in Errors, CommitInterrupted(r, e)
    PROVE  Fits(r)
  BY DEF CommitInterrupted, Fits, Interrupt, channel, held, Types, ClientType, ChannelType,
         WorkerType, HeldType, RestType

\* SendReady leaves its request well typed.
LEMMA SendReadyFits ==
    ASSUME Types, NEW r \in Requests, SendReady(r)
    PROVE  Fits(r)
  <1>1. client'[r] \in Client
    BY DEF SendReady, Types, ClientType, Client
  <1>2. /\ cancelled'[r] \in BOOLEAN /\ notified'[r] \in BOOLEAN
        /\ cause'[r] \in {"none", "client", "buffer"}
    BY DEF SendReady, Types, ClientType
  <1>3. queue'[r] \in Seq(Items \cup {"none", "err"}) /\ Len(queue'[r]) <= QueueCap
    BY DEF SendReady, channel, Types, ChannelType
  <1>4. final'[r] \in {"open", "dropped", "err", "all"}
    BY DEF SendReady, channel, Types, ChannelType
  <1>5. work'[r] \in {"none", "reserved", "preparing", "running", "child", "childbad", "over",
                     "adrift"}
    BY DEF SendReady, Types, WorkerType
  <1>6. stop'[r] \in BOOLEAN /\ deltas'[r] \in Nat
    BY DEF SendReady, Types, WorkerType
  <1>7. lease'[r] \in Nat /\ slot'[r] \in BOOLEAN /\ epoch'[r] \in BOOLEAN
    BY DEF SendReady, held, Types, HeldType
  <1>8. outcome'[r] \in Outcomes
    BY DEF SendReady, Types, RestType
  <1> QED BY <1>1, <1>2, <1>3, <1>4, <1>5, <1>6, <1>7, <1>8 DEF Fits

\* Next1 leaves its request well typed.
LEMMA Next1Fits ==
    ASSUME Types, NEW r \in Requests, Next1(r), kind[r] \in {"chat", "choice", "embed"}
    PROVE  Fits(r)
  <1>1. client'[r] \in Client
    BY DEF Next1, Types, ClientType
  <1>2. /\ cancelled'[r] \in BOOLEAN /\ notified'[r] \in BOOLEAN
        /\ cause'[r] \in {"none", "client", "buffer"}
    BY DEF Next1, At, task, channel, worker, held, cache, Types, ClientType
  <1>3. queue'[r] \in Seq(Items \cup {"none", "err"}) /\ Len(queue'[r]) <= QueueCap
    BY DEF Next1, At, task, channel, worker, held, cache, Types, ChannelType
  <1>4. final'[r] \in {"open", "dropped", "err", "all"}
    BY DEF Next1, At, task, channel, worker, held, cache, Types, ChannelType
  <1>5. work'[r] \in {"none", "reserved", "preparing", "running", "child", "childbad", "over",
                     "adrift"}
    <2>1. PICK ev \in Emits(r) : work' = [work EXCEPT ![r] = ev[2]]
      BY DEF Next1
    <2>2. ev[2] \in {"running", "child", "childbad", "over"}
      BY EmitsChat, EmitsChoice, EmitsEmbed
    <2> QED BY <2>1, <2>2 DEF Types, WorkerType
  <1>6. stop'[r] \in BOOLEAN /\ deltas'[r] \in Nat
    BY DEF Next1, At, task, channel, worker, held, cache, Types, WorkerType
  <1>7. lease'[r] \in Nat /\ slot'[r] \in BOOLEAN /\ epoch'[r] \in BOOLEAN
    BY DEF Next1, At, task, channel, worker, held, cache, Types, HeldType
  <1>8. outcome'[r] \in Outcomes
    BY DEF Next1, Types, RestType
  <1> QED BY <1>1, <1>2, <1>3, <1>4, <1>5, <1>6, <1>7, <1>8 DEF Fits

\* Top leaves its request well typed.
LEMMA TopFits ==
    ASSUME Types, NEW r \in Requests, Top(r)
    PROVE  Fits(r)
  BY DEF Top, Fits, channel, held, Types, ClientType, ChannelType, WorkerType, HeldType,
         RestType

\* LoopInterrupted leaves its request well typed.
LEMMA LoopInterruptedFits ==
    ASSUME Types, NEW r \in Requests, NEW e \in Errors, LoopInterrupted(r, e)
    PROVE  Fits(r)
  BY DEF LoopInterrupted, Fits, Interrupt, channel, held, Types, ClientType, ChannelType,
         WorkerType, HeldType, RestType

\* Send leaves its request well typed.
LEMMA SendFits ==
    ASSUME Types, NEW r \in Requests, Send(r)
    PROVE  Fits(r)
  <1>1. client'[r] \in Client
    BY DEF Send, Types, ClientType
  <1>2. /\ cancelled'[r] \in BOOLEAN /\ notified'[r] \in BOOLEAN
        /\ cause'[r] \in {"none", "client", "buffer"}
    BY DEF Send, At, task, channel, worker, held, cache, Types, ClientType
  <1>3. queue'[r] \in Seq(Items \cup {"none", "err"}) /\ Len(queue'[r]) <= QueueCap
    <2>1. queue[r] \in Seq(Items \cup {"none", "err"}) /\ Len(queue[r]) <= QueueCap
      BY DEF Types, ChannelType
    <2>2. owner[r].item \in Items \cup {"none", "err"}
      BY DEF Types, OwnerType, Owner
    <2>3. Len(queue[r]) < QueueCap /\ queue'[r] = Append(queue[r], owner[r].item)
      BY DEF Send, Types, ChannelType
    <2>4. /\ Append(queue[r], owner[r].item) \in Seq(Items \cup {"none", "err"})
          /\ Len(Append(queue[r], owner[r].item)) = Len(queue[r]) + 1
      BY <2>1, <2>2
    <2> QED BY <2>1, <2>3, <2>4, LimitsAssumption
  <1>4. final'[r] \in {"open", "dropped", "err", "all"}
    BY DEF Send, At, task, channel, worker, held, cache, Types, ChannelType
  <1>5. work'[r] \in {"none", "reserved", "preparing", "running", "child", "childbad", "over",
                     "adrift"}
    BY DEF Send, At, task, channel, worker, held, cache, Types, WorkerType
  <1>6. stop'[r] \in BOOLEAN /\ deltas'[r] \in Nat
    BY DEF Send, At, task, channel, worker, held, cache, Types, WorkerType
  <1>7. lease'[r] \in Nat /\ slot'[r] \in BOOLEAN /\ epoch'[r] \in BOOLEAN
    BY DEF Send, At, task, channel, worker, held, cache, Types, HeldType
  <1>8. outcome'[r] \in Outcomes
    BY DEF Send, Types, RestType
  <1> QED BY <1>1, <1>2, <1>3, <1>4, <1>5, <1>6, <1>7, <1>8 DEF Fits

\* SendFails leaves its request well typed.
LEMMA SendFailsFits ==
    ASSUME Types, NEW r \in Requests, SendFails(r)
    PROVE  Fits(r)
  BY DEF SendFails, Fits, channel, held, Types, ClientType, ChannelType, WorkerType,
         HeldType, RestType

\* WorkerAck leaves its request well typed.
LEMMA WorkerAckFits ==
    ASSUME Types, NEW r \in Requests, WorkerAck(r)
    PROVE  Fits(r)
  BY DEF WorkerAck, Fits, task, channel, held, Types, ClientType, ChannelType, WorkerType,
         HeldType, RestType

\* Acked leaves its request well typed.
LEMMA AckedFits ==
    ASSUME Types, NEW r \in Requests, Acked(r)
    PROVE  Fits(r)
  <1>1. client'[r] \in Client
    BY DEF Acked, Types, ClientType
  <1>2. /\ cancelled'[r] \in BOOLEAN /\ notified'[r] \in BOOLEAN
        /\ cause'[r] \in {"none", "client", "buffer"}
    BY DEF Acked, Types, ClientType
  <1>3. queue'[r] \in Seq(Items \cup {"none", "err"}) /\ Len(queue'[r]) <= QueueCap
    BY DEF Acked, channel, Types, ChannelType
  <1>4. final'[r] \in {"open", "dropped", "err", "all"}
    BY DEF Acked, channel, Types, ChannelType
  <1>5. work'[r] \in {"none", "reserved", "preparing", "running", "child", "childbad", "over",
                     "adrift"}
    BY DEF Acked, worker
  <1>6. stop'[r] \in BOOLEAN /\ deltas'[r] \in Nat
    BY DEF Acked, worker, Types, WorkerType
  <1>7. lease'[r] \in Nat /\ slot'[r] \in BOOLEAN /\ epoch'[r] \in BOOLEAN
    <2>1. CASE owner[r].after = "drop"
      BY <2>1, DropFits DEF Acked
    <2>2. CASE owner[r].after # "drop"
      BY <2>2 DEF Acked, held, Types, HeldType
    <2> QED BY <2>1, <2>2
  <1>8. outcome'[r] \in Outcomes
    BY DEF Acked, Types, RestType
  <1> QED BY <1>1, <1>2, <1>3, <1>4, <1>5, <1>6, <1>7, <1>8 DEF Fits

\* Retire leaves its request well typed.
LEMMA RetireFits ==
    ASSUME Types, NEW r \in Requests, Retire(r)
    PROVE  Fits(r)
  BY DEF Retire, Fits, DropActive, channel, worker, Types, ClientType, ChannelType,
         WorkerType, HeldType, RestType

\* Retired leaves its request well typed.
LEMMA RetiredFits ==
    ASSUME Types, NEW r \in Requests, Retired(r)
    PROVE  Fits(r)
  BY DEF Retired, Fits, channel, worker, held, Types, ClientType, ChannelType, WorkerType,
         HeldType, RestType

\* Counted leaves its request well typed.
LEMMA CountedFits ==
    ASSUME Types, NEW r \in Requests, Counted(r)
    PROVE  Fits(r)
  BY DEF Counted, Fits, DropActive, channel, Types, ClientType, ChannelType, WorkerType,
         HeldType, RestType

\* CountInterrupted leaves its request well typed.
LEMMA CountInterruptedFits ==
    ASSUME Types, NEW r \in Requests, NEW e \in Errors, CountInterrupted(r, e)
    PROVE  Fits(r)
  BY DEF CountInterrupted, Fits, Interrupt, channel, worker, held, Types, ClientType,
         ChannelType, WorkerType, HeldType, RestType

\* LeaveCount leaves its request well typed.
LEMMA LeaveCountFits ==
    ASSUME Types, NEW r \in Requests, LeaveCount(r)
    PROVE  Fits(r)
  <1>1. client'[r] \in Client
    BY DEF LeaveCount, Types, ClientType, Client
  <1>2. /\ cancelled'[r] \in BOOLEAN /\ notified'[r] \in BOOLEAN
        /\ cause'[r] \in {"none", "client", "buffer"}
    BY DEF LeaveCount, Returns, Types, ClientType
  <1>3. queue'[r] \in Seq(Items \cup {"none", "err"}) /\ Len(queue'[r]) <= QueueCap
    BY DEF LeaveCount, channel, Types, ChannelType
  <1>4. final'[r] \in {"open", "dropped", "err", "all"}
    BY DEF LeaveCount, channel, Types, ChannelType
  <1>5. work'[r] \in {"none", "reserved", "preparing", "running", "child", "childbad", "over",
                     "adrift"}
    BY DEF LeaveCount, Types, WorkerType
  <1>6. stop'[r] \in BOOLEAN /\ deltas'[r] \in Nat
    BY DEF LeaveCount, Returns, Types, WorkerType
  <1>7. lease'[r] \in Nat /\ slot'[r] \in BOOLEAN /\ epoch'[r] \in BOOLEAN
    <2>1. CASE At(r, "counting")
      BY <2>1 DEF LeaveCount, held, Types, HeldType
    <2>2. CASE ~At(r, "counting")
      BY <2>2, DropFits DEF LeaveCount
    <2> QED BY <2>1, <2>2
  <1>8. outcome'[r] \in Outcomes
    BY DEF LeaveCount, Ends, Types, RestType, Outcomes
  <1> QED BY <1>1, <1>2, <1>3, <1>4, <1>5, <1>6, <1>7, <1>8 DEF Fits

\* Answer leaves its request well typed.
LEMMA AnswerFits ==
    ASSUME Types, NEW r \in Requests, Answer(r)
    PROVE  Fits(r)
  BY DEF Answer, Fits, Returns, Ends, channel, held, Types, ClientType, ChannelType,
         WorkerType, HeldType, RestType, Outcomes, ResultOutcome, Client, Items

\* Quit leaves its request well typed.
LEMMA QuitFits ==
    ASSUME Types, NEW r \in Requests, Quit(r)
    PROVE  Fits(r)
  BY DEF Quit, Fits, Returns, Ends, channel, held, Types, ClientType, ChannelType,
         WorkerType, HeldType, RestType, Outcomes

\* DeliverChat leaves its request well typed.
LEMMA DeliverChatFits ==
    ASSUME Types, NEW r \in Requests, DeliverChat(r)
    PROVE  Fits(r)
  BY DEF DeliverChat, Fits, Returns, Ends, held, Types, ClientType, ChannelType, WorkerType,
         HeldType, RestType, Outcomes

\* DeliverChoice leaves its request well typed.
LEMMA DeliverChoiceFits ==
    ASSUME Types, NEW r \in Requests, DeliverChoice(r)
    PROVE  Fits(r)
  <1>1. client'[r] \in Client
    BY DEF DeliverChoice, Types, ClientType
  <1>2. /\ cancelled'[r] \in BOOLEAN /\ notified'[r] \in BOOLEAN
        /\ cause'[r] \in {"none", "client", "buffer"}
    BY DEF DeliverChoice, Returns, Types, ClientType
  <1>3. queue'[r] \in Seq(Items \cup {"none", "err"}) /\ Len(queue'[r]) <= QueueCap
    <2>1. queue[r] \in Seq(Items \cup {"none", "err"}) /\ Len(queue[r]) <= QueueCap
      BY DEF Types, ChannelType
    <2>2. \/ queue'[r] = queue[r]
          \/ Len(queue[r]) < QueueCap /\ queue'[r] = Append(queue[r], "err")
      BY DEF DeliverChoice, Types, ChannelType
    <2>3. /\ Append(queue[r], "err") \in Seq(Items \cup {"none", "err"})
          /\ Len(Append(queue[r], "err")) = Len(queue[r]) + 1
      BY <2>1
    <2> QED BY <2>1, <2>2, <2>3, LimitsAssumption
  <1>4. final'[r] \in {"open", "dropped", "err", "all"}
    BY DEF DeliverChoice, Types, ChannelType
  <1>5. work'[r] \in {"none", "reserved", "preparing", "running", "child", "childbad", "over",
                     "adrift"}
    BY DEF DeliverChoice, Types, WorkerType
  <1>6. stop'[r] \in BOOLEAN /\ deltas'[r] \in Nat
    BY DEF DeliverChoice, Returns, Types, WorkerType
  <1>7. lease'[r] \in Nat /\ slot'[r] \in BOOLEAN /\ epoch'[r] \in BOOLEAN
    BY DEF DeliverChoice, held, Types, HeldType
  <1>8. outcome'[r] \in Outcomes
    <2>1. owner[r].err \in Errors \cup {"none"}
      BY DEF Types, OwnerType, Owner
    <2>2. ResultOutcome(owner[r].err) \in Outcomes /\ CauseOutcome(cause[r]) \in Outcomes
      BY <2>1 DEF ResultOutcome, CauseOutcome, Errors, Outcomes
    <2>3. ChoiceOutcome(owner[r], cause[r]) \in Outcomes
      BY <2>2 DEF ChoiceOutcome, Outcomes
    <2> QED BY <2>3 DEF DeliverChoice, Ends, Types, RestType
  <1> QED BY <1>1, <1>2, <1>3, <1>4, <1>5, <1>6, <1>7, <1>8 DEF Fits

\* DeliverEmbedding leaves its request well typed.
LEMMA DeliverEmbeddingFits ==
    ASSUME Types, NEW r \in Requests, DeliverEmbedding(r)
    PROVE  Fits(r)
  BY DEF DeliverEmbedding, Fits, channel, worker, held, Types, ClientType, ChannelType,
         WorkerType, HeldType, RestType

\* ClientCancel leaves its request well typed.
LEMMA ClientCancelFits ==
    ASSUME Types, NEW r \in Requests, NEW c \in {"client", "buffer"}, ClientCancel(r, c)
    PROVE  Fits(r)
  BY DEF ClientCancel, Fits, CancelWith, channel, worker, held, Types, ClientType,
         ChannelType, WorkerType, HeldType, RestType

\* ClientDrop leaves its request well typed.
LEMMA ClientDropFits ==
    ASSUME Types, NEW r \in Requests, ClientDrop(r)
    PROVE  Fits(r)
  <1>1. client'[r] \in Client
    BY DEF ClientDrop, Types, ClientType, Client
  <1>2. /\ cancelled'[r] \in BOOLEAN /\ notified'[r] \in BOOLEAN
        /\ cause'[r] \in {"none", "client", "buffer"}
    BY DEF ClientDrop, CancelWith, Types, ClientType
  <1>3. queue'[r] \in Seq(Items \cup {"none", "err"}) /\ Len(queue'[r]) <= QueueCap
    <2>1. queue'[r] = <<>>
      BY DEF ClientDrop, Types, ChannelType
    <2> QED BY <2>1, LimitsAssumption
  <1>4. final'[r] \in {"open", "dropped", "err", "all"}
    BY DEF ClientDrop, Types, ChannelType
  <1>5. work'[r] \in {"none", "reserved", "preparing", "running", "child", "childbad", "over",
                     "adrift"}
    BY DEF ClientDrop, worker, Types, WorkerType
  <1>6. stop'[r] \in BOOLEAN /\ deltas'[r] \in Nat
    BY DEF ClientDrop, worker, Types, WorkerType
  <1>7. lease'[r] \in Nat /\ slot'[r] \in BOOLEAN /\ epoch'[r] \in BOOLEAN
    BY DEF ClientDrop, held, Types, HeldType
  <1>8. outcome'[r] \in Outcomes
    BY DEF ClientDrop, Types, RestType
  <1> QED BY <1>1, <1>2, <1>3, <1>4, <1>5, <1>6, <1>7, <1>8 DEF Fits

\* ClientRecv leaves its request well typed.
LEMMA ClientRecvFits ==
    ASSUME Types, NEW r \in Requests, ClientRecv(r)
    PROVE  Fits(r)
  <1>1. client'[r] \in Client
    <2>1. client[r] \in Client /\ queue[r] \in Seq(Items \cup {"none", "err"}) /\ queue[r] # <<>>
      BY DEF ClientRecv, Types, ClientType, ChannelType
    <2>2. Head(queue[r]) \in Items \cup {"none", "err"}
      BY <2>1
    <2>3. client'[r] = [client[r] EXCEPT !.got = IF client[r].got = "all" THEN "all" ELSE Head(queue[r])]
      BY <2>1 DEF ClientRecv, Types, ClientType, Client
    <2> QED BY <2>1, <2>2, <2>3 DEF Client, Items
  <1>2. /\ cancelled'[r] \in BOOLEAN /\ notified'[r] \in BOOLEAN
        /\ cause'[r] \in {"none", "client", "buffer"}
    BY DEF ClientRecv, task, channel, worker, held, cache, Types, ClientType
  <1>3. queue'[r] \in Seq(Items \cup {"none", "err"}) /\ Len(queue'[r]) <= QueueCap
    <2>1. queue[r] \in Seq(Items \cup {"none", "err"}) /\ Len(queue[r]) <= QueueCap
      BY DEF Types, ChannelType
    <2>2. queue[r] # <<>> /\ queue'[r] = Tail(queue[r])
      BY DEF ClientRecv, Types, ChannelType
    <2>3. /\ Tail(queue[r]) \in Seq(Items \cup {"none", "err"})
          /\ Len(Tail(queue[r])) = Len(queue[r]) - 1 /\ Len(queue[r]) \in Nat
      BY <2>1, <2>2
    <2> QED BY <2>1, <2>2, <2>3, LimitsAssumption
  <1>4. final'[r] \in {"open", "dropped", "err", "all"}
    BY DEF ClientRecv, task, channel, worker, held, cache, Types, ChannelType
  <1>5. work'[r] \in {"none", "reserved", "preparing", "running", "child", "childbad", "over",
                     "adrift"}
    BY DEF ClientRecv, task, channel, worker, held, cache, Types, WorkerType
  <1>6. stop'[r] \in BOOLEAN /\ deltas'[r] \in Nat
    BY DEF ClientRecv, task, channel, worker, held, cache, Types, WorkerType
  <1>7. lease'[r] \in Nat /\ slot'[r] \in BOOLEAN /\ epoch'[r] \in BOOLEAN
    BY DEF ClientRecv, task, channel, worker, held, cache, Types, HeldType
  <1>8. outcome'[r] \in Outcomes
    BY DEF ClientRecv, Types, RestType
  <1> QED BY <1>1, <1>2, <1>3, <1>4, <1>5, <1>6, <1>7, <1>8 DEF Fits

\* ClientEnd leaves its request well typed.
LEMMA ClientEndFits ==
    ASSUME Types, NEW r \in Requests, ClientEnd(r)
    PROVE  Fits(r)
  BY DEF ClientEnd, Fits, channel, worker, held, Types, ClientType, ChannelType, WorkerType,
         HeldType, RestType, Client, Items

Engine == [inst : Nat, loads : Nat, healthy : BOOLEAN]

\* A step of one request changes its engine only when nobody else uses it.
Spares(r) ==
    /\ \A m \in Models : m # model[r] => engine'[m] = engine[m]
    /\ \/ engine'[model[r]] = engine[model[r]]
       \/ /\ \A q \in Requests : q # r /\ model[q] = model[r] => lease[q] = 0
          /\ engine'[model[r]].loads \in Nat /\ engine'[model[r]].loads >= engine[model[r]].loads
          /\ \/ engine'[model[r]].inst = 0
             \/ /\ engine'[model[r]].inst \in Nat
                /\ engine'[model[r]].inst > engine[model[r]].loads

\* A step of another request that spares this one leaves it settled.
LEMMA OthersStay ==
    ASSUME Types, NEW r \in Requests, Touches(r), Spares(r),
           NEW q \in Requests, q # r, Settled(q)
    PROVE  Settled(q)'
  <1>1. /\ kind'[q] = kind[q] /\ model'[q] = model[q]
        /\ owner'[q] = owner[q] /\ client'[q] = client[q]
        /\ cancelled'[q] = cancelled[q] /\ notified'[q] = notified[q] /\ cause'[q] = cause[q]
        /\ queue'[q] = queue[q] /\ final'[q] = final[q]
        /\ work'[q] = work[q] /\ lease'[q] = lease[q] /\ slot'[q] = slot[q]
        /\ epoch'[q] = epoch[q] /\ outcome'[q] = outcome[q]
    BY DEF Touches, Types, OwnerType, ClientType, ChannelType, WorkerType, HeldType, RestType
  <1>2. RowType(q) /\ model[r] \in Models
    BY TypesAt DEF RowType
  <1>3. WorkStage(q)'
    BY <1>1 DEF Settled, WorkStage
  <1>4. PlanStage(q)'
    BY <1>1 DEF Settled, PlanStage
  <1>5. HeldStage(q)'
    <2>1. lease[q] # 0 => engine'[model[q]].inst = engine[model[q]].inst
      BY <1>2 DEF Spares, RowType
    <2>2. HeldStage(q)
      BY DEF Settled
    <2> QED BY <1>1, <2>1, <2>2 DEF HeldStage, Busy
  <1>6. Broken(q)'
    <2>1. Broken(q) /\ owner[q].broken \in Nat
      BY <1>2 DEF Settled, RowType, Owner
    <2>2. CASE engine'[model[q]] = engine[model[q]]
      BY <1>1, <2>1, <2>2 DEF Broken
    <2>3. CASE engine'[model[q]] # engine[model[q]]
      <3>1. model[q] = model[r]
        BY <1>2, <2>3 DEF Spares, RowType
      <3>2. /\ engine'[model[q]].loads \in Nat
                   /\ engine'[model[q]].loads >= engine[model[q]].loads
            /\ \/ engine'[model[q]].inst = 0
               \/ /\ engine'[model[q]].inst \in Nat
                  /\ engine'[model[q]].inst > engine[model[q]].loads
        BY <2>3, <3>1 DEF Spares
      <3>3. engine[model[q]].loads \in Nat
        BY <1>2 DEF RowType
      <3> QED BY <1>1, <2>1, <3>2, <3>3 DEF Broken
    <2> QED BY <2>2, <2>3
  <1>7. ClientTruth(q)'
    BY <1>1 DEF Settled, ClientTruth, Generation
  <1>8. ChatTruth(q)'
    BY <1>1 DEF Settled, ChatTruth, Bound
  <1>9. ChoiceTruth(q)'
    BY <1>1 DEF Settled, ChoiceTruth, Bound
  <1>10. Truthful(q)'
    BY <1>1 DEF Settled, Truthful
  <1> QED BY <1>3, <1>4, <1>5, <1>6, <1>7, <1>8, <1>9, <1>10 DEF Settled

IInv == Types /\ \A r \in Requests : Settled(r)

\* A step of one request that keeps the types and its own part keeps it all.
LEMMA Advance ==
    ASSUME IInv, NEW r \in Requests, Touches(r), Fits(r), Settled(r)', OwnerType',
           CacheType', Spares(r)
    PROVE  IInv'
  <1>1. Types'
    BY TypesStep DEF IInv
  <1>2. \A q \in Requests : Settled(q)'
    BY OthersStay DEF IInv
  <1> QED BY <1>1, <1>2 DEF IInv

\* A step of one request that leaves the engines alone keeps the invariant.
LEMMA AdvanceQuietly ==
    ASSUME IInv, NEW r \in Requests, Touches(r), Fits(r), Settled(r)',
           OwnerType' \/ UNCHANGED owner, UNCHANGED engine
    PROVE  IInv'
  <1>1. OwnerType'
    BY DEF IInv, Types, OwnerType
  <1>2. CacheType'
    BY DEF IInv, Types, CacheType, Touches
  <1>3. Spares(r)
    BY DEF Spares
  <1> QED BY <1>1, <1>2, <1>3, Advance

\* Lending the engine, or loading it, spares the other requests: one that holds a lease
\* has an instance, and a new instance has a new number.
LEMMA LendSpares ==
    ASSUME IInv, NEW r \in Requests, Lend(r)
    PROVE  CacheType' /\ Spares(r)
  <1> DEFINE m == model[r]
  <1>1. /\ m \in Models /\ engine \in [Models -> Engine]
        /\ \A k \in Models : engine[k].loads <= MaxLoads /\ engine[k].inst <= engine[k].loads
        /\ unloading \subseteq Requests
    BY DEF IInv, Types, RestType, CacheType, Engine
  <1>2. CASE engine[m].inst # 0
    <2>1. engine' = engine /\ unloading' = unloading
      BY <1>1, <1>2 DEF Lend
    <2> QED BY <1>1, <2>1 DEF CacheType, Spares, Engine
  <1>3. CASE engine[m].inst = 0
    <2> DEFINE n == engine[m].loads + 1
               loaded == [inst |-> n, loads |-> n, healthy |-> TRUE]
    <2>1. /\ engine[m].loads < MaxLoads /\ unloading' = unloading
          /\ engine' = [engine EXCEPT ![m] = loaded]
      BY <1>3 DEF Lend
    <2>2. /\ engine[m].loads \in Nat /\ n \in Nat /\ n > engine[m].loads /\ n <= MaxLoads
          /\ loaded.inst = n /\ loaded.loads = n
      BY <1>1, <2>1, LimitsAssumption DEF Engine
    <2>3. loaded \in Engine
      BY <2>2 DEF Engine
    <2>4. \A q \in Requests : model[q] = m => lease[q] = 0
      BY <1>3 DEF IInv, Settled, HeldStage
    <2> HIDE DEF n, loaded
    <2>5. engine' \in [Models -> Engine] /\ engine'[m] = loaded
      BY <1>1, <2>1, <2>3
    <2>6. \A k \in Models : k # m => engine'[k] = engine[k]
      BY <1>1, <2>1
    <2>7. \A k \in Models : engine'[k].loads <= MaxLoads /\ engine'[k].inst <= engine'[k].loads
      BY <1>1, <2>2, <2>5, <2>6
    <2>8. CacheType'
      BY <1>1, <2>1, <2>5, <2>7 DEF CacheType, Engine
    <2> HIDE DEF m
    <2>9. Spares(r)
      BY <2>2, <2>4, <2>5, <2>6 DEF Spares, m
    <2> QED BY <2>8, <2>9
  <1> QED BY <1>2, <1>3

\* An unload finds no lease of its model, so it spares the other requests.
LEMMA UnloadSpares ==
    ASSUME IInv, NEW r \in Requests, Unloaded(r)
    PROVE  CacheType' /\ Spares(r)
  <1> DEFINE m == model[r]
             gone == [engine[m] EXCEPT !.inst = 0]
  <1>1. /\ m \in Models /\ engine \in [Models -> Engine]
        /\ \A k \in Models : engine[k].loads <= MaxLoads /\ engine[k].inst <= engine[k].loads
        /\ unloading \subseteq Requests
    BY DEF IInv, Types, RestType, CacheType, Engine
  <1>2. unloading' \subseteq Requests /\ engine' = [engine EXCEPT ![m] = gone]
    BY <1>1 DEF Unloaded
  <1>3. \A q \in Requests : model[q] = m => lease[q] = 0
    BY DEF Unloaded, Lenders, OnModel
  <1>4. engine[m] \in Engine
    BY <1>1
  <1>5. gone \in Engine /\ gone.inst = 0 /\ gone.loads = engine[m].loads
    BY <1>4 DEF Engine
  <1> HIDE DEF gone, m
  <1>6. engine' \in [Models -> Engine] /\ engine'[m] = gone
    BY <1>1, <1>2, <1>5
  <1>7. \A k \in Models : k # m => engine'[k] = engine[k]
    BY <1>1, <1>2
  <1>8. engine[m].loads \in Nat /\ engine[m].loads <= MaxLoads
    BY <1>1, <1>4 DEF Engine
  <1>9. \A k \in Models : engine'[k].loads <= MaxLoads /\ engine'[k].inst <= engine'[k].loads
    BY <1>1, <1>5, <1>6, <1>7, <1>8
  <1>10. CacheType'
    BY <1>2, <1>6, <1>9 DEF CacheType, Engine
  <1>11. Spares(r)
    BY <1>3, <1>5, <1>6, <1>7, <1>8 DEF Spares, m
  <1> QED BY <1>10, <1>11

\* Only the two generations and the embedding get to the loops.
LEMMA LoopKinds ==
    ASSUME IInv, NEW r \in Requests, owner[r].pc \in InLoop
    PROVE  kind[r] \in {"chat", "choice", "embed"}
  <1>1. kind[r] \in Kinds
    BY DEF IInv, Types, RestType
  <1>2. WorkStage(r)
    BY DEF IInv, Settled
  <1> QED BY <1>1, <1>2 DEF WorkStage, InLoop, Kinds

\* OwnerStep keeps what is known of its request.
LEMMA OwnerStepKeeps ==
    ASSUME IInv, NEW r \in Requests, OwnerStep(r)
    PROVE  IInv'
  <1>1. CASE Start(r)
    BY <1>1, StartDoes, StartKeeps, StartTouches, StartFits, AdvanceQuietly DEF IInv
  <1>2. CASE Lend(r)
    BY <1>2, LendDoes, LendKeeps, LendTouches, LendFits, LendSpares, Advance DEF IInv
  <1>3. CASE LoadFails(r)
    BY <1>3, LoadFailsDoes, LoadFailsKeeps, LoadFailsTouches, LoadFailsFits,
           AdvanceQuietly DEF IInv
  <1>4. CASE CheckHealth(r)
    BY <1>4, CheckHealthDoes, CheckHealthKeeps, CheckHealthTouches, CheckHealthFits,
           AdvanceQuietly DEF IInv
  <1>5. CASE Reloaded(r)
    BY <1>5, ReloadedDoes, ReloadedKeeps, ReloadedTouches, ReloadedFits, UnloadSpares,
           Advance DEF IInv, Reloaded
  <1>6. CASE Reserve(r)
    BY <1>6, ReserveDoes, ReserveKeeps, ReserveTouches, ReserveFits, AdvanceQuietly DEF IInv
  <1>7. CASE ReserveFails(r)
    BY <1>7, ReserveFailsDoes, ReserveFailsKeeps, ReserveFailsTouches, ReserveFailsFits,
           AdvanceQuietly DEF IInv
  <1>8. CASE AcquireSlot(r)
    BY <1>8, AcquireSlotDoes, AcquireSlotKeeps, AcquireSlotTouches, AcquireSlotFits,
           AdvanceQuietly DEF IInv
  <1>9. CASE AcquireEpoch(r)
    BY <1>9, AcquireEpochDoes, AcquireEpochKeeps, AcquireEpochTouches, AcquireEpochFits,
           AdvanceQuietly DEF IInv
  <1>10. CASE BeginCommit(r)
    BY <1>10, BeginCommitDoes, BeginCommitKeeps, BeginCommitTouches, BeginCommitFits,
           AdvanceQuietly DEF IInv
  <1>11. CASE RefuseCommit(r)
    BY <1>11, RefuseCommitDoes, RefuseCommitKeeps, RefuseCommitTouches, RefuseCommitFits,
           AdvanceQuietly DEF IInv
  <1>12. CASE Committed(r)
    BY <1>12, CommittedDoes, CommittedKeeps, CommittedTouches, CommittedFits,
           AdvanceQuietly DEF IInv
  <1>13. CASE CommitFails(r)
    BY <1>13, CommitFailsDoes, CommitFailsKeeps, CommitFailsTouches, CommitFailsFits,
           AdvanceQuietly DEF IInv
  <1>14. CASE SendReady(r)
    BY <1>14, SendReadyDoes, SendReadyKeeps, SendReadyTouches, SendReadyFits,
           AdvanceQuietly DEF IInv
  <1>15. CASE Top(r)
    BY <1>15, TopDoes, TopKeeps, TopTouches, TopFits, AdvanceQuietly DEF IInv
  <1>16. CASE Next1(r)
    <2>1. CASE kind[r] = "chat"
      BY <1>16, <2>1, Next1ChatDoes, Next1ChatKeeps, Next1Touches, Next1Fits,
             AdvanceQuietly DEF IInv
    <2>2. CASE kind[r] = "choice"
      BY <1>16, <2>2, Next1ChoiceDoes, Next1ChoiceKeeps, Next1Touches, Next1Fits,
             AdvanceQuietly DEF IInv
    <2>3. CASE kind[r] = "embed"
      BY <1>16, <2>3, Next1EmbedDoes, Next1EmbedKeeps, Next1Touches, Next1Fits,
             AdvanceQuietly DEF IInv
    <2>4. kind[r] \in {"chat", "choice", "embed"}
      BY <1>16, LoopKinds DEF Next1, At, IInv, Settled, ClientTruth, Generation, InLoop
    <2> QED BY <2>1, <2>2, <2>3, <2>4
  <1>17. CASE Send(r)
    <2>1. CASE kind[r] = "chat"
      BY <1>17, <2>1, SendChatDoes, SendChatKeeps, SendTouches, SendFits,
             AdvanceQuietly DEF IInv
    <2>2. CASE kind[r] = "choice"
      BY <1>17, <2>2, SendChoiceDoes, SendChoiceKeeps, SendTouches, SendFits,
             AdvanceQuietly DEF IInv
    <2>3. kind[r] \in {"chat", "choice"}
      BY <1>17, LoopKinds DEF Send, At, IInv, Settled, ClientTruth, Generation, InLoop
    <2> QED BY <2>1, <2>2, <2>3
  <1>18. CASE SendFails(r)
    <2>1. CASE kind[r] = "chat"
      BY <1>18, <2>1, SendFailsChatDoes, SendFailsChatKeeps, SendFailsTouches, SendFailsFits,
             AdvanceQuietly DEF IInv
    <2>2. CASE kind[r] = "choice"
      BY <1>18, <2>2, SendFailsChoiceDoes, SendFailsChoiceKeeps, SendFailsTouches,
             SendFailsFits, AdvanceQuietly DEF IInv
    <2>3. CASE kind[r] = "embed"
      BY <1>18, <2>3, SendFailsEmbedDoes, SendFailsEmbedKeeps, SendFailsTouches,
             SendFailsFits, AdvanceQuietly DEF IInv
    <2>4. kind[r] \in {"chat", "choice", "embed"}
      BY <1>18, LoopKinds DEF SendFails, At, IInv, Settled, ClientTruth, Generation, InLoop
    <2> QED BY <2>1, <2>2, <2>3, <2>4
  <1>19. CASE Acked(r)
    BY <1>19, AckedDoes, AckedKeeps, AckedTouches, AckedFits, AdvanceQuietly DEF IInv
  <1>20. CASE Retire(r)
    BY <1>20, RetireDoes, RetireKeeps, RetireTouches, RetireFits, AdvanceQuietly DEF IInv
  <1>21. CASE Retired(r)
    BY <1>21, RetiredDoes, RetiredKeeps, RetiredTouches, RetiredFits, UnloadSpares,
           Advance DEF IInv, Retired
  <1>22. CASE Answer(r)
    BY <1>22, AnswerDoes, AnswerKeeps, AnswerTouches, AnswerFits, AdvanceQuietly DEF IInv
  <1>23. CASE Quit(r)
    BY <1>23, QuitDoes, QuitKeeps, QuitTouches, QuitFits, AdvanceQuietly DEF IInv
  <1>24. CASE DeliverChat(r)
    BY <1>24, DeliverChatDoes, DeliverChatKeeps, DeliverChatTouches, DeliverChatFits,
           AdvanceQuietly DEF IInv
  <1>25. CASE DeliverChoice(r)
    BY <1>25, DeliverChoiceDoes, DeliverChoiceKeeps, DeliverChoiceTouches, DeliverChoiceFits,
           AdvanceQuietly DEF IInv
  <1>26. CASE DeliverEmbedding(r)
    BY <1>26, DeliverEmbeddingDoes, DeliverEmbeddingKeeps, DeliverEmbeddingTouches,
           DeliverEmbeddingFits, AdvanceQuietly DEF IInv
  <1> QED BY <1>1, <1>2, <1>3, <1>4, <1>5, <1>6, <1>7, <1>8, <1>9, <1>10, <1>11, <1>12,
                 <1>13, <1>14, <1>15, <1>16, <1>17, <1>18, <1>19, <1>20, <1>21, <1>22, <1>23,
                 <1>24, <1>25, <1>26 DEF OwnerStep

\* Interruption keeps what is known of its request.
LEMMA InterruptionKeeps ==
    ASSUME IInv, NEW r \in Requests, Interruption(r)
    PROVE  IInv'
  <1> PICK e \in Errors : \/ AdmissionInterrupted(r, e) \/ CommitInterrupted(r, e)
                          \/ LoopInterrupted(r, e) \/ CountInterrupted(r, e)
    BY DEF Interruption
  <1>1. CASE AdmissionInterrupted(r, e)
    BY <1>1, AdmissionInterruptedDoes, AdmissionInterruptedKeeps,
           AdmissionInterruptedTouches, AdmissionInterruptedFits, AdvanceQuietly DEF IInv
  <1>2. CASE CommitInterrupted(r, e)
    BY <1>2, CommitInterruptedDoes, CommitInterruptedKeeps, CommitInterruptedTouches,
           CommitInterruptedFits, AdvanceQuietly DEF IInv
  <1>3. CASE LoopInterrupted(r, e)
    <2>1. CASE kind[r] = "chat"
      BY <1>3, <2>1, LoopInterruptedChatDoes, LoopInterruptedChatKeeps,
             LoopInterruptedTouches, LoopInterruptedFits, AdvanceQuietly DEF IInv
    <2>2. CASE kind[r] = "choice"
      BY <1>3, <2>2, LoopInterruptedChoiceDoes, LoopInterruptedChoiceKeeps,
             LoopInterruptedTouches, LoopInterruptedFits, AdvanceQuietly DEF IInv
    <2>3. CASE kind[r] = "embed"
      BY <1>3, <2>3, LoopInterruptedEmbedDoes, LoopInterruptedEmbedKeeps,
             LoopInterruptedTouches, LoopInterruptedFits, AdvanceQuietly DEF IInv
    <2>4. kind[r] \in {"chat", "choice", "embed"}
      BY <1>3, LoopKinds DEF LoopInterrupted, At, IInv, Settled, ClientTruth, Generation,
             InLoop
    <2> QED BY <2>1, <2>2, <2>3, <2>4
  <1>4. CASE CountInterrupted(r, e)
    BY <1>4, CountInterruptedDoes, CountInterruptedKeeps, CountInterruptedTouches,
           CountInterruptedFits, AdvanceQuietly DEF IInv
  <1> QED BY <1>1, <1>2, <1>3, <1>4

\* WorkerStep keeps what is known of its request.
LEMMA WorkerStepKeeps ==
    ASSUME IInv, NEW r \in Requests, WorkerStep(r)
    PROVE  IInv'
  <1>1. CASE WorkerAck(r)
    BY <1>1, WorkerAckDoes, WorkerAckKeeps, WorkerAckTouches, WorkerAckFits,
           AdvanceQuietly DEF IInv
  <1>2. CASE Counted(r)
    BY <1>2, CountedDoes, CountedKeeps, CountedTouches, CountedFits, AdvanceQuietly DEF IInv
  <1> QED BY <1>1, <1>2 DEF WorkerStep

\* ClientStep keeps what is known of its request.
LEMMA ClientStepKeeps ==
    ASSUME IInv, NEW r \in Requests, ClientStep(r)
    PROVE  IInv'
  <1>1. CASE Call(r)
    BY <1>1, CallDoes, CallKeeps, CallTouches, CallFits, AdvanceQuietly DEF IInv
  <1>2. CASE CallRefused(r)
    BY <1>2, CallRefusedDoes, CallRefusedKeeps, CallRefusedTouches, CallRefusedFits,
           AdvanceQuietly DEF IInv
  <1>3. CASE CallInvalid(r)
    BY <1>3, CallInvalidDoes, CallInvalidKeeps, CallInvalidTouches, CallInvalidFits,
           AdvanceQuietly DEF IInv
  <1>4. CASE Leave(r)
    BY <1>4, LeaveDoes, LeaveKeeps, LeaveTouches, LeaveFits, AdvanceQuietly DEF IInv
  <1>5. CASE LeaveCount(r)
    BY <1>5, LeaveCountDoes, LeaveCountKeeps, LeaveCountTouches, LeaveCountFits,
           AdvanceQuietly DEF IInv
  <1>6. ASSUME NEW c \in {"client", "buffer"}, ClientCancel(r, c)
         PROVE  IInv'
    BY <1>6, ClientCancelDoes, ClientCancelKeeps, ClientCancelTouches, ClientCancelFits,
           AdvanceQuietly DEF IInv
  <1>7. CASE ClientDrop(r)
    BY <1>7, ClientDropDoes, ClientDropKeeps, ClientDropTouches, ClientDropFits,
           AdvanceQuietly DEF IInv
  <1>8. CASE ClientRecv(r)
    BY <1>8, ClientRecvDoes, ClientRecvKeeps, ClientRecvTouches, ClientRecvFits,
           AdvanceQuietly DEF IInv
  <1>9. CASE ClientEnd(r)
    BY <1>9, ClientEndDoes, ClientEndKeeps, ClientEndTouches, ClientEndFits,
           AdvanceQuietly DEF IInv
  <1> QED BY <1>1, <1>2, <1>3, <1>4, <1>5, <1>6, <1>7, <1>8, <1>9 DEF ClientStep

\* Break keeps what is known of its request.
LEMMA BreakKeeps ==
    ASSUME IInv, NEW m \in Models, Break(m)
    PROVE  IInv'
  <1>1. /\ UNCHANGED <<kind, model, owner, client, cancelled, notified, cause, queue, final,
                       work,
                      stop, deltas, lease, slot, epoch, unloading, outcome, shutdown>>
        /\ engine' = [engine EXCEPT ![m].healthy = FALSE]
    BY DEF Break, task, channel, worker, held
  <1>2. engine \in [Models -> Engine]
    BY DEF IInv, Types, CacheType, Engine
  <1>3. engine' \in [Models -> Engine]
    BY <1>1, <1>2 DEF Engine
  <1>4. \A k \in Models : engine'[k].inst = engine[k].inst /\ engine'[k].loads = engine[k].loads
    BY <1>1, <1>2 DEF Engine
  <1>5. Types'
    <2>1. CacheType'
      BY <1>1, <1>3, <1>4 DEF IInv, Types, CacheType, Engine
    <2>2. OwnerType' /\ ClientType' /\ ChannelType'
      BY <1>1 DEF IInv, Types, OwnerType, ClientType, ChannelType
    <2>3. WorkerType' /\ HeldType' /\ RestType'
      BY <1>1 DEF IInv, Types, WorkerType, HeldType, RestType
    <2> QED BY <2>1, <2>2, <2>3 DEF Types
  <1>6. ASSUME NEW q \in Requests PROVE Settled(q)'
    <2>1. Settled(q) /\ model[q] \in Models
      BY DEF IInv, Types, RestType
    <2>2. WorkStage(q)' /\ PlanStage(q)'
      BY <1>1, <2>1 DEF Settled, WorkStage, PlanStage
    <2>3. HeldStage(q)'
      BY <1>1, <1>4, <2>1 DEF Settled, HeldStage, Busy
    <2>4. Broken(q)'
      BY <1>1, <1>4, <2>1 DEF Settled, Broken
    <2>5. ClientTruth(q)' /\ ChatTruth(q)'
      BY <1>1, <2>1 DEF Settled, ClientTruth, ChatTruth, Generation, Bound
    <2>6. ChoiceTruth(q)' /\ Truthful(q)'
      BY <1>1, <2>1 DEF Settled, ChoiceTruth, Truthful, Bound
    <2> QED BY <2>2, <2>3, <2>4, <2>5, <2>6 DEF Settled
  <1> QED BY <1>5, <1>6 DEF IInv

\* Shutdown keeps what is known of its request.
LEMMA ShutdownKeeps ==
    ASSUME IInv, shutdown' \in BOOLEAN,
           UNCHANGED <<kind, model, task, channel, worker, held, cache, outcome>>
    PROVE  IInv'
  <1>1. UNCHANGED <<kind, model, owner, client, cancelled, notified, cause, queue, final,
                    work,
                    stop, deltas, lease, slot, epoch, engine, unloading, outcome>>
    BY DEF task, channel, worker, held, cache
  <1>2. OwnerType' /\ ClientType' /\ ChannelType' /\ WorkerType'
    BY <1>1 DEF IInv, Types, OwnerType, ClientType, ChannelType, WorkerType
  <1>3. HeldType' /\ CacheType' /\ RestType'
    BY <1>1 DEF IInv, Types, HeldType, CacheType, RestType
  <1>4. ASSUME NEW q \in Requests PROVE Settled(q)'
    <2>1. Settled(q)
      BY DEF IInv
    <2>2. WorkStage(q)' /\ PlanStage(q)' /\ HeldStage(q)' /\ Broken(q)'
      BY <1>1, <2>1 DEF Settled, WorkStage, PlanStage, HeldStage, Busy, Broken
    <2>3. ClientTruth(q)' /\ ChatTruth(q)'
      BY <1>1, <2>1 DEF Settled, ClientTruth, ChatTruth, Generation, Bound
    <2>4. ChoiceTruth(q)' /\ Truthful(q)'
      BY <1>1, <2>1 DEF Settled, ChoiceTruth, Truthful, Bound
    <2> QED BY <2>2, <2>3, <2>4 DEF Settled
  <1> QED BY <1>2, <1>3, <1>4 DEF IInv, Types

\* The invariant holds at the start.
LEMMA IInvInit == Init => IInv
  <1> SUFFICES ASSUME Init PROVE IInv
    OBVIOUS
  <1>1. Types
    BY TypesInit
  <1>2. ASSUME NEW r \in Requests PROVE Settled(r)
    <2>1. /\ owner[r] = NewOwner /\ client[r].got = "none"
          /\ client[r].st = IF kind[r] = "none" THEN "ended" ELSE "idle"
          /\ cancelled[r] = FALSE /\ notified[r] = FALSE /\ cause[r] = "none"
          /\ queue[r] = <<>> /\ final[r] = "open" /\ work[r] = "none"
          /\ lease[r] = 0 /\ outcome[r] = "none"
      BY DEF Init
    <2>2. /\ owner[r].pc = "idle" /\ owner[r].connected = TRUE /\ owner[r].terminal = FALSE
          /\ owner[r].failed = FALSE /\ owner[r].broken = 0
      BY <2>1 DEF NewOwner
    <2>3. WorkStage(r) /\ PlanStage(r)
      BY <2>1, <2>2 DEF WorkStage, PlanStage, Finishing
    <2>4. HeldStage(r)
      BY <2>1, <2>2 DEF HeldStage, Busy, Leased, Slotted, Shared, InLoop
    <2>5. Broken(r)
      BY <1>1, <2>2, TypesAt DEF Broken, RowType
    <2>6. ClientTruth(r) /\ ChatTruth(r)
      BY <2>1, <2>2 DEF ClientTruth, ChatTruth, Generation, Bound, InLoop
    <2>7. ChoiceTruth(r) /\ Truthful(r)
      BY <2>1, <2>2 DEF ChoiceTruth, Truthful, Bound
    <2> QED BY <2>3, <2>4, <2>5, <2>6, <2>7 DEF Settled
  <1> QED BY <1>1, <1>2 DEF IInv

\* Every step keeps the invariant.
LEMMA IInvNext == IInv /\ [Next]_vars => IInv'
  <1> SUFFICES ASSUME IInv, [Next]_vars PROVE IInv'
    OBVIOUS
  <1>1. ASSUME NEW r \in Requests,
               OwnerStep(r) \/ Interruption(r) \/ WorkerStep(r) \/ ClientStep(r)
        PROVE  IInv'
    BY <1>1, OwnerStepKeeps, InterruptionKeeps, WorkerStepKeeps, ClientStepKeeps
  <1>2. ASSUME NEW m \in Models, Break(m) PROVE IInv'
    BY <1>2, BreakKeeps
  <1>3. CASE Shutdown
    BY <1>3, ShutdownKeeps DEF Shutdown
  <1>4. CASE UNCHANGED vars
    BY <1>4, ShutdownKeeps DEF vars, IInv, Types, RestType
  <1> QED BY <1>1, <1>2, <1>3, <1>4 DEF Next, AllOver

\* The invariant holds always.
LEMMA IInvAlways == Spec => []IInv
  BY IInvInit, IInvNext, PTL DEF Spec

\* Whatever an engine does for a request, it does under a lease of the resident instance,
\* with the slot and, for inference, a share of the epoch still held: for any number of
\* requests and models, whatever is dropped or breaks (the owner tasks of llm.rs).
THEOREM WorkOwnedAlways == Spec => []WorkOwned
  <1>1. IInv => WorkOwned
    <2> SUFFICES ASSUME IInv PROVE WorkOwned
      OBVIOUS
    <2>1. ASSUME NEW r \in Requests
          PROVE  /\ owner[r].err \in Errors \cup {"none"}
                 /\ client[r].st \in {"idle", "waiting", "holding", "gone", "ended"}
                 /\ Len(queue[r]) <= QueueCap
                 /\ outcome[r] \in Outcomes
      BY DEF IInv, Types, OwnerType, Owner, ClientType, Client, ChannelType, RestType
    <2>2. ASSUME NEW r \in Requests PROVE lease[r] \in 0..MaxLoads
      <3>1. RowType(r) /\ HeldStage(r) /\ engine[model[r]].loads <= MaxLoads
        BY TypesAt DEF IInv, Settled, Types, CacheType, RestType
      <3> QED BY <3>1, LimitsAssumption DEF RowType, HeldStage
    <2>3. TypeOK
      BY <2>1, <2>2 DEF TypeOK, IInv, Types, RestType, CacheType
    <2>4. WorkCovered
      BY DEF IInv, Settled, HeldStage, Busy, WorkCovered
    <2> QED BY <2>3, <2>4 DEF WorkOwned
  <1> QED BY <1>1, IInvAlways, PTL

\* A reader that did not cancel is told how its generation ended, the activity record says
\* the same, and it never meets the end of an owner without a terminal (own_llm_generation,
\* own_llm_choice_generation).
THEOREM EndTruthfulAlways == Spec => []EndTruthful
  <1>1. IInv => EndTruthful
    BY DEF IInv, Settled, Truthful, EndTruthful
  <1> QED BY <1>1, IInvAlways, PTL

\* An owner that found its engine broken does not report before that engine has left
\* memory, and no later load is mistaken for it (retire_unhealthy_llm).
THEOREM BrokenRetiredAlways == Spec => []BrokenRetired
  <1>1. IInv => BrokenRetired
    BY DEF IInv, Settled, Broken, BrokenRetired, At
  <1> QED BY <1>1, IInvAlways, PTL
=============================================================================
