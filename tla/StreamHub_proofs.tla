-------------------------- MODULE StreamHub_proofs --------------------------
(***************************************************************************)
(* Theorems about StreamHub: type correctness, that a broadcast never      *)
(* touches a channel that Unsubscribe has closed, who owns a drain, that   *)
(* no consumer is passed over, that a consumer gets one producer's deltas  *)
(* in order, and that its drop counter is exact, whatever producers,       *)
(* drains, replays and evictions do to the channel at the same time.       *)
(***************************************************************************)
EXTENDS StreamHub, TLAPS, FiniteSetTheorems

\* What a goroutine's place in the code says about its locals.
Holding == {"send", "evict", "putBack", "refill"}

LocalsOK ==
    /\ \A p \in Producers :
         /\ pc[p] = "cache" => IdrCacheSize > 0
         /\ pc[p] # "idle" => frame[p] \in Frames
         /\ pc[p] \in Holding => cur[p] \in Slots
         /\ pc[p] = "putBack" => old[p] \in Frames /\ scan[p] < Cap
    /\ \A t \in Callers :
         /\ cpc[t] = "idle" <=> target[t] = NoSlot
         /\ cpc[t] = "replay" => replay[t] \in Frames

TypeInv == TypeOK /\ LocalsOK

LEMMA TypeInit == Init => TypeInv
  BY HubAssumption, NoFrameAssumption
     DEF Init, TypeInv, TypeOK, LocalsOK, Holding, PcValues, CpcValues, Media, Ids

LEMMA LatestType ==
  ASSUME idrCache \in Seq(Frames)
  PROVE  LatestCompleteIDR \subseteq Frames
  BY DEF LatestCompleteIDR

LEMMA ProducerType ==
  ASSUME TypeInv, NEW p \in Producers,
         Broadcast(p) \/ BroadcastAudio(p) \/ DistributeFrame(p)
  PROVE  TypeInv'
  <1> USE HubAssumption, NoFrameAssumption DEF TypeInv, LocalsOK, Holding, TypeOK,
        hubVars, lifeVars, countVars, histVars, entryVars, callVars, Goto, Release,
        PcValues, Media, Ids
  <1>1. ASSUME NEW kind \in Kinds, NEW label \in {"cache", "snap"}, Start(p, kind, label),
               label = "cache" => IdrCacheSize > 0
        PROVE  TypeInv'
    <2> DEFINE f == [n |-> framesIn + 1, kind |-> kind, by |-> p]
    <2>1. f \in Frames
      BY <1>1 DEF Start, Frames
    <2>2. frame' = [frame EXCEPT ![p] = f]
      BY <1>1 DEF Start
    <2> HIDE DEF f
    <2>3. Subscribed \subseteq Slots
      BY DEF Subscribed
    <2>4. /\ due' \in [Producers -> SUBSET Slots]
          /\ pc' = [pc EXCEPT ![p] = label]
          /\ framesIn' \in 0..MaxFrames
      BY <1>1, <2>3 DEF Start
    <2>5. UNCHANGED <<hubVars, entryVars, todo, cur, scan, old, visited, callVars>>
      BY <1>1 DEF Start
    <2>6. TypeOK'
      BY <2>1, <2>2, <2>4, <2>5
    <2>7. LocalsOK'
      BY <1>1, <2>1, <2>2, <2>4, <2>5
    <2> QED BY <2>6, <2>7
  <1>2. CASE CacheIDR(p)
    <2>1. idrCache' \in Seq(Frames)
      BY <1>2 DEF CacheIDR
    <2>2. Goto(p, "snap") /\ pc[p] = "cache"
      BY <1>2 DEF CacheIDR
    <2>3. UNCHANGED <<consumers, snapshot, entryVars, frame, todo, cur, scan, old, due, visited,
                      callVars, framesIn>>
      BY <1>2 DEF CacheIDR
    <2> QED BY <2>1, <2>2, <2>3
  <1>3. CASE LoadSnapshot(p)
    BY <1>3 DEF LoadSnapshot, Medium
  <1>4. CASE LockEntry(p)
    <2>1. PICK s \in todo[p] :
            /\ todo' = [todo EXCEPT ![p] = @ \ {s}]
            /\ IF closed[s]
               THEN UNCHANGED <<pc, cur, pending, visited>>
               ELSE /\ Goto(p, "send")
                    /\ cur' = [cur EXCEPT ![p] = s]
                    /\ pending' = [pending EXCEPT ![s] = @ \cup {frame[p]}]
                    /\ visited' = [visited EXCEPT ![p] = @ \cup {s}]
      BY <1>4 DEF LockEntry
    <2>2. /\ pc[p] = "next" /\ s \in Slots /\ frame[p] \in Frames
          /\ UNCHANGED <<hubVars, queue, inCall, lifeVars, countVars, lastDelta, frame, scan,
                         old, due, callVars, framesIn>>
      BY <1>4 DEF LockEntry
    <2>3. CASE closed[s]
      BY <2>1, <2>2, <2>3
    <2>4. CASE ~closed[s]
      <3>1. pending' \in [Slots -> SUBSET Frames]
        <4>1. pending[s] \cup {frame[p]} \in SUBSET Frames
          BY <2>2
        <4>2. pending' = [pending EXCEPT ![s] = pending[s] \cup {frame[p]}]
          BY <2>1, <2>4
        <4>3. pending \in [Slots -> SUBSET Frames]
          OBVIOUS
        <4> QED BY ONLY <2>2, <4>1, <4>2, <4>3
      <3>2. visited' \in [Producers -> SUBSET Slots]
        <4>1. visited[p] \cup {s} \in SUBSET Slots
          BY <2>2
        <4>2. visited' = [visited EXCEPT ![p] = visited[p] \cup {s}]
          BY <2>1, <2>4
        <4>3. visited \in [Producers -> SUBSET Slots]
          OBVIOUS
        <4> QED BY ONLY <2>2, <4>1, <4>2, <4>3
      <3>3. /\ pc' = [pc EXCEPT ![p] = "send"] /\ cur' = [cur EXCEPT ![p] = s]
            /\ todo' \in [Producers -> SUBSET Slots]
        BY <2>1, <2>4
      <3> QED BY <2>2, <3>1, <3>2, <3>3
    <2> QED BY <2>3, <2>4
  <1>5. CASE EndBroadcast(p)
    BY <1>5 DEF EndBroadcast
  <1>6. CASE SendOk(p)
    BY <1>6 DEF SendOk
  <1>7. CASE SendFullDelta(p)
    BY <1>7 DEF SendFullDelta
  <1>8. CASE SendFullIDR(p)
    BY <1>8 DEF SendFullIDR
  <1>9. CASE EvictDelta(p)
    BY <1>9 DEF EvictDelta
  <1>10. CASE EvictIDR(p)
    BY <1>10 DEF EvictIDR
  <1>11. CASE EvictEmpty(p)
    BY <1>11 DEF EvictEmpty
  <1>12. CASE EvictExhausted(p)
    BY <1>12 DEF EvictExhausted
  <1>13. CASE PutBack(p)
    BY <1>13 DEF PutBack
  <1>14. CASE PutBackFull(p)
    BY <1>14 DEF PutBackFull
  <1>15. CASE Refill(p)
    BY <1>15 DEF Refill
  <1>16. CASE RefillFull(p)
    BY <1>16 DEF RefillFull
  <1> QED
    BY <1>1, <1>2, <1>3, <1>4, <1>5, <1>6, <1>7, <1>8, <1>9, <1>10, <1>11, <1>12,
       <1>13, <1>14, <1>15, <1>16 DEF Broadcast, BroadcastAudio, DistributeFrame, TrySendIDR

LEMMA DrainType ==
  ASSUME TypeInv, NEW s \in Slots, Drain(s)
  PROVE  TypeInv'
  <1> USE HubAssumption, NoFrameAssumption DEF TypeInv, LocalsOK, Holding, TypeOK,
        hubVars, lifeVars, countVars, histVars, prodVars, callVars, PcValues, Media, Ids
  <1>1. CASE Receive(s)
    <2> DEFINE f == Head(queue[s])
    <2>1. f \in Frames /\ f.n \in Nat /\ f.by \in Producers
      <3>1. queue[s] # <<>> /\ queue[s] \in Seq(Frames)
        BY <1>1 DEF Receive
      <3>2. f \in Frames
        BY <3>1
      <3> QED BY <3>2 DEF Frames
    <2>2. /\ queue' = [queue EXCEPT ![s] = Tail(@)]
          /\ queue[s] # <<>>
          /\ inCall' = [inCall EXCEPT ![s] = TRUE]
          /\ pending' = [pending EXCEPT ![s] = @ \ {f}]
          /\ lastDelta' = IF IsIDR(f) THEN lastDelta
                          ELSE [lastDelta EXCEPT ![s][f.by] = f.n]
          /\ UNCHANGED <<hubVars, lifeVars, countVars, prodVars, callVars, framesIn>>
      BY <1>1 DEF Receive
    <2> HIDE DEF f
    <2>3. lastDelta' \in [Slots -> [Producers -> Nat]]
      BY <2>1, <2>2
    <2> QED BY <2>1, <2>2, <2>3
  <1>2. CASE CallbackReturns(s)
    BY <1>2 DEF CallbackReturns
  <1>3. CASE DrainExits(s)
    BY <1>3 DEF DrainExits
  <1> QED BY <1>1, <1>2, <1>3 DEF Drain

LEMMA CallerType ==
  ASSUME TypeInv, NEW t \in Callers, Call(t) \/ FinishCall(t)
  PROVE  TypeInv'
  <1> USE HubAssumption, NoFrameAssumption DEF TypeInv, LocalsOK, Holding, TypeOK,
        hubVars, lifeVars, countVars, histVars, entryVars, prodVars, callVars, PcValues,
        CpcValues, Media, Ids
  <1>1. ASSUME NEW id \in VideoIds, NEW s \in Slots, Subscribe(t, id, s)
        PROVE  TypeInv'
    <2>1. /\ cpc[t] = "idle"
          /\ UNCHANGED <<idrCache, prodVars, framesIn, queue, inCall, countVars, histVars>>
          /\ consumers' = [consumers EXCEPT ![id] = s]
          /\ snapshot' = [snapshot EXCEPT !["video"] = @ \cup {s}]
          /\ closed' = [closed EXCEPT ![s] = FALSE]
          /\ chClosed' = [chClosed EXCEPT ![s] = FALSE]
          /\ done' = [done EXCEPT ![s] = FALSE]
      BY <1>1 DEF Subscribe, Join
    <2>2. CASE UNCHANGED callVars
      BY <2>1, <2>2
    <2>3. CASE ~UNCHANGED callVars
      <3>1. PICK f \in Frames :
              /\ cpc' = [cpc EXCEPT ![t] = "replay"]
              /\ target' = [target EXCEPT ![t] = s]
              /\ replay' = [replay EXCEPT ![t] = f]
        BY <1>1, <2>3, LatestType DEF Subscribe
      <3> QED BY <2>1, <3>1
    <2> QED BY <2>2, <2>3
  <1>2. ASSUME NEW id \in AudioIds, NEW s \in Slots, SubscribeAudio(t, id, s)
        PROVE  TypeInv'
    BY <1>2 DEF SubscribeAudio, Join
  <1>3. ASSUME NEW id \in Ids, NEW medium \in Media, Leave(t, id, medium)
        PROVE  TypeInv'
    BY <1>3 DEF Leave
  <1>4. CASE Replay(t)
    BY <1>4 DEF Replay, CallReturns
  <1>5. CASE ReplayPanics(t)
    BY <1>5 DEF ReplayPanics
  <1>6. CASE MarkClosed(t)
    BY <1>6 DEF MarkClosed
  <1>7. CASE CloseChannel(t)
    BY <1>7 DEF CloseChannel
  <1>8. CASE AwaitDrain(t)
    BY <1>8 DEF AwaitDrain, CallReturns
  <1> QED
    BY <1>1, <1>2, <1>3, <1>4, <1>5, <1>6, <1>7, <1>8
       DEF Call, FinishCall, Unsubscribe, UnsubscribeAudio

LEMMA TypeStep == TypeInv /\ [Next]_vars => TypeInv'
  <1> SUFFICES ASSUME TypeInv, [Next]_vars
               PROVE  TypeInv'
    OBVIOUS
  <1>1. CASE UNCHANGED vars
    BY <1>1 DEF TypeInv, TypeOK, LocalsOK, vars, hubVars, lifeVars, countVars, histVars,
                entryVars, prodVars, callVars
  <1>2. CASE Next
    BY <1>1, <1>2, ProducerType, DrainType, CallerType DEF Next
  <1> QED BY <1>1, <1>2

\* Every variable keeps its type, for any consumers, producers and callers.
THEOREM TypeCorrect == Spec => []TypeOK
  <1>1. TypeInv => TypeOK
    BY DEF TypeInv
  <1> QED BY <1>1, TypeInit, TypeStep, PTL DEF Spec

-----------------------------------------------------------------------------
\* NoBroadcastOnClosed.  A producer looks at the flag, not at the channel:
\* the flag is what is inductive, and the channel is closed only after it.
ClosedInv ==
    /\ \A p \in Producers : cur[p] # NoSlot => ~closed[cur[p]]
    /\ \A s \in Slots : chClosed[s] => closed[s]
    /\ \A t \in Callers : cpc[t] = "shut" => closed[target[t]]

LEMMA ProducerClosed ==
  ASSUME TypeInv, ClosedInv, NEW p \in Producers,
         Broadcast(p) \/ BroadcastAudio(p) \/ DistributeFrame(p)
  PROVE  ClosedInv'
  <1>1. UNCHANGED <<lifeVars, callVars>>
    BY DEF Broadcast, BroadcastAudio, Start, DistributeFrame, TrySendIDR, CacheIDR,
           LoadSnapshot, LockEntry, EndBroadcast, SendOk, SendFullDelta, SendFullIDR,
           EvictDelta, EvictIDR, EvictEmpty, EvictExhausted, PutBack, PutBackFull, Refill,
           RefillFull, entryVars
  <1>2. \A q \in Producers : cur'[q] \in {cur[q], NoSlot} \/ ~closed[cur'[q]]
    BY DEF TypeInv, TypeOK, Broadcast, BroadcastAudio, Start, DistributeFrame, TrySendIDR,
           CacheIDR, LoadSnapshot, LockEntry, EndBroadcast, SendOk, SendFullDelta,
           SendFullIDR, EvictDelta, EvictIDR, EvictEmpty, EvictExhausted, PutBack,
           PutBackFull, Refill, RefillFull, Release
  <1> QED BY <1>1, <1>2 DEF ClosedInv, lifeVars, callVars

LEMMA CallerClosed ==
  ASSUME TypeInv, ClosedInv, NEW t \in Callers, Call(t) \/ FinishCall(t)
  PROVE  ClosedInv'
  <1> USE HubAssumption DEF ClosedInv, TypeInv, TypeOK, LocalsOK, lifeVars, prodVars,
        callVars, entryVars, CpcValues
  \* A joining entry is one that nobody is working on.
  <1>1. ASSUME NEW id \in Ids, NEW medium \in Media, NEW s \in Slots, Join(id, medium, s),
               UNCHANGED prodVars,
               \A u \in Callers : cpc'[u] = "shut" => cpc[u] = "shut" /\ target'[u] = target[u]
        PROVE  ClosedInv'
    <2>1. /\ \A p \in Producers : cur[p] # s
          /\ \A u \in Callers : target[u] # s
          /\ closed' = [closed EXCEPT ![s] = FALSE]
          /\ chClosed' = [chClosed EXCEPT ![s] = FALSE]
      BY <1>1 DEF Join, Unreferenced
    <2>2. \A u \in Callers : cpc[u] = "shut" => target[u] \in Slots
      OBVIOUS
    <2> QED BY <1>1, <2>1, <2>2
  <1>2. ASSUME NEW id \in VideoIds, NEW s \in Slots, Subscribe(t, id, s)
        PROVE  ClosedInv'
    <2>1. \A u \in Callers : cpc'[u] = "shut" => cpc[u] = "shut" /\ target'[u] = target[u]
      BY <1>2 DEF Subscribe
    <2> QED BY <1>1, <1>2, <2>1 DEF Subscribe, Ids, Media
  <1>3. ASSUME NEW id \in AudioIds, NEW s \in Slots, SubscribeAudio(t, id, s)
        PROVE  ClosedInv'
    BY <1>1, <1>3 DEF SubscribeAudio, Ids, Media
  <1>4. ASSUME NEW id \in Ids, NEW medium \in Media, Leave(t, id, medium)
        PROVE  ClosedInv'
    BY <1>4 DEF Leave
  <1>5. CASE Replay(t)
    BY <1>5 DEF Replay, CallReturns
  <1>6. CASE ReplayPanics(t)
    BY <1>6 DEF ReplayPanics
  \* The write lock is granted only when no producer holds the read lock.
  <1>7. CASE MarkClosed(t)
    BY <1>7 DEF MarkClosed
  <1>8. CASE CloseChannel(t)
    BY <1>8 DEF CloseChannel
  <1>9. CASE AwaitDrain(t)
    BY <1>9 DEF AwaitDrain, CallReturns
  <1> QED
    BY <1>2, <1>3, <1>4, <1>5, <1>6, <1>7, <1>8, <1>9
       DEF Call, FinishCall, Unsubscribe, UnsubscribeAudio, Ids, Media

LEMMA ClosedStep == TypeInv /\ ClosedInv /\ [Next]_vars => ClosedInv'
  <1> SUFFICES ASSUME TypeInv, ClosedInv, [Next]_vars
               PROVE  ClosedInv'
    OBVIOUS
  <1>1. CASE UNCHANGED vars
    BY <1>1 DEF ClosedInv, vars, entryVars, lifeVars, prodVars, callVars
  <1>2. ASSUME NEW s \in Slots, Drain(s)
        PROVE  ClosedInv'
    BY <1>2 DEF Drain, Receive, CallbackReturns, DrainExits, ClosedInv, lifeVars, prodVars,
                callVars
  <1> QED BY <1>1, <1>2, ProducerClosed, CallerClosed DEF Next

\* No broadcast, whatever snapshot it works from, sends on or receives from a
\* channel that an Unsubscribe has closed.
THEOREM BroadcastSafe == Spec => []NoBroadcastOnClosed
  <1>1. Init => ClosedInv
    BY DEF Init, ClosedInv
  <1>2. TypeInv /\ ClosedInv => NoBroadcastOnClosed
    BY DEF TypeInv, TypeOK, ClosedInv, NoBroadcastOnClosed
  <1> QED BY <1>1, <1>2, TypeInit, TypeStep, ClosedStep, PTL DEF Spec

-----------------------------------------------------------------------------
\* DrainHasOwner, which the types and the idle callers' targets make inductive.

LEMMA OwnerStep == TypeInv /\ DrainHasOwner /\ [Next]_vars => DrainHasOwner'
  <1> SUFFICES ASSUME TypeInv, DrainHasOwner, [Next]_vars,
                      NEW s \in Slots, ~done'[s]
               PROVE  s \in Subscribed' \/ \E t \in Callers : target'[t] = s /\ cpc'[t] # "replay"
    BY DEF DrainHasOwner
  <1> USE HubAssumption DEF DrainHasOwner, TypeInv, TypeOK, LocalsOK, Subscribed, lifeVars,
        hubVars, prodVars, callVars, entryVars
  <1>1. CASE UNCHANGED <<consumers, done, cpc, target>>
    BY <1>1
  <1>2. ASSUME NEW p \in Producers, Broadcast(p) \/ BroadcastAudio(p) \/ DistributeFrame(p)
        PROVE  UNCHANGED <<consumers, done, cpc, target>>
    BY <1>2 DEF Broadcast, BroadcastAudio, Start, DistributeFrame, TrySendIDR, CacheIDR,
           LoadSnapshot, LockEntry, EndBroadcast, SendOk, SendFullDelta, SendFullIDR,
           EvictDelta, EvictIDR, EvictEmpty, EvictExhausted, PutBack, PutBackFull, Refill,
           RefillFull
  <1>3. ASSUME NEW r \in Slots, Drain(r)
        PROVE  ~done[s] /\ UNCHANGED <<consumers, cpc, target>>
    BY <1>3, ZenonT(60) DEF Drain, Receive, CallbackReturns, DrainExits
  <1>4. ASSUME NEW id \in Ids, NEW medium \in Media, NEW r \in Slots, Join(id, medium, r),
               \A t \in Callers : target[t] # NoSlot /\ cpc[t] # "replay" =>
                                   target'[t] = target[t] /\ cpc'[t] # "replay"
        PROVE  s \in Subscribed' \/ \E t \in Callers : target'[t] = s /\ cpc'[t] # "replay"
    <2>1. /\ consumers[id] = NoSlot
          /\ consumers' = [consumers EXCEPT ![id] = r]
          /\ done' = [done EXCEPT ![r] = FALSE]
      BY <1>4 DEF Join
    <2>2. CASE s = r
      BY <2>1, <2>2
    <2>3. CASE s # r
      <3>1. ~done[s]
        BY <2>1, <2>3
      <3>2. CASE s \in Subscribed
        <4>1. PICK other \in Ids : consumers[other] = s
          BY <3>2
        <4>2. consumers'[other] = s
          BY <2>1, <4>1
        <4> QED BY <4>2
      <3>3. CASE \E t \in Callers : target[t] = s /\ cpc[t] # "replay"
        <4>1. PICK t \in Callers : target[t] = s /\ cpc[t] # "replay"
          BY <3>3
        <4>2. target'[t] = target[t] /\ cpc'[t] # "replay"
          <5>1. s # NoSlot
            BY ONLY HubAssumption, s \in Slots
          <5> QED BY ONLY <1>4, <4>1, <5>1
        <4> QED BY ONLY <4>1, <4>2
      <3> QED BY <3>1, <3>2, <3>3
    <2> QED BY <2>2, <2>3
  <1>5. ASSUME NEW t \in Callers, NEW id \in Ids, NEW medium \in Media, Leave(t, id, medium)
        PROVE  s \in Subscribed' \/ \E u \in Callers : target'[u] = s /\ cpc'[u] # "replay"
    BY <1>5 DEF Leave
  <1>6. ASSUME NEW t \in Callers, FinishCall(t)
        PROVE  s \in Subscribed' \/ \E u \in Callers : target'[u] = s /\ cpc'[u] # "replay"
    <2>1. consumers' = consumers /\ done' = done
      BY <1>6 DEF FinishCall, Replay, ReplayPanics, MarkClosed, CloseChannel, AwaitDrain
    <2>2. ASSUME NEW u \in Callers, target[u] = s, cpc[u] # "replay"
          PROVE  target'[u] = s /\ cpc'[u] # "replay"
      <3>1. CASE u = t
        \* AwaitDrain lets go of an entry whose drain has exited.
        BY <1>6, <2>1, <2>2, <3>1 DEF FinishCall, Replay, ReplayPanics, MarkClosed,
           CloseChannel, AwaitDrain
      <3>2. CASE u # t
        BY <1>6, <2>2, <3>2 DEF FinishCall, Replay, ReplayPanics, MarkClosed,
           CloseChannel, AwaitDrain, CallReturns
      <3> QED BY <3>1, <3>2
    <2> QED BY <2>1, <2>2
  <1>7. ASSUME NEW t \in Callers, Call(t)
        PROVE  s \in Subscribed' \/ \E u \in Callers : target'[u] = s /\ cpc'[u] # "replay"
    <2>1. ASSUME NEW id \in VideoIds, NEW r \in Slots, Subscribe(t, id, r)
          PROVE  \A u \in Callers : target[u] # NoSlot /\ cpc[u] # "replay" =>
                                   target'[u] = target[u] /\ cpc'[u] # "replay"
      BY <2>1 DEF Subscribe
    <2>2. ASSUME NEW id \in VideoIds, NEW r \in Slots, Subscribe(t, id, r)
          PROVE  s \in Subscribed' \/ \E u \in Callers : target'[u] = s /\ cpc'[u] # "replay"
      <3>1. Join(id, "video", r) /\ id \in Ids /\ "video" \in Media
        BY <2>2 DEF Subscribe, Ids, Media
      <3> QED BY ONLY <1>4, <2>1, <2>2, <3>1
    <2>3. ASSUME NEW id \in AudioIds, NEW r \in Slots, SubscribeAudio(t, id, r)
          PROVE  s \in Subscribed' \/ \E u \in Callers : target'[u] = s /\ cpc'[u] # "replay"
      <3>1. Join(id, "audio", r) /\ id \in Ids /\ "audio" \in Media
        BY <2>3 DEF SubscribeAudio, Ids, Media
      <3>2. UNCHANGED <<target, cpc>>
        BY <2>3 DEF SubscribeAudio
      <3> QED BY ONLY <1>4, <3>1, <3>2
    <2> QED BY <1>5, <1>7, <2>2, <2>3 DEF Call, Unsubscribe, UnsubscribeAudio, Ids, Media
  <1> QED BY <1>1, <1>2, <1>3, <1>6, <1>7 DEF Next, vars

\* A drain goroutine, and so a callback, outlives neither its subscription nor
\* the Unsubscribe that ends it.
THEOREM DrainsOwned == Spec => []DrainHasOwner
  <1>1. Init => DrainHasOwner
    BY DEF Init, DrainHasOwner
  <1> QED BY <1>1, TypeInit, TypeStep, OwnerStep, PTL DEF Spec

-----------------------------------------------------------------------------
\* EveryConsumerOffered.  A producer works from the snapshot, looks at the flag
\* and forgets what it has served: what is due to a consumer that stays is in
\* what is left of the snapshot or has been offered, because the snapshot names
\* every subscribed entry and no subscribed entry is flagged closed.
IdsOf(m) == IF m = "audio" THEN AudioIds ELSE VideoIds

MapInv ==
    /\ \A m \in Media : \A id \in IdsOf(m) :
         consumers[id] # NoSlot => consumers[id] \in snapshot[m]
    /\ \A i, j \in Ids : consumers[i] = consumers[j] /\ consumers[i] # NoSlot => i = j
    /\ \A s \in Subscribed : ~closed[s]
    /\ \A t \in Callers : cpc[t] \in {"close", "shut", "wait"} => target[t] \notin Subscribed

DueInv ==
    \A p \in Producers :
        /\ due[p] \subseteq Subscribed
        /\ pc[p] \in Holding \cup {"next"} =>
             \A id \in IdsOf(Medium(frame[p])) :
                 consumers[id] \in due[p] => consumers[id] \in todo[p] \cup visited[p]

LEMMA SubscribedType == TypeOK => Subscribed \subseteq Slots
  BY DEF TypeOK, Subscribed, Ids

LEMMA ProducerMap ==
  ASSUME TypeInv, MapInv, NEW p \in Producers,
         Broadcast(p) \/ BroadcastAudio(p) \/ DistributeFrame(p)
  PROVE  MapInv' /\ Subscribed' = Subscribed
  <1>1. UNCHANGED <<consumers, snapshot, closed, cpc, target>>
    BY DEF Broadcast, BroadcastAudio, Start, DistributeFrame, TrySendIDR, CacheIDR,
           LoadSnapshot, LockEntry, EndBroadcast, SendOk, SendFullDelta, SendFullIDR,
           EvictDelta, EvictIDR, EvictEmpty, EvictExhausted, PutBack, PutBackFull, Refill,
           RefillFull, entryVars, lifeVars, callVars, hubVars
  <1> QED BY <1>1 DEF MapInv, Subscribed

LEMMA ProducerDue ==
  ASSUME TypeInv, MapInv, DueInv, NEW p \in Producers,
         Broadcast(p) \/ BroadcastAudio(p) \/ DistributeFrame(p)
  PROVE  DueInv'
  <1> SUFFICES ASSUME NEW q \in Producers
               PROVE  /\ due'[q] \subseteq Subscribed'
                      /\ pc'[q] \in Holding \cup {"next"} =>
                           \A id \in IdsOf(Medium(frame'[q])) :
                               consumers'[id] \in due'[q] =>
                                   consumers'[id] \in todo'[q] \cup visited'[q]
    BY DEF DueInv, IdsOf, Medium
  <1>1. Subscribed' = Subscribed
    BY ProducerMap
  <1>2. UNCHANGED consumers
    BY DEF Broadcast, BroadcastAudio, Start, DistributeFrame, TrySendIDR, CacheIDR,
           LoadSnapshot, LockEntry, EndBroadcast, SendOk, SendFullDelta, SendFullIDR,
           EvictDelta, EvictIDR, EvictEmpty, EvictExhausted, PutBack, PutBackFull, Refill,
           RefillFull, hubVars
  <1>3. CASE q # p
    <2>1. UNCHANGED <<pc[q], frame[q], todo[q], due[q], visited[q]>>
      BY <1>3 DEF TypeInv, TypeOK, Broadcast, BroadcastAudio, Start, DistributeFrame,
         TrySendIDR, CacheIDR, LoadSnapshot, LockEntry, EndBroadcast, SendOk, SendFullDelta,
         SendFullIDR, EvictDelta, EvictIDR, EvictEmpty, EvictExhausted, PutBack, PutBackFull,
         Refill, RefillFull, Release, Goto
    <2> QED BY <1>1, <1>2, <2>1 DEF DueInv
  <1>4. CASE q = p
    <2>1. ASSUME NEW kind \in Kinds, NEW label \in {"cache", "snap"}, Start(p, kind, label)
          PROVE  due'[p] \subseteq Subscribed /\ pc'[p] \notin Holding \cup {"next"}
      BY <2>1 DEF Start, TypeInv, TypeOK, Goto, Holding
    <2>2. CASE CacheIDR(p)
      BY <1>1, <1>4, <2>2 DEF CacheIDR, TypeInv, TypeOK, Goto, Holding, DueInv
    \* The snapshot just loaded names every consumer.
    <2>3. CASE LoadSnapshot(p)
      <3>1. /\ todo'[p] = snapshot[Medium(frame[p])] /\ due'[p] = due[p]
            /\ frame'[p] = frame[p]
        BY <2>3 DEF LoadSnapshot, TypeInv, TypeOK
      <3>2. Medium(frame[p]) \in Media /\ NoSlot \notin due[p]
        BY HubAssumption DEF Medium, Media, TypeInv, TypeOK
      <3>3. \A id \in IdsOf(Medium(frame[p])) :
              consumers[id] \in due[p] => consumers[id] \in todo'[p]
        BY <3>1, <3>2 DEF MapInv
      <3> QED BY <1>1, <1>2, <1>4, <3>1, <3>3 DEF DueInv
    \* An entry that is passed over is no longer subscribed.
    <2>4. CASE LockEntry(p)
      <3>1. PICK s \in todo[p] :
              /\ todo'[p] = todo[p] \ {s}
              /\ (closed[s] /\ visited'[p] = visited[p]) \/ visited'[p] = visited[p] \cup {s}
        BY <2>4 DEF LockEntry, TypeInv, TypeOK
      <3>2. pc[p] = "next" /\ UNCHANGED <<frame, due>>
        BY <2>4 DEF LockEntry
      <3>3. ASSUME NEW id \in IdsOf(Medium(frame[p])), consumers[id] \in due[p]
            PROVE  consumers[id] \in todo'[p] \cup visited'[p]
        <4>1. consumers[id] \in todo[p] \cup visited[p] /\ consumers[id] \in Subscribed
          BY <3>2, <3>3 DEF DueInv
        <4> QED BY <3>1, <4>1 DEF MapInv
      <3> QED BY <1>1, <1>2, <1>4, <3>2, <3>3 DEF DueInv
    <2>5. CASE EndBroadcast(p)
      BY <1>4, <2>5 DEF EndBroadcast, TypeInv, TypeOK, Goto, Holding
    <2>6. CASE SendOk(p) \/ SendFullDelta(p) \/ SendFullIDR(p) \/ TrySendIDR(p)
      <3>1. pc[p] \in Holding /\ UNCHANGED <<frame, todo, due, visited>>
        BY <2>6 DEF TrySendIDR, SendOk, SendFullDelta, SendFullIDR, EvictDelta, EvictIDR,
           EvictEmpty, EvictExhausted, PutBack, PutBackFull, Refill, RefillFull, Release,
           Holding
      <3> QED BY <1>1, <1>2, <1>4, <3>1 DEF DueInv
    <2>7. CASE \E kind \in Kinds, label \in {"cache", "snap"} : Start(p, kind, label)
      BY <1>1, <1>4, <2>1, <2>7
    <2> QED
      BY <2>2, <2>3, <2>4, <2>5, <2>6, <2>7
         DEF Broadcast, BroadcastAudio, DistributeFrame
  <1> QED BY <1>3, <1>4

LEMMA CallerMap ==
  ASSUME TypeInv, MapInv, DueInv, NEW t \in Callers, Call(t) \/ FinishCall(t)
  PROVE  MapInv' /\ DueInv'
  <1> USE HubAssumption DEF MapInv, TypeInv, TypeOK, lifeVars, prodVars, callVars, entryVars,
        hubVars
  <1>1. ASSUME NEW id \in Ids, NEW m \in Media, id \in IdsOf(m), NEW s \in Slots,
               Join(id, m, s), UNCHANGED prodVars,
               \A u \in Callers : cpc'[u] \in {"close", "shut", "wait"} =>
                                    UNCHANGED <<cpc[u], target[u]>>
        PROVE  MapInv' /\ DueInv'
    <2>1. /\ consumers[id] = NoSlot /\ s \notin Subscribed /\ s # NoSlot
          /\ \A u \in Callers : target[u] # s
          /\ consumers' = [consumers EXCEPT ![id] = s]
          /\ snapshot' = [snapshot EXCEPT ![m] = @ \cup {s}]
          /\ closed' = [closed EXCEPT ![s] = FALSE]
      BY <1>1 DEF Join, Unreferenced
    <2>2. Subscribed' = Subscribed \cup {s}
      BY <2>1 DEF Subscribed
    <2>3. \A n \in Media : \A i \in IdsOf(n) :
            consumers'[i] # NoSlot => consumers'[i] \in snapshot'[n]
      <3>1. \A n \in Media : IdsOf(n) \subseteq Ids
        BY DEF Media, IdsOf, Ids
      <3>2. \A n \in Media : id \in IdsOf(n) => n = m
        BY <1>1 DEF Media, IdsOf
      <3> QED BY <2>1, <3>1, <3>2
    <2>4. \A i, j \in Ids : consumers'[i] = consumers'[j] /\ consumers'[i] # NoSlot => i = j
      <3>1. \A i \in Ids : consumers[i] # s
        BY <2>1 DEF Subscribed
      <3> QED BY <2>1, <3>1
    <2>5. \A r \in Subscribed' : ~closed'[r]
      BY <2>1, <2>2, SubscribedType
    <2>6. \A u \in Callers : cpc'[u] \in {"close", "shut", "wait"} => target'[u] \notin Subscribed'
      BY <1>1, <2>1, <2>2
    <2>7. MapInv'
      BY <2>3, <2>4, <2>5, <2>6 DEF IdsOf, Media
    <2>8. DueInv'
      <3>1. \A p \in Producers : s \notin due[p] /\ due[p] \subseteq Subscribed'
        BY <2>1, <2>2 DEF DueInv
      <3>2. \A p \in Producers, i \in Ids : consumers'[i] \in due[p] => consumers'[i] = consumers[i]
        BY <2>1, <3>1
      <3>3. \A n : IdsOf(n) \subseteq Ids
        BY DEF IdsOf, Ids
      <3> QED BY <1>1, <3>1, <3>2, <3>3 DEF DueInv
    <2> QED BY <2>7, <2>8
  <1>2. ASSUME NEW id \in VideoIds, NEW s \in Slots, Subscribe(t, id, s)
        PROVE  MapInv' /\ DueInv'
    <2>1. Join(id, "video", s) /\ UNCHANGED prodVars
      BY <1>2 DEF Subscribe
    <2>2. \A u \in Callers : cpc'[u] \in {"close", "shut", "wait"} =>
                               UNCHANGED <<cpc[u], target[u]>>
      BY <1>2 DEF Subscribe
    <2>3. id \in Ids /\ id \in IdsOf("video") /\ "video" \in Media
      BY DEF Ids, IdsOf, Media
    <2> QED BY ONLY <1>1, <2>1, <2>2, <2>3, s \in Slots
  <1>3. ASSUME NEW id \in AudioIds, NEW s \in Slots, SubscribeAudio(t, id, s)
        PROVE  MapInv' /\ DueInv'
    <2>1. /\ Join(id, "audio", s) /\ UNCHANGED prodVars
          /\ \A u \in Callers : UNCHANGED <<cpc[u], target[u]>>
      BY <1>3 DEF SubscribeAudio
    <2>2. id \in Ids /\ id \in IdsOf("audio") /\ "audio" \in Media
      BY DEF Ids, IdsOf, Media
    <2> QED BY ONLY <1>1, <2>1, <2>2, s \in Slots
  <1>4. ASSUME NEW id \in Ids, NEW m \in Media, id \in IdsOf(m), Leave(t, id, m)
        PROVE  MapInv' /\ DueInv'
    <2> DEFINE gone == consumers[id]
    <2>1. /\ gone # NoSlot
          /\ consumers' = [consumers EXCEPT ![id] = NoSlot]
          /\ snapshot' = [snapshot EXCEPT ![m] = @ \ {gone}]
          /\ due' = [p \in Producers |-> due[p] \ {gone}]
          /\ target' = [target EXCEPT ![t] = gone]
          /\ cpc' = [cpc EXCEPT ![t] = "close"]
          /\ UNCHANGED <<closed, pc, frame, todo, visited>>
      BY <1>4 DEF Leave
    <2>2. \A i \in Ids : i # id => consumers[i] # gone
      BY <2>1
    <2> HIDE DEF gone
    <2>3. gone = consumers[id]
      BY DEF gone
    <2>4. Subscribed' = Subscribed \ {gone}
      BY <2>1, <2>2, <2>3 DEF Subscribed
    <2>5. \A n : IdsOf(n) \subseteq Ids
      BY DEF IdsOf, Ids
    <2>6. \A n \in Media : \A i \in IdsOf(n) :
            consumers'[i] # NoSlot => consumers'[i] \in snapshot'[n]
      BY <2>1, <2>2, <2>5
    <2>7. \A i, j \in Ids : consumers'[i] = consumers'[j] /\ consumers'[i] # NoSlot => i = j
      BY <2>1
    <2>8. \A r \in Subscribed' : ~closed'[r]
      BY <2>1, <2>4
    <2>9. \A u \in Callers : cpc'[u] \in {"close", "shut", "wait"} => target'[u] \notin Subscribed'
      BY <2>1, <2>4
    <2>10. MapInv'
      BY <2>6, <2>7, <2>8, <2>9 DEF IdsOf, Media
    <2>11. DueInv'
      <3>1. \A p \in Producers, i \in Ids : consumers'[i] \in due'[p] =>
              consumers'[i] = consumers[i] /\ consumers[i] \in due[p]
        <4>1. \A p \in Producers : NoSlot \notin due'[p]
          BY <2>1
        <4> QED BY <2>1, <4>1
      <3>2. \A p \in Producers : due'[p] \subseteq Subscribed'
        BY <2>1, <2>4 DEF DueInv
      <3> QED BY <2>1, <2>5, <3>1, <3>2 DEF DueInv
    <2> QED BY <2>10, <2>11
  <1>5. ASSUME UNCHANGED <<consumers, snapshot, prodVars>>,
               \A u \in Callers : cpc'[u] \in {"close", "shut", "wait"} =>
                   cpc[u] \in {"close", "shut", "wait"} /\ target'[u] = target[u],
               \A s \in Subscribed : closed'[s] = closed[s]
        PROVE  MapInv' /\ DueInv'
    <2>1. Subscribed' = Subscribed
      BY <1>5 DEF Subscribed
    <2>2. MapInv'
      BY <1>5, <2>1
    <2>3. DueInv'
      BY <1>5, <2>1 DEF DueInv
    <2> QED BY <2>2, <2>3
  <1>6. CASE FinishCall(t)
    <2>1. UNCHANGED <<consumers, snapshot, prodVars>>
      BY <1>6 DEF FinishCall, Replay, ReplayPanics, MarkClosed, CloseChannel, AwaitDrain
    <2>2. \A u \in Callers : cpc'[u] \in {"close", "shut", "wait"} =>
            cpc[u] \in {"close", "shut", "wait"} /\ target'[u] = target[u]
      BY <1>6 DEF FinishCall, Replay, ReplayPanics, MarkClosed, CloseChannel, AwaitDrain,
                  CallReturns
    <2>3. \A s \in Subscribed : closed'[s] = closed[s]
      <3>1. CASE UNCHANGED closed
        BY <3>1
      <3>2. CASE MarkClosed(t)
        <4>1. target[t] \notin Subscribed /\ closed' = [closed EXCEPT ![target[t]] = TRUE]
          BY <3>2 DEF MarkClosed
        <4> QED BY <4>1, SubscribedType
      <3> QED
        BY <1>6, <3>1, <3>2 DEF FinishCall, Replay, ReplayPanics, CloseChannel, AwaitDrain
    <2> QED BY ONLY <1>5, <2>1, <2>2, <2>3
  <1>7. CASE Call(t)
    BY <1>2, <1>3, <1>4, <1>7
       DEF Call, Unsubscribe, UnsubscribeAudio, Ids, Media, IdsOf
  <1> QED BY <1>6, <1>7

LEMMA OfferStep == TypeInv /\ MapInv /\ DueInv /\ [Next]_vars => MapInv' /\ DueInv'
  <1> SUFFICES ASSUME TypeInv, MapInv, DueInv, [Next]_vars
               PROVE  MapInv' /\ DueInv'
    OBVIOUS
  <1>1. CASE UNCHANGED <<hubVars, lifeVars, prodVars, callVars>>
    <2>1. Subscribed' = Subscribed
      BY <1>1 DEF Subscribed, hubVars
    <2> QED BY <1>1, <2>1 DEF MapInv, DueInv, hubVars, lifeVars, prodVars, callVars
  <1>2. ASSUME NEW s \in Slots, Drain(s)
        PROVE  MapInv' /\ DueInv'
    <2>1. UNCHANGED <<hubVars, closed, prodVars, callVars>>
      BY <1>2 DEF Drain, Receive, CallbackReturns, DrainExits, lifeVars
    <2>2. Subscribed' = Subscribed
      BY <2>1 DEF Subscribed, hubVars
    <2> QED BY <2>1, <2>2 DEF MapInv, DueInv, hubVars, prodVars, callVars
  <1> QED BY <1>1, <1>2, ProducerMap, ProducerDue, CallerMap DEF Next, vars, entryVars

\* A frame is offered to every consumer of its medium that was there when the
\* broadcast began and still is, whoever joins and leaves meanwhile.
THEOREM ConsumersServed == Spec => []EveryConsumerOffered
  <1>1. Init => MapInv /\ DueInv
    BY HubAssumption DEF Init, MapInv, DueInv, Subscribed, Ids, IdsOf, Media, Holding
  <1>2. DueInv => EveryConsumerOffered
    BY DEF DueInv, EveryConsumerOffered, IdsOf
  <1> QED BY <1>1, <1>2, TypeInit, TypeStep, OfferStep, PTL DEF Spec


-----------------------------------------------------------------------------
\* Sequences of frames.

InOrder(q, last) ==
    \A i \in 1..Len(q) : ~IsIDR(q[i]) =>
        /\ last[q[i].by] < q[i].n
        /\ \A j \in 1..(i - 1) : ~IsIDR(q[j]) /\ q[j].by = q[i].by => q[j].n < q[i].n

\* Every delta of p's in the channel or received is older than number n.
Before(q, last, p, n) ==
    /\ last[p] < n
    /\ \A i \in 1..Len(q) : ~IsIDR(q[i]) /\ q[i].by = p => q[i].n < n

LastType == [Producers -> Nat]

LEMMA FrameFields == \A f \in Frames : f.n \in Nat \ {0} /\ f.by \in Producers
  BY HubAssumption DEF Frames

\* A keyframe may be appended at any time.
LEMMA AppendKey ==
  ASSUME NEW q \in Seq(Frames), NEW last \in LastType, NEW g \in Frames, IsIDR(g)
  PROVE  /\ InOrder(q, last) => InOrder(Append(q, g), last)
         /\ \A p \in Producers, n \in Nat :
              Before(q, last, p, n) => Before(Append(q, g), last, p, n)
  <1>1. /\ Len(Append(q, g)) = Len(q) + 1 /\ Len(q) \in Nat
        /\ \A i \in 1..Len(q) : Append(q, g)[i] = q[i]
        /\ Append(q, g)[Len(q) + 1] = g
    OBVIOUS
  <1> DEFINE r == Append(q, g)
  <1> HIDE DEF r
  <1>2. \A i \in 1..Len(r) : ~IsIDR(r[i]) => i \in 1..Len(q) /\ r[i] = q[i]
    BY <1>1 DEF r
  <1>3. \A i \in 1..Len(q) : \A j \in 1..(i - 1) : j \in 1..Len(q)
    BY <1>1
  <1>4. ASSUME InOrder(q, last)
        PROVE  InOrder(r, last)
    <2> SUFFICES ASSUME NEW i \in 1..Len(r), ~IsIDR(r[i])
                 PROVE  /\ last[r[i].by] < r[i].n
                        /\ \A j \in 1..(i - 1) :
                             ~IsIDR(r[j]) /\ r[j].by = r[i].by => r[j].n < r[i].n
      BY DEF InOrder
    <2>1. i \in 1..Len(q) /\ r[i] = q[i]
      BY <1>2
    <2>2. \A j \in 1..(i - 1) : r[j] = q[j]
      BY <1>1, <1>3, <2>1 DEF r
    <2> QED BY <1>4, <2>1, <2>2 DEF InOrder
  <1>5. ASSUME NEW p \in Producers, NEW n \in Nat, Before(q, last, p, n)
        PROVE  Before(r, last, p, n)
    BY <1>2, <1>5 DEF Before
  <1> QED BY <1>4, <1>5 DEF r

\* A delta may be appended behind those of its producer.
LEMMA AppendDelta ==
  ASSUME NEW q \in Seq(Frames), NEW last \in LastType, NEW g \in Frames, ~IsIDR(g),
         Before(q, last, g.by, g.n)
  PROVE  /\ InOrder(q, last) => InOrder(Append(q, g), last)
         /\ \A p \in Producers, n \in Nat :
              Before(q, last, p, n) /\ (p = g.by => g.n < n) => Before(Append(q, g), last, p, n)
  <1> DEFINE r == Append(q, g)
  <1>1. /\ Len(r) = Len(q) + 1 /\ Len(q) \in Nat
        /\ \A i \in 1..Len(q) : r[i] = q[i]
        /\ r[Len(q) + 1] = g
    OBVIOUS
  <1> HIDE DEF r
  <1>2. \A i \in 1..Len(r) : i \in 1..Len(q) \/ i = Len(q) + 1
    BY <1>1
  <1>3. ASSUME InOrder(q, last)
        PROVE  InOrder(r, last)
    <2> SUFFICES ASSUME NEW i \in 1..Len(r), ~IsIDR(r[i])
                 PROVE  /\ last[r[i].by] < r[i].n
                        /\ \A j \in 1..(i - 1) :
                             ~IsIDR(r[j]) /\ r[j].by = r[i].by => r[j].n < r[i].n
      BY DEF InOrder
    <2>1. CASE i \in 1..Len(q)
      <3>1. r[i] = q[i] /\ \A j \in 1..(i - 1) : r[j] = q[j]
        BY <1>1, <2>1
      <3> QED BY <1>3, <2>1, <3>1 DEF InOrder
    <2>2. CASE i = Len(q) + 1
      <3>1. r[i] = g /\ \A j \in 1..(i - 1) : j \in 1..Len(q) /\ r[j] = q[j]
        BY <1>1, <2>2
      <3> QED BY <3>1 DEF Before
    <2> QED BY <1>2, <2>1, <2>2
  <1>4. ASSUME NEW p \in Producers, NEW n \in Nat, Before(q, last, p, n), p = g.by => g.n < n
        PROVE  Before(r, last, p, n)
    BY <1>1, <1>2, <1>4 DEF Before
  <1> QED BY <1>3, <1>4 DEF r

\* The oldest frame may be taken; if it is a delta it may become the last one.
LEMMA TakeHead ==
  ASSUME NEW q \in Seq(Frames), q # <<>>, NEW last \in LastType, InOrder(q, last),
         NEW after \in LastType, NEW h, h = Head(q),
         after = last \/ (~IsIDR(h) /\ after = [last EXCEPT ![h.by] = h.n])
  PROVE  /\ InOrder(Tail(q), after)
         /\ \A p \in Producers, n \in Nat :
              Before(q, last, p, n) => Before(Tail(q), after, p, n)
  <1> DEFINE r == Tail(q)
  <1>1. /\ Len(r) = Len(q) - 1 /\ Len(q) \in Nat \ {0}
        /\ \A i \in 1..Len(r) : r[i] = q[i + 1]
        /\ h = q[1] /\ h \in Frames
    OBVIOUS
  <1>2. \A i \in 1..Len(q) : q[i] \in Frames
    OBVIOUS
  <1> HIDE DEF r
  <1>3. \A i \in 1..Len(r) : i + 1 \in 1..Len(q) /\ 1 \in 1..(i + 1 - 1)
    BY <1>1
  <1>5. \A p \in Producers :
        after[p] = last[p] \/ (~IsIDR(h) /\ p = h.by /\ after[p] = h.n)
    BY DEF LastType
  <1>6. ASSUME NEW i \in 1..Len(r), ~IsIDR(r[i])
        PROVE  after[r[i].by] < r[i].n
    <2>1. /\ last[q[i + 1].by] < q[i + 1].n
          /\ ~IsIDR(q[1]) /\ q[1].by = q[i + 1].by => q[1].n < q[i + 1].n
      BY <1>1, <1>3, <1>6 DEF InOrder
    <2>2. r[i] = q[i + 1] /\ q[i + 1].by \in Producers
      BY <1>1, <1>2, <1>3, FrameFields
    <2> QED BY <1>1, <1>5, <2>1, <2>2
  <1>7. ASSUME NEW i \in 1..Len(r), ~IsIDR(r[i]), NEW j \in 1..(i - 1), ~IsIDR(r[j]),
               r[j].by = r[i].by
        PROVE  r[j].n < r[i].n
    <2>1. j \in 1..Len(r) /\ j + 1 \in 1..(i + 1 - 1) /\ i + 1 \in 1..Len(q)
      BY ONLY <1>1, i \in 1..Len(r), j \in 1..(i - 1)
    <2>2. r[i] = q[i + 1] /\ r[j] = q[j + 1]
      BY <1>1, <2>1
    <2>3. \A l \in 1..(i + 1 - 1) :
            ~IsIDR(q[l]) /\ q[l].by = q[i + 1].by => q[l].n < q[i + 1].n
      BY <1>7, <2>1, <2>2 DEF InOrder
    <2> QED BY <1>7, <2>1, <2>2, <2>3
  <1>8. ASSUME NEW p \in Producers, NEW n \in Nat, Before(q, last, p, n)
        PROVE  Before(r, after, p, n)
    <2>1. 1 \in 1..Len(q)
      BY <1>1
    <2>2. after[p] < n
      BY <1>1, <1>5, <1>8, <2>1 DEF Before
    <2> QED BY <1>1, <1>3, <1>8, <2>2 DEF Before
  <1> QED BY <1>6, <1>7, <1>8 DEF InOrder, r

-----------------------------------------------------------------------------
\* DeltasInOrder.  The frame a producer still has to offer to an entry is newer
\* than all of its deltas there; a frame that is put back, replayed or squeezed
\* in is a keyframe.

Awaits(p, s) ==
    \/ pc[p] \in {"cache", "snap"}
    \/ pc[p] \in Holding \cup {"next"} /\ s \in todo[p] \cup {cur[p]}

ControlInv ==
    /\ \A p \in Producers :
         /\ pc[p] # "idle" => frame[p].by = p /\ frame[p].n <= framesIn
         /\ cur[p] # NoSlot => pc[p] \in Holding /\ cur[p] \notin todo[p]
         /\ pc[p] \in {"cache", "evict", "putBack", "refill"} => IsIDR(frame[p])
         /\ old[p] = NoFrame \/ IsIDR(old[p])
    /\ \A i \in 1..Len(idrCache) : IsIDR(idrCache[i])
    /\ \A t \in Callers : cpc[t] = "replay" => IsIDR(replay[t])

QueueInv ==
    \A s \in Slots :
        /\ InOrder(queue[s], lastDelta[s])
        /\ \A p \in Producers :
             /\ Before(queue[s], lastDelta[s], p, framesIn + 1)
             /\ Awaits(p, s) => Before(queue[s], lastDelta[s], p, frame[p].n)

\* What the rest of the hub does to the locals.
LEMMA ControlStep ==
  ASSUME TypeInv, ControlInv, [Next]_vars
  PROVE  ControlInv'
  <1> USE HubAssumption, NoFrameAssumption DEF ControlInv, TypeInv, TypeOK, LocalsOK, Holding,
        PcValues, CpcValues
  <1>1. ASSUME NEW p \in Producers, Broadcast(p) \/ BroadcastAudio(p)
        PROVE  ControlInv'
    <2>1. PICK kind \in Kinds, label \in {"cache", "snap"} :
            /\ Start(p, kind, label)
            /\ label = "cache" => kind \in {"idr", "bareIdr"}
      BY <1>1 DEF Broadcast, BroadcastAudio
    <2> DEFINE f == [n |-> framesIn + 1, kind |-> kind, by |-> p]
    <2>2. /\ f.by = p /\ f.n = framesIn + 1 /\ (label = "cache" => IsIDR(f))
      BY <2>1 DEF IsIDR
    <2>3. /\ pc[p] = "idle" /\ framesIn' = framesIn + 1
          /\ frame' = [frame EXCEPT ![p] = f] /\ pc' = [pc EXCEPT ![p] = label]
          /\ UNCHANGED <<idrCache, todo, cur, old, cpc, replay>>
      BY <2>1 DEF Start, Goto, hubVars, callVars
    <2> HIDE DEF f
    <2>4. \A q \in Producers : pc[q] # "idle" => frame[q].n \in Nat
      BY FrameFields
    <2> QED BY <2>2, <2>3, <2>4
  <1>2. ASSUME NEW p \in Producers, CacheIDR(p)
        PROVE  ControlInv'
    <2>1. /\ idrCache' = Append(Tail(idrCache), frame[p]) \/ idrCache' = Append(idrCache, frame[p])
          /\ IsIDR(frame[p]) /\ frame[p] \in Frames
      BY <1>2 DEF CacheIDR
    <2>2. \A i \in 1..Len(idrCache') : IsIDR(idrCache'[i])
      <3>1. CASE idrCache' = Append(idrCache, frame[p])
        BY <2>1, <3>1
      <3>2. CASE idrCache = <<>> /\ idrCache' = Append(Tail(idrCache), frame[p])
        BY <1>2, <2>1, <3>2 DEF CacheIDR
      <3>3. CASE idrCache # <<>> /\ idrCache' = Append(Tail(idrCache), frame[p])
        BY <2>1, <3>3
      <3> QED BY <2>1, <3>1, <3>2, <3>3
    <2> QED BY <1>2, <2>2 DEF CacheIDR, Goto, callVars
  <1>3. ASSUME NEW p \in Producers, LoadSnapshot(p) \/ EndBroadcast(p)
        PROVE  ControlInv'
    BY <1>3 DEF LoadSnapshot, EndBroadcast, Goto, callVars, hubVars
  <1>4. ASSUME NEW p \in Producers, LockEntry(p)
        PROVE  ControlInv'
    BY <1>4 DEF LockEntry, Goto, callVars, hubVars
  <1>5. ASSUME NEW p \in Producers, SendOk(p) \/ SendFullDelta(p) \/ SendFullIDR(p)
        PROVE  ControlInv'
    <2>1. CASE SendOk(p)
      BY <2>1 DEF SendOk, Release, Goto, callVars, hubVars
    <2>2. CASE SendFullDelta(p)
      BY <2>2 DEF SendFullDelta, Release, Goto, callVars, hubVars
    <2>3. CASE SendFullIDR(p)
      BY <2>3 DEF SendFullIDR, Goto, callVars, hubVars
    <2> QED BY <1>5, <2>1, <2>2, <2>3
  <1>6. ASSUME NEW p \in Producers, TrySendIDR(p)
        PROVE  ControlInv'
    BY <1>6, SMTT(40) DEF TrySendIDR, EvictDelta, EvictIDR, EvictEmpty, EvictExhausted, PutBack,
       PutBackFull, Refill, RefillFull, Release, Goto, callVars, hubVars
  <1>7. ASSUME NEW s \in Slots, Drain(s)
        PROVE  ControlInv'
    BY <1>7 DEF Drain, Receive, CallbackReturns, DrainExits, prodVars, callVars, hubVars
  <1>8. ASSUME NEW t \in Callers, NEW id \in VideoIds, NEW s \in Slots, Subscribe(t, id, s)
        PROVE  ControlInv'
    <2>1. \A f \in LatestCompleteIDR : IsIDR(f)
      BY DEF LatestCompleteIDR, IsIDR
    <2>2. UNCHANGED <<idrCache, prodVars, framesIn>>
      BY <1>8 DEF Subscribe
    <2>3. CASE UNCHANGED callVars
      BY <2>2, <2>3 DEF prodVars, callVars
    <2>4. CASE ~UNCHANGED callVars
      <3>1. PICK f \in LatestCompleteIDR :
              cpc' = [cpc EXCEPT ![t] = "replay"] /\ replay' = [replay EXCEPT ![t] = f]
        BY <1>8, <2>4 DEF Subscribe
      <3>2. IsIDR(f)
        BY <2>1
      <3> QED BY <2>2, <3>1, <3>2 DEF prodVars
    <2> QED BY <2>3, <2>4
  <1>9. ASSUME NEW t \in Callers, NEW id \in Ids, NEW m \in Media, Leave(t, id, m)
        PROVE  ControlInv'
    BY <1>9 DEF Leave
  <1>10. ASSUME NEW t \in Callers, FinishCall(t)
         PROVE  ControlInv'
    <2>1. UNCHANGED <<prodVars, idrCache, framesIn>>
      BY <1>10 DEF FinishCall, Replay, ReplayPanics, MarkClosed, CloseChannel, AwaitDrain, hubVars
    <2>2. \A u \in Callers : cpc'[u] = "replay" => cpc[u] = "replay" /\ replay'[u] = replay[u]
      BY <1>10 DEF FinishCall, Replay, ReplayPanics, MarkClosed, CloseChannel, AwaitDrain,
                   CallReturns
    <2> QED BY <2>1, <2>2 DEF prodVars
  <1>11. ASSUME NEW t \in Callers, NEW id \in AudioIds, NEW s \in Slots, SubscribeAudio(t, id, s)
         PROVE  ControlInv'
    BY <1>11 DEF SubscribeAudio, prodVars, callVars
  <1>12. CASE UNCHANGED vars
    BY <1>12 DEF vars, prodVars, hubVars, callVars
  <1>13. ASSUME NEW t \in Callers, Call(t)
         PROVE  ControlInv'
    BY <1>8, <1>9, <1>11, <1>13 DEF Call, Unsubscribe, UnsubscribeAudio, Ids, Media
  <1> QED
    BY <1>1, <1>2, <1>3, <1>4, <1>5, <1>6, <1>7, <1>10, <1>12, <1>13 DEF Next, DistributeFrame

\* No producer has an entry to serve that it had not before.
NoNewAwait ==
    \A q \in Producers, s \in Slots :
        Awaits(q, s)' => Awaits(q, s) /\ frame'[q] = frame[q]

LEMMA NumbersType ==
  TypeInv => /\ \A s \in Slots : queue[s] \in Seq(Frames) /\ lastDelta[s] \in LastType
             /\ framesIn + 1 \in Nat
             /\ \A p \in Producers : pc[p] # "idle" => frame[p].n \in Nat
             /\ \A p \in Producers, s \in Slots : Awaits(p, s) => frame[p].n \in Nat
  BY HubAssumption, FrameFields DEF TypeInv, TypeOK, LocalsOK, LastType, Awaits, Holding

LEMMA QueuesSame ==
  ASSUME QueueInv, NoNewAwait, UNCHANGED <<queue, lastDelta, framesIn>>
  PROVE  QueueInv'
  BY DEF QueueInv, NoNewAwait

LEMMA QueueGetsKey ==
  ASSUME TypeInv, QueueInv, NoNewAwait, UNCHANGED <<lastDelta, framesIn>>,
         NEW s \in Slots, NEW g \in Frames, IsIDR(g),
         queue' = [queue EXCEPT ![s] = Append(@, g)]
  PROVE  QueueInv'
  <1> SUFFICES ASSUME NEW r \in Slots
               PROVE  /\ InOrder(queue'[r], lastDelta[r])
                      /\ \A p \in Producers :
                           /\ Before(queue'[r], lastDelta[r], p, framesIn + 1)
                           /\ Awaits(p, r)' => Before(queue'[r], lastDelta[r], p, frame'[p].n)
    BY DEF QueueInv
  <1>1. CASE r # s
    <2>1. queue'[r] = queue[r]
      BY <1>1 DEF TypeInv, TypeOK
    <2> QED BY <2>1 DEF QueueInv, NoNewAwait
  <1>2. CASE r = s
    <2>1. queue'[r] = Append(queue[r], g) /\ queue[r] \in Seq(Frames) /\ lastDelta[r] \in LastType
      BY <1>2, NumbersType DEF TypeInv, TypeOK
    <2>2. InOrder(queue'[r], lastDelta[r])
      BY <2>1, AppendKey DEF QueueInv
    <2>3. \A p \in Producers : Before(queue'[r], lastDelta[r], p, framesIn + 1)
      BY <2>1, AppendKey, NumbersType DEF QueueInv
    <2>4. ASSUME NEW p \in Producers, Awaits(p, r)'
          PROVE  Before(queue'[r], lastDelta[r], p, frame'[p].n)
      <3>1. /\ Awaits(p, r) /\ frame'[p] = frame[p]
            /\ Before(queue[r], lastDelta[r], p, frame[p].n)
        BY <2>4 DEF NoNewAwait, QueueInv
      <3>2. frame[p].n \in Nat
        BY <3>1, NumbersType
      <3> QED BY <2>1, <3>1, <3>2, AppendKey
    <2> QED BY <2>2, <2>3, <2>4
  <1> QED BY <1>1, <1>2

\* The producer's own delta, which it then no longer has to offer.
LEMMA QueueGetsDelta ==
  ASSUME TypeInv, ControlInv, QueueInv, NoNewAwait, UNCHANGED <<lastDelta, framesIn>>,
         NEW s \in Slots, NEW p \in Producers, pc[p] \in Holding, cur[p] = s,
         ~IsIDR(frame[p]), ~Awaits(p, s)',
         queue' = [queue EXCEPT ![s] = Append(@, frame[p])]
  PROVE  QueueInv'
  <1>1. /\ frame[p] \in Frames /\ frame[p].by = p /\ frame[p].n <= framesIn
        /\ frame[p].n \in Nat /\ framesIn \in Nat
        /\ Before(queue[s], lastDelta[s], p, frame[p].n)
    BY FrameFields, HubAssumption
       DEF TypeInv, TypeOK, LocalsOK, ControlInv, QueueInv, Awaits, Holding
  <1> SUFFICES ASSUME NEW r \in Slots
               PROVE  /\ InOrder(queue'[r], lastDelta[r])
                      /\ \A q \in Producers :
                           /\ Before(queue'[r], lastDelta[r], q, framesIn + 1)
                           /\ Awaits(q, r)' => Before(queue'[r], lastDelta[r], q, frame'[q].n)
    BY DEF QueueInv
  <1>2. CASE r # s
    <2>1. queue'[r] = queue[r]
      BY <1>2 DEF TypeInv, TypeOK
    <2> QED BY <2>1 DEF QueueInv, NoNewAwait
  <1>3. CASE r = s
    <2>1. queue'[r] = Append(queue[r], frame[p]) /\ queue[r] \in Seq(Frames)
          /\ lastDelta[r] \in LastType /\ Before(queue[r], lastDelta[r], frame[p].by, frame[p].n)
      BY <1>1, <1>3, NumbersType DEF TypeInv, TypeOK
    <2>2. InOrder(queue'[r], lastDelta[r])
      BY <1>1, <2>1, AppendDelta DEF QueueInv
    <2>3. ASSUME NEW q \in Producers
          PROVE  Before(queue'[r], lastDelta[r], q, framesIn + 1)
      <3>1. Before(queue[r], lastDelta[r], q, framesIn + 1) /\ framesIn + 1 \in Nat
        BY <1>1 DEF QueueInv
      <3>2. frame[p].n < framesIn + 1
        BY <1>1
      <3> QED BY <1>1, <2>1, <3>1, <3>2, AppendDelta
    <2>4. ASSUME NEW q \in Producers, Awaits(q, r)'
          PROVE  Before(queue'[r], lastDelta[r], q, frame'[q].n)
      <3>1. /\ Awaits(q, r) /\ frame'[q] = frame[q]
            /\ Before(queue[r], lastDelta[r], q, frame[q].n)
        BY <2>4 DEF NoNewAwait, QueueInv
      <3>2. frame[q].n \in Nat /\ q # p
        BY <1>3, <2>4, <3>1, NumbersType
      <3> QED BY <1>1, <2>1, <3>1, <3>2, AppendDelta
    <2> QED BY <2>2, <2>3, <2>4
  <1> QED BY <1>2, <1>3

LEMMA QueueLosesHead ==
  ASSUME TypeInv, QueueInv, NoNewAwait, UNCHANGED framesIn,
         NEW s \in Slots, queue[s] # <<>>, NEW h, h = Head(queue[s]),
         queue' = [queue EXCEPT ![s] = Tail(@)],
         \/ lastDelta' = lastDelta
         \/ ~IsIDR(h) /\ lastDelta' = [lastDelta EXCEPT ![s][h.by] = h.n]
  PROVE  QueueInv'
  <1>1. h \in Frames /\ h.n \in Nat /\ h.by \in Producers
    BY FrameFields DEF TypeInv, TypeOK
  <1> SUFFICES ASSUME NEW r \in Slots
               PROVE  /\ InOrder(queue'[r], lastDelta'[r])
                      /\ \A p \in Producers :
                           /\ Before(queue'[r], lastDelta'[r], p, framesIn + 1)
                           /\ Awaits(p, r)' => Before(queue'[r], lastDelta'[r], p, frame'[p].n)
    BY DEF QueueInv
  <1>2. CASE r # s
    <2>1. queue'[r] = queue[r] /\ lastDelta'[r] = lastDelta[r]
      BY <1>2 DEF TypeInv, TypeOK
    <2> QED BY <2>1 DEF QueueInv, NoNewAwait
  <1>3. CASE r = s
    <2>1. /\ queue'[r] = Tail(queue[r]) /\ queue[r] \in Seq(Frames) /\ queue[r] # <<>>
          /\ lastDelta[r] \in LastType /\ h = Head(queue[r])
      BY <1>3, NumbersType DEF TypeInv, TypeOK
    <2>2. \/ lastDelta'[r] = lastDelta[r]
          \/ ~IsIDR(h) /\ lastDelta'[r] = [lastDelta[r] EXCEPT ![h.by] = h.n]
      BY <1>1, <1>3 DEF TypeInv, TypeOK
    <2>3. lastDelta'[r] \in LastType
      BY <1>1, <2>1, <2>2 DEF LastType
    <2>4. InOrder(queue[r], lastDelta[r])
      BY DEF QueueInv
    <2>5. /\ InOrder(queue'[r], lastDelta'[r])
          /\ \A p \in Producers, n \in Nat :
               Before(queue[r], lastDelta[r], p, n) => Before(queue'[r], lastDelta'[r], p, n)
      BY <2>1, <2>2, <2>3, <2>4, TakeHead
    <2>6. \A p \in Producers : Before(queue'[r], lastDelta'[r], p, framesIn + 1)
      BY <2>5, NumbersType DEF QueueInv
    <2>7. ASSUME NEW p \in Producers, Awaits(p, r)'
          PROVE  Before(queue'[r], lastDelta'[r], p, frame'[p].n)
      <3>1. /\ Awaits(p, r) /\ frame'[p] = frame[p]
            /\ Before(queue[r], lastDelta[r], p, frame[p].n)
        BY <2>7 DEF NoNewAwait, QueueInv
      <3>2. frame[p].n \in Nat
        BY <3>1, NumbersType
      <3> QED BY <2>5, <3>1, <3>2
    <2> QED BY <2>5, <2>6, <2>7
  <1> QED BY <1>2, <1>3

LEMMA AwaitsKept ==
  ASSUME TypeInv, ControlInv, NEW p \in Producers, DistributeFrame(p)
  PROVE  /\ NoNewAwait
         /\ SendOk(p) => \A s \in {cur[p]} : ~Awaits(p, s)'
         /\ UNCHANGED <<lastDelta, framesIn>>
  <1> USE DEF NoNewAwait, Awaits, Holding, TypeInv, TypeOK
  <1>1. CASE CacheIDR(p) \/ LoadSnapshot(p) \/ EndBroadcast(p) \/ SendFullIDR(p)
    BY <1>1 DEF CacheIDR, LoadSnapshot, EndBroadcast, SendFullIDR, SendOk, Goto, entryVars, histVars
  <1>2. CASE LockEntry(p)
    <2>1. PICK s \in todo[p] :
            /\ todo' = [todo EXCEPT ![p] = @ \ {s}]
            /\ UNCHANGED <<pc, cur>> \/ (/\ pc' = [pc EXCEPT ![p] = "send"]
                                        /\ cur' = [cur EXCEPT ![p] = s])
      BY <1>2 DEF LockEntry, Goto
    <2>2. pc[p] = "next" /\ UNCHANGED <<frame, lastDelta, framesIn>>
      BY <1>2 DEF LockEntry
    <2> QED BY <2>1, <2>2 DEF SendOk
  <1>3. CASE SendFullDelta(p)
    <2>1. /\ pc' = [pc EXCEPT ![p] = "next"] /\ cur' = [cur EXCEPT ![p] = NoSlot]
          /\ pc[p] = "send" /\ UNCHANGED <<frame, todo, lastDelta, framesIn>>
      BY <1>3 DEF SendFullDelta, Release, Goto, histVars
    <2>2. ~SendOk(p)
      BY <1>3 DEF SendFullDelta, SendOk
    <2> QED BY <2>1, <2>2, HubAssumption
  <1>4. CASE SendOk(p)
    <2>1. /\ pc' = [pc EXCEPT ![p] = "next"] /\ cur' = [cur EXCEPT ![p] = NoSlot]
          /\ pc[p] = "send" /\ UNCHANGED <<frame, todo, lastDelta, framesIn>>
      BY <1>4 DEF SendOk, Release, Goto, histVars
    <2>2. cur[p] \notin todo[p] /\ cur[p] # NoSlot
      BY <2>1, HubAssumption DEF ControlInv, LocalsOK
    <2>3. NoNewAwait
      BY <2>1, HubAssumption
    <2>4. \A s \in {cur[p]} : ~Awaits(p, s)'
      BY <2>1, <2>2
    <2> QED BY <2>1, <2>3, <2>4
  <1>5. CASE TrySendIDR(p)
    <2>1. /\ pc[p] \in {"evict", "putBack", "refill"}
          /\ pc' \in {[pc EXCEPT ![p] = l] : l \in {"evict", "putBack", "refill", "next"}}
          /\ cur' \in {cur, [cur EXCEPT ![p] = NoSlot]}
          /\ UNCHANGED <<frame, todo, lastDelta, framesIn>>
      BY <1>5 DEF TrySendIDR, EvictDelta, EvictIDR, EvictEmpty, EvictExhausted, PutBack,
         PutBackFull, Refill, RefillFull, Release, Goto, histVars
    <2> QED BY <2>1, HubAssumption DEF SendOk
  <1> QED BY <1>1, <1>2, <1>3, <1>4, <1>5 DEF DistributeFrame

LEMMA ProducerQueue ==
  ASSUME TypeInv, ControlInv, QueueInv, NEW p \in Producers,
         Broadcast(p) \/ BroadcastAudio(p) \/ DistributeFrame(p)
  PROVE  QueueInv'
  \* The number of a new frame is above all others.
  <1>1. ASSUME NEW kind \in Kinds, NEW label \in {"cache", "snap"}, Start(p, kind, label)
        PROVE  QueueInv'
    <2>1. /\ framesIn' = framesIn + 1 /\ framesIn \in Nat /\ frame'[p].n = framesIn + 1
          /\ UNCHANGED <<queue, lastDelta>>
          /\ \A q \in Producers \ {p} : UNCHANGED <<pc[q], frame[q], todo[q], cur[q]>>
      BY <1>1, HubAssumption DEF Start, Goto, TypeInv, TypeOK, entryVars, histVars
    <2>2. \A s \in Slots, q \in Producers :
            Before(queue[s], lastDelta[s], q, framesIn + 1) =>
                Before(queue[s], lastDelta[s], q, framesIn + 1 + 1)
      <3>1. ASSUME NEW s \in Slots
            PROVE  /\ \A q \in Producers : lastDelta[s][q] \in Nat
                   /\ \A i \in 1..Len(queue[s]) : queue[s][i].n \in Nat
        BY FrameFields DEF TypeInv, TypeOK
      <3> QED BY <2>1, <3>1 DEF Before
    <2>3. \A s \in Slots, q \in Producers \ {p} : Awaits(q, s)' = Awaits(q, s)
      BY <2>1 DEF Awaits
    <2> QED BY <2>1, <2>2, <2>3 DEF QueueInv
  <1>2. ASSUME DistributeFrame(p)
        PROVE  QueueInv'
    <2>1. NoNewAwait /\ UNCHANGED <<lastDelta, framesIn>> /\ (SendOk(p) => \A s \in {cur[p]} : ~Awaits(p, s)')
      BY <1>2, AwaitsKept
    <2>2. CASE UNCHANGED queue
      BY <2>1, <2>2, QueuesSame
    <2>3. CASE SendOk(p)
      <3>1. /\ pc[p] \in Holding /\ cur[p] \in Slots /\ frame[p] \in Frames
            /\ queue' = [queue EXCEPT ![cur[p]] = Append(@, frame[p])]
        BY <2>3 DEF SendOk, TypeInv, LocalsOK, Holding
      <3>2. CASE IsIDR(frame[p])
        BY <2>1, <3>1, <3>2, QueueGetsKey
      <3>3. CASE ~IsIDR(frame[p])
        BY <2>1, <2>3, <3>1, <3>3, QueueGetsDelta
      <3> QED BY <3>2, <3>3
    <2>4. CASE EvictDelta(p) \/ EvictIDR(p)
      <3>1. /\ cur[p] \in Slots /\ queue[cur[p]] # <<>>
            /\ queue' = [queue EXCEPT ![cur[p]] = Tail(@)]
        BY <2>4 DEF EvictDelta, EvictIDR, TypeInv, LocalsOK, Holding
      <3> QED BY <2>1, <3>1, QueueLosesHead
    <2>5. CASE PutBack(p)
      <3>1. /\ cur[p] \in Slots /\ old[p] \in Frames /\ IsIDR(old[p])
            /\ queue' = [queue EXCEPT ![cur[p]] = Append(@, old[p])]
        BY <2>5, NoFrameAssumption DEF PutBack, TypeInv, LocalsOK, Holding, ControlInv
      <3> QED BY <2>1, <3>1, QueueGetsKey
    <2>6. CASE Refill(p)
      <3>1. /\ cur[p] \in Slots /\ frame[p] \in Frames /\ IsIDR(frame[p])
            /\ queue' = [queue EXCEPT ![cur[p]] = Append(@, frame[p])]
        BY <2>6 DEF Refill, TypeInv, LocalsOK, Holding, ControlInv
      <3> QED BY <2>1, <3>1, QueueGetsKey
    <2> QED
      BY <1>2, <2>2, <2>3, <2>4, <2>5, <2>6
         DEF DistributeFrame, TrySendIDR, CacheIDR, LoadSnapshot, LockEntry, EndBroadcast,
             SendFullDelta, SendFullIDR, EvictEmpty, EvictExhausted, PutBackFull, RefillFull,
             entryVars
  <1>3. CASE Broadcast(p) \/ BroadcastAudio(p)
    BY <1>1, <1>3 DEF Broadcast, BroadcastAudio
  <1> QED BY <1>2, <1>3

LEMMA QueueStep == TypeInv /\ ControlInv /\ QueueInv /\ [Next]_vars => QueueInv'
  <1> SUFFICES ASSUME TypeInv, ControlInv, QueueInv, [Next]_vars
               PROVE  QueueInv'
    OBVIOUS
  <1>1. ASSUME UNCHANGED <<pc, frame, todo, cur>>
        PROVE  NoNewAwait
    BY <1>1 DEF NoNewAwait, Awaits
  <1>2. CASE UNCHANGED vars
    BY <1>1, <1>2, QueuesSame DEF vars, entryVars, prodVars, histVars
  <1>3. ASSUME NEW s \in Slots, Receive(s)
        PROVE  QueueInv'
    <2> DEFINE h == Head(queue[s])
    <2>1. /\ queue[s] # <<>> /\ queue' = [queue EXCEPT ![s] = Tail(@)]
          /\ \/ lastDelta' = lastDelta
             \/ ~IsIDR(h) /\ lastDelta' = [lastDelta EXCEPT ![s][h.by] = h.n]
          /\ UNCHANGED <<framesIn, pc, frame, todo, cur>>
      BY <1>3 DEF Receive, prodVars
    <2> QED BY <1>1, <2>1, QueueLosesHead
  \* Nothing was received from the entry's successor.
  <1>4. ASSUME NEW s \in Slots, DrainExits(s)
        PROVE  QueueInv'
    <2>1. /\ queue[s] = <<>> /\ lastDelta' = [lastDelta EXCEPT ![s] = [p \in Producers |-> 0]]
          /\ UNCHANGED <<queue, framesIn, pc, frame, todo, cur>>
      BY <1>4 DEF DrainExits, prodVars
    <2>2. InOrder(queue[s], lastDelta'[s])
      BY <2>1 DEF InOrder
    <2>3. \A p \in Producers, n \in Nat \ {0} : Before(queue[s], lastDelta'[s], p, n)
      BY <2>1 DEF Before, TypeInv, TypeOK
    <2>4. framesIn + 1 \in Nat \ {0} /\ \A p \in Producers : pc[p] # "idle" => frame[p].n \in Nat \ {0}
      BY HubAssumption, FrameFields DEF TypeInv, TypeOK, LocalsOK
    <2>5. \A p \in Producers, r \in Slots :
            Awaits(p, r)' => Awaits(p, r) /\ frame'[p] = frame[p] /\ pc[p] # "idle"
      BY <2>1 DEF Awaits, Holding
    <2>6. \A r \in Slots : r # s => lastDelta'[r] = lastDelta[r]
      BY <2>1 DEF TypeInv, TypeOK
    <2> QED BY <2>1, <2>2, <2>3, <2>4, <2>5, <2>6 DEF QueueInv
  <1>5. ASSUME NEW s \in Slots, CallbackReturns(s)
        PROVE  QueueInv'
    BY <1>1, <1>5, QueuesSame DEF CallbackReturns, prodVars, histVars
  <1>6. ASSUME NEW t \in Callers, Call(t)
        PROVE  QueueInv'
    <2>1. UNCHANGED <<queue, lastDelta, framesIn, pc, frame, todo, cur>>
      BY <1>6 DEF Call, Subscribe, SubscribeAudio, Unsubscribe, UnsubscribeAudio, Leave, Join,
         prodVars, entryVars, histVars
    <2> QED BY <1>1, <2>1, QueuesSame
  <1>7. ASSUME NEW t \in Callers, FinishCall(t)
        PROVE  QueueInv'
    <2>1. UNCHANGED <<lastDelta, framesIn, pc, frame, todo, cur>>
      BY <1>7 DEF FinishCall, Replay, ReplayPanics, MarkClosed, CloseChannel, AwaitDrain,
         prodVars, entryVars, histVars
    <2>2. CASE UNCHANGED queue
      BY <1>1, <2>1, <2>2, QueuesSame
    <2>3. CASE Replay(t) /\ ~UNCHANGED queue
      <3>1. /\ target[t] \in Slots /\ replay[t] \in Frames /\ IsIDR(replay[t])
            /\ queue' = [queue EXCEPT ![target[t]] = Append(@, replay[t])]
        BY <2>3 DEF Replay, TypeInv, TypeOK, LocalsOK, ControlInv, CpcValues
      <3> QED BY <1>1, <2>1, <3>1, QueueGetsKey
    <2> QED
      BY <1>7, <2>2, <2>3 DEF FinishCall, ReplayPanics, MarkClosed, CloseChannel, AwaitDrain,
         entryVars
  <1> QED BY <1>2, <1>3, <1>4, <1>5, <1>6, <1>7, ProducerQueue DEF Next, Drain

OrderInv == TypeInv /\ ControlInv /\ QueueInv

LEMMA OrderInit == Init => OrderInv
  <1> SUFFICES ASSUME Init
               PROVE  ControlInv /\ QueueInv
    BY TypeInit DEF OrderInv
  <1>1. ControlInv
    BY DEF Init, ControlInv
  <1>2. \A s \in Slots : queue[s] = <<>> /\ lastDelta[s] = [p \in Producers |-> 0]
    BY DEF Init
  <1>3. framesIn = 0 /\ \A p \in Producers, s \in Slots : ~Awaits(p, s)
    BY DEF Init, Awaits, Holding
  <1> QED BY <1>1, <1>2, <1>3 DEF QueueInv, InOrder, Before

LEMMA OrderStep == OrderInv /\ [Next]_vars => OrderInv'
  BY TypeStep, ControlStep, QueueStep DEF OrderInv

\* A consumer gets the deltas of one producer in the order of their broadcast,
\* whatever is evicted, put back and replayed in between.
THEOREM DeltasOrdered == Spec => []DeltasInOrder
  <1>1. OrderInv => DeltasInOrder
    <2> SUFFICES ASSUME OrderInv, NEW s \in Slots,
                        NEW i \in DOMAIN queue[s], ~IsIDR(queue[s][i])
                 PROVE  /\ queue[s][i].n > lastDelta[s][queue[s][i].by]
                        /\ \A j \in 1..(i - 1) :
                             ~IsIDR(queue[s][j]) /\ queue[s][j].by = queue[s][i].by =>
                                 queue[s][j].n < queue[s][i].n
      BY DEF DeltasInOrder
    <2>1. queue[s] \in Seq(Frames) /\ lastDelta[s] \in LastType /\ i \in 1..Len(queue[s])
      BY NumbersType DEF OrderInv
    <2>2. InOrder(queue[s], lastDelta[s])
      BY DEF OrderInv, QueueInv
    <2>3. queue[s][i] \in Frames
      BY <2>1
    <2>4. queue[s][i].n \in Nat /\ lastDelta[s][queue[s][i].by] \in Nat
      BY <2>1, <2>3, FrameFields DEF LastType
    <2> QED BY <2>1, <2>2, <2>4 DEF InOrder
  <1> QED BY <1>1, OrderInit, OrderStep, PTL DEF Spec

-----------------------------------------------------------------------------
\* DropsExact.  What is pending at an entry and neither in its channel nor in
\* the hand of the producer that offers it is gone, and was counted once.

Elems(q) == {q[i] : i \in DOMAIN q}

LEMMA ElemsAppend ==
  ASSUME NEW q \in Seq(Frames), NEW g \in Frames
  PROVE  Elems(Append(q, g)) = Elems(q) \cup {g}
  <1> DEFINE r == Append(q, g)
  <1>1. /\ DOMAIN r = 1..(Len(q) + 1) /\ DOMAIN q = 1..Len(q) /\ Len(q) \in Nat
        /\ \A i \in 1..Len(q) : r[i] = q[i]
        /\ r[Len(q) + 1] = g
    OBVIOUS
  <1> HIDE DEF r
  <1>2. \A i \in 1..(Len(q) + 1) : i \in 1..Len(q) \/ i = Len(q) + 1
    BY <1>1
  <1>3. \A i \in 1..Len(q) : i \in 1..(Len(q) + 1)
    BY <1>1
  <1>4. Len(q) + 1 \in 1..(Len(q) + 1)
    BY <1>1
  <1>5. Elems(r) = Elems(q) \cup {g}
    BY <1>1, <1>2, <1>3, <1>4 DEF Elems
  <1> QED BY <1>5 DEF r

LEMMA ElemsTail ==
  ASSUME NEW q \in Seq(Frames), q # <<>>
  PROVE  Elems(q) = Elems(Tail(q)) \cup {Head(q)}
  <1> DEFINE r == Tail(q)
  <1>1. /\ DOMAIN r = 1..(Len(q) - 1) /\ DOMAIN q = 1..Len(q) /\ Len(q) \in Nat \ {0}
        /\ \A i \in 1..(Len(q) - 1) : r[i] = q[i + 1]
        /\ Head(q) = q[1]
    OBVIOUS
  <1> HIDE DEF r
  <1>2. \A i \in 1..Len(q) : i = 1 \/ (i - 1 \in 1..(Len(q) - 1) /\ i - 1 + 1 = i)
    BY <1>1
  <1>3. \A i \in 1..(Len(q) - 1) : i + 1 \in 1..Len(q)
    BY <1>1
  <1>4. 1 \in 1..Len(q)
    BY <1>1
  <1>5. \A f : f \in Elems(q) => f \in Elems(r) \cup {Head(q)}
    <2> SUFFICES ASSUME NEW i \in 1..Len(q)
                 PROVE  q[i] \in Elems(r) \cup {Head(q)}
      BY <1>1 DEF Elems
    <2>1. CASE i = 1
      BY <1>1, <2>1
    <2>2. CASE i # 1
      <3>1. i - 1 \in 1..(Len(q) - 1) /\ r[i - 1] = q[i]
        BY <1>1, <1>2, <2>2
      <3> QED BY <1>1, <3>1 DEF Elems
    <2> QED BY <2>1, <2>2
  <1>6. \A f : f \in Elems(r) \cup {Head(q)} => f \in Elems(q)
    BY <1>1, <1>3, <1>4 DEF Elems
  <1>7. Elems(q) = Elems(r) \cup {Head(q)}
    BY <1>5, <1>6
  <1> QED BY <1>7 DEF r

\* A delta is in the channel once.
LEMMA HeadOnce ==
  ASSUME NEW q \in Seq(Frames), q # <<>>, NEW last \in LastType, InOrder(q, last),
         ~IsIDR(Head(q))
  PROVE  Head(q) \notin Elems(Tail(q))
  <1> SUFFICES ASSUME NEW i \in DOMAIN Tail(q), Tail(q)[i] = Head(q)
               PROVE  FALSE
    BY DEF Elems
  <1>1. i + 1 \in 1..Len(q) /\ q[i + 1] = Head(q) /\ q[1] = Head(q) /\ 1 \in 1..(i + 1 - 1)
    OBVIOUS
  <1>2. Head(q).n < Head(q).n
    BY <1>1 DEF InOrder
  <1>3. Head(q).n \in Nat
    BY FrameFields
  <1> QED BY <1>2, <1>3

Gone(s) ==
    {f \in pending[s] : ~IsIDR(f) /\ f \notin Queued(s)
                          /\ ~\E p \in Producers : cur[p] = s /\ frame[p] = f}

\* Producer p may still come to entry s.
Coming(p, s) ==
    \/ pc[p] \in {"cache", "snap"}
    \/ pc[p] \in Holding \cup {"next"} /\ s \in todo[p]

PendInv ==
    \A s \in Slots :
        /\ IsFiniteSet(pending[s])
        /\ \A f \in Queued(s) : ~IsIDR(f) => f \in pending[s]
        /\ \A p \in Producers :
             /\ cur[p] = s /\ ~IsIDR(frame[p]) => frame[p] \in pending[s]
             /\ \A f \in pending[s] : f.by = p =>
                  f.n <= framesIn /\ (Coming(p, s) => f.n < frame[p].n)

\* Who holds a delta, and where it can be.
LEMMA DeltaPlaces ==
  ASSUME OrderInv
  PROVE  /\ \A p \in Producers : cur[p] # NoSlot =>
              frame[p] \in Frames /\ frame[p].by = p
         /\ \A p, q \in Producers :
              cur[p] # NoSlot /\ cur[q] # NoSlot /\ frame[p] = frame[q] => p = q
         /\ \A p \in Producers, s \in Slots :
              cur[p] = s /\ ~IsIDR(frame[p]) => frame[p] \notin Queued(s)
         /\ \A s \in Slots : queue[s] # <<>> =>
              /\ Head(queue[s]) \in Frames
              /\ Queued(s) = Elems(Tail(queue[s])) \cup {Head(queue[s])}
              /\ ~IsIDR(Head(queue[s])) => Head(queue[s]) \notin Elems(Tail(queue[s]))
  <1>1. ASSUME NEW p \in Producers, cur[p] # NoSlot
        PROVE  frame[p] \in Frames /\ frame[p].by = p
    BY <1>1 DEF OrderInv, TypeInv, LocalsOK, ControlInv, Holding
  <1>2. ASSUME NEW p \in Producers, NEW s \in Slots, cur[p] = s, ~IsIDR(frame[p]),
               frame[p] \in Queued(s)
        PROVE  FALSE
    <2>1. PICK i \in 1..Len(queue[s]) : queue[s][i] = frame[p]
      BY <1>2 DEF Queued, OrderInv, TypeInv, TypeOK
    <2>2. cur[p] # NoSlot
      BY <1>2, HubAssumption
    <2>3. Awaits(p, s)
      BY <1>2, <2>2 DEF Awaits, OrderInv, ControlInv
    <2>4. Before(queue[s], lastDelta[s], p, frame[p].n)
      BY <2>3 DEF OrderInv, QueueInv
    <2>5. frame[p].n < frame[p].n
      BY <1>1, <1>2, <2>1, <2>2, <2>4 DEF Before
    <2> QED BY <1>1, <2>2, <2>5, FrameFields
  <1>3. ASSUME NEW s \in Slots, queue[s] # <<>>
        PROVE  /\ Head(queue[s]) \in Frames
               /\ Queued(s) = Elems(Tail(queue[s])) \cup {Head(queue[s])}
               /\ ~IsIDR(Head(queue[s])) => Head(queue[s]) \notin Elems(Tail(queue[s]))
    <2>1. /\ queue[s] \in Seq(Frames) /\ lastDelta[s] \in LastType
          /\ InOrder(queue[s], lastDelta[s])
      BY NumbersType DEF OrderInv, QueueInv
    <2>2. Head(queue[s]) \in Frames
      BY <1>3, <2>1
    <2>3. Queued(s) = Elems(queue[s])
      BY DEF Queued, Elems
    <2> QED BY <1>3, <2>1, <2>2, <2>3, ElemsTail, HeadOnce
  <1> QED BY <1>1, <1>2, <1>3

CountInv == \A s \in Slots : drops[s] = Cardinality(Gone(s)) + idrDrops[s]

\* A step that gives no producer an entry or a frame.
NothingTaken ==
    \A q \in Producers, s \in Slots :
        /\ Coming(q, s)' => Coming(q, s) /\ frame'[q] = frame[q]
        /\ cur'[q] = s => cur[q] = s /\ frame'[q] = frame[q]

\* Keyframes come and go: no delta is touched.
LEMMA KeysMove ==
  ASSUME OrderInv, PendInv, CountInv, NothingTaken, UNCHANGED <<pending, framesIn>>,
         \A s \in Slots, f \in Frames : ~IsIDR(f) => (f \in Queued(s)' <=> f \in Queued(s)),
         \A s \in Slots : Queued(s)' \subseteq Frames,
         \A q \in Producers : cur'[q] = cur[q] \/ IsIDR(frame[q]),
         \A s \in Slots : \E k \in {0, 1} :
             drops'[s] = drops[s] + k /\ idrDrops'[s] = idrDrops[s] + k
  PROVE  PendInv' /\ CountInv'
  <1>1. PendInv'
    BY DEF PendInv, NothingTaken
  <1>2. ASSUME NEW s \in Slots
        PROVE  Gone(s)' = Gone(s)
    <2>1. pending[s] \subseteq Frames
      BY DEF OrderInv, TypeInv, TypeOK
    <2>2. \A f \in Frames : ~IsIDR(f) =>
            ((\E p \in Producers : cur'[p] = s /\ frame'[p] = f)
               <=> (\E p \in Producers : cur[p] = s /\ frame[p] = f))
      BY DEF NothingTaken
    <2> QED BY <2>1, <2>2 DEF Gone
  <1>3. ASSUME NEW s \in Slots
        PROVE  drops'[s] = Cardinality(Gone(s)') + idrDrops'[s]
    <2>1. IsFiniteSet(Gone(s))
      BY FS_Subset DEF PendInv, Gone
    <2>2. Cardinality(Gone(s)) \in Nat /\ idrDrops[s] \in Nat
      BY <2>1, FS_CardinalityType DEF OrderInv, TypeInv, TypeOK
    <2>3. drops[s] = Cardinality(Gone(s)) + idrDrops[s] /\ Gone(s)' = Gone(s)
      BY <1>2 DEF CountInv
    <2>4. PICK k \in {0, 1} : drops'[s] = drops[s] + k /\ idrDrops'[s] = idrDrops[s] + k
      OBVIOUS
    <2> QED BY <2>2, <2>3, <2>4
  <1> QED BY <1>1, <1>3 DEF CountInv

\* A delta that has a place loses it, and is counted.
LEMMA DeltaGoes ==
  ASSUME OrderInv, PendInv, CountInv, NEW s \in Slots, NEW f,
         f \notin Gone(s), Gone(s)' = Gone(s) \cup {f},
         \A r \in Slots : r # s => Gone(r)' = Gone(r),
         drops' = [drops EXCEPT ![s] = @ + 1], UNCHANGED idrDrops
  PROVE  CountInv'
  <1> SUFFICES ASSUME NEW r \in Slots
               PROVE  drops'[r] = Cardinality(Gone(r)') + idrDrops[r]
    BY DEF CountInv
  <1>1. IsFiniteSet(Gone(r))
    BY FS_Subset DEF PendInv, Gone
  <1>2. /\ Cardinality(Gone(r)) \in Nat /\ idrDrops[r] \in Nat
        /\ drops[r] = Cardinality(Gone(r)) + idrDrops[r]
    BY <1>1, FS_CardinalityType DEF OrderInv, TypeInv, TypeOK, CountInv
  <1>3. CASE r = s
    <2>1. Cardinality(Gone(s) \cup {f}) = Cardinality(Gone(s)) + 1
      BY <1>1, <1>3, FS_AddElement
    <2>2. drops'[s] = drops[s] + 1
      BY DEF OrderInv, TypeInv, TypeOK
    <2> QED BY <1>2, <1>3, <2>1, <2>2
  <1>4. CASE r # s
    BY <1>2, <1>4 DEF OrderInv, TypeInv, TypeOK
  <1> QED BY <1>3, <1>4

\* What a producer's step does to its locals.
LEMMA TakenKept ==
  ASSUME TypeInv, ControlInv, NEW p \in Producers, DistributeFrame(p),
         LockEntry(p) => UNCHANGED cur
  PROVE  NothingTaken
  <1> USE HubAssumption DEF NothingTaken, Coming, Holding, TypeInv, TypeOK
  <1>1. CASE CacheIDR(p) \/ LoadSnapshot(p) \/ SendFullIDR(p)
    BY <1>1 DEF CacheIDR, LoadSnapshot, SendFullIDR, Goto
  <1>2. CASE EndBroadcast(p)
    <2>1. cur[p] = NoSlot
      BY <1>2 DEF EndBroadcast, ControlInv
    <2> QED BY <1>2, <2>1 DEF EndBroadcast, Goto
  <1>3. CASE LockEntry(p)
    <2>1. PICK s \in todo[p] :
            /\ todo' = [todo EXCEPT ![p] = @ \ {s}]
            /\ pc' = pc \/ pc' = [pc EXCEPT ![p] = "send"]
      BY <1>3 DEF LockEntry, Goto
    <2>2. pc[p] = "next" /\ UNCHANGED <<frame, cur>>
      BY <1>3 DEF LockEntry
    <2> QED BY <2>1, <2>2
  <1>4. CASE SendOk(p) \/ SendFullDelta(p) \/ TrySendIDR(p)
    <2>1. /\ pc[p] \in Holding
          /\ pc' \in {[pc EXCEPT ![p] = l] : l \in {"evict", "putBack", "refill", "next"}}
          /\ cur' \in {cur, [cur EXCEPT ![p] = NoSlot]}
          /\ UNCHANGED <<frame, todo>>
      BY <1>4 DEF SendOk, SendFullDelta, TrySendIDR, EvictDelta, EvictIDR, EvictEmpty,
         EvictExhausted, PutBack, PutBackFull, Refill, RefillFull, Release, Goto
    <2> QED BY <2>1
  <1> QED BY <1>1, <1>2, <1>3, <1>4 DEF DistributeFrame

\* Keyframes appended, put back, replayed or taken out.
LEMMA KeyAppended ==
  ASSUME TypeInv, NEW s \in Slots, NEW g \in Frames, IsIDR(g),
         queue' = [queue EXCEPT ![s] = Append(@, g)]
  PROVE  /\ \A r \in Slots, f \in Frames : ~IsIDR(f) => (f \in Queued(r)' <=> f \in Queued(r))
         /\ \A r \in Slots : Queued(r)' \subseteq Frames
  <1>1. \A r \in Slots : queue[r] \in Seq(Frames) /\ Queued(r) = Elems(queue[r])
                           /\ Queued(r)' = Elems(queue'[r])
    BY DEF TypeInv, TypeOK, Queued, Elems
  <1>2. \A r \in Slots : Elems(queue[r]) \subseteq Frames
    BY <1>1 DEF Elems
  <1>3. \A r \in Slots : queue'[r] = IF r = s THEN Append(queue[r], g) ELSE queue[r]
    BY DEF TypeInv, TypeOK
  <1>4. \A r \in Slots : Elems(queue'[r]) \in {Elems(queue[r]), Elems(queue[r]) \cup {g}}
    BY <1>1, <1>3, ElemsAppend
  <1>5. ASSUME NEW r \in Slots
        PROVE  /\ Queued(r)' \subseteq Frames
               /\ \A f \in Frames : ~IsIDR(f) => (f \in Queued(r)' <=> f \in Queued(r))
    <2>1. Queued(r)' = Queued(r) \/ Queued(r)' = Queued(r) \cup {g}
      BY <1>1, <1>4
    <2>2. Queued(r) \subseteq Frames
      BY <1>1, <1>2
    <2>3. \A f : ~IsIDR(f) => f # g
      OBVIOUS
    <2> QED BY <2>1, <2>2, <2>3
  <1> QED BY <1>5

LEMMA HeadTaken ==
  ASSUME OrderInv, NEW s \in Slots, queue[s] # <<>>, queue' = [queue EXCEPT ![s] = Tail(@)]
  PROVE  /\ Queued(s) = Queued(s)' \cup {Head(queue[s])} /\ Head(queue[s]) \in Frames
         /\ ~IsIDR(Head(queue[s])) => Head(queue[s]) \notin Queued(s)'
         /\ \A r \in Slots : r # s => Queued(r)' = Queued(r)
         /\ \A r \in Slots : Queued(r) \subseteq Frames
  <1>1. queue'[s] = Tail(queue[s]) /\ \A r \in Slots : r # s => queue'[r] = queue[r]
    BY DEF OrderInv, TypeInv, TypeOK
  <1>2. Queued(s)' = Elems(Tail(queue[s]))
    BY <1>1 DEF Queued, Elems
  <1>3. \A r \in Slots : r # s => Queued(r)' = Queued(r)
    BY <1>1 DEF Queued
  <1>4. \A r \in Slots : Queued(r) \subseteq Frames
    BY DEF Queued, OrderInv, TypeInv, TypeOK
  <1> QED BY <1>2, <1>3, <1>4, DeltaPlaces

LEMMA ProducerCount ==
  ASSUME OrderInv, PendInv, CountInv, NEW p \in Producers, DistributeFrame(p)
  PROVE  PendInv' /\ CountInv'
  <1> DEFINE c == cur[p]
  <1>1. /\ framesIn' = framesIn
        /\ LockEntry(p) \/ UNCHANGED pending
        /\ (LockEntry(p) => UNCHANGED cur) => NothingTaken
    <2>1. framesIn' = framesIn /\ (LockEntry(p) \/ UNCHANGED pending)
      BY DEF DistributeFrame, TrySendIDR, CacheIDR, LoadSnapshot, LockEntry, EndBroadcast,
         SendOk, SendFullDelta, SendFullIDR, EvictDelta, EvictIDR, EvictEmpty, EvictExhausted,
         PutBack, PutBackFull, Refill, RefillFull, entryVars, histVars
    <2> QED BY <2>1, TakenKept DEF OrderInv
  <1>2. \A s \in Slots : Queued(s) \subseteq Frames
    BY DEF Queued, OrderInv, TypeInv, TypeOK
  <1>3. \A s \in Slots : drops[s] \in Nat /\ idrDrops[s] \in Nat
    BY DEF OrderInv, TypeInv, TypeOK
  <1>4. CASE /\ UNCHANGED <<queue, pending>> /\ NothingTaken
             /\ \A q \in Producers : cur'[q] = cur[q] \/ IsIDR(frame[q])
             /\ \A s \in Slots : \E k \in {0, 1} :
                  drops'[s] = drops[s] + k /\ idrDrops'[s] = idrDrops[s] + k
    <2>1. \A s \in Slots : Queued(s)' = Queued(s)
      BY <1>4 DEF Queued
    <2> QED BY <1>1, <1>2, <1>4, <2>1, KeysMove
  <1>5. CASE CacheIDR(p) \/ LoadSnapshot(p) \/ EndBroadcast(p) \/ SendFullIDR(p)
    <2>1. UNCHANGED <<queue, pending, cur, drops, idrDrops>> /\ ~(LockEntry(p) /\ ~UNCHANGED cur)
      BY <1>5 DEF CacheIDR, LoadSnapshot, EndBroadcast, SendFullIDR, entryVars, histVars, countVars
    <2>2. \A s \in Slots : drops'[s] = drops[s] + 0 /\ idrDrops'[s] = idrDrops[s] + 0
      BY <1>3, <2>1
    <2> QED BY <1>1, <1>4, <2>1, <2>2
  <1>6. CASE EvictEmpty(p) \/ PutBackFull(p) \/ RefillFull(p)
    <2>1. /\ UNCHANGED <<queue, pending, drops, idrDrops>> /\ IsIDR(frame[p])
          /\ cur' = [cur EXCEPT ![p] = NoSlot] /\ ~LockEntry(p)
      BY <1>6 DEF EvictEmpty, PutBackFull, RefillFull, Release, histVars, countVars, OrderInv,
                  ControlInv, LockEntry
    <2>2. \A s \in Slots : drops'[s] = drops[s] + 0 /\ idrDrops'[s] = idrDrops[s] + 0
      BY <1>3, <2>1
    <2>3. \A q \in Producers : cur'[q] = cur[q] \/ IsIDR(frame[q])
      BY <2>1 DEF OrderInv, TypeInv, TypeOK
    <2> QED BY <1>1, <1>4, <2>1, <2>2, <2>3
  <1>7. CASE EvictExhausted(p)
    <2>1. /\ UNCHANGED <<queue, pending>> /\ IsIDR(frame[p])
          /\ cur' = [cur EXCEPT ![p] = NoSlot] /\ ~LockEntry(p)
          /\ drops' = [drops EXCEPT ![c] = @ + 1] /\ idrDrops' = [idrDrops EXCEPT ![c] = @ + 1]
      BY <1>7 DEF EvictExhausted, Release, histVars, OrderInv, ControlInv, LockEntry
    <2>2. \A s \in Slots : \E k \in {0, 1} :
            drops'[s] = drops[s] + k /\ idrDrops'[s] = idrDrops[s] + k
      <3> SUFFICES ASSUME NEW s \in Slots
                   PROVE  \E k \in {0, 1} :
                            drops'[s] = drops[s] + k /\ idrDrops'[s] = idrDrops[s] + k
        OBVIOUS
      <3>1. CASE s = c
        BY <2>1, <3>1 DEF OrderInv, TypeInv, TypeOK
      <3>2. CASE s # c
        <4>1. drops'[s] = drops[s] + 0 /\ idrDrops'[s] = idrDrops[s] + 0
          BY <1>3, <2>1, <3>2 DEF OrderInv, TypeInv, TypeOK
        <4> QED BY <4>1
      <3> QED BY <3>1, <3>2
    <2>3. \A q \in Producers : cur'[q] = cur[q] \/ IsIDR(frame[q])
      BY <2>1 DEF OrderInv, TypeInv, TypeOK
    <2> QED BY <1>1, <1>4, <2>1, <2>2, <2>3
  \* A keyframe comes in.
  <1>8. ASSUME NEW g \in Frames, IsIDR(g), queue' = [queue EXCEPT ![c] = Append(@, g)],
               IsIDR(frame[p]), cur' \in {cur, [cur EXCEPT ![p] = NoSlot]}, pc[p] \in Holding,
               UNCHANGED <<pending, drops, idrDrops>>, ~LockEntry(p)
        PROVE  PendInv' /\ CountInv'
    <2>1. c \in Slots
      BY <1>8 DEF OrderInv, TypeInv, LocalsOK
    <2>2. \A s \in Slots : drops'[s] = drops[s] + 0 /\ idrDrops'[s] = idrDrops[s] + 0
      BY <1>3, <1>8
    <2>3. \A q \in Producers : cur'[q] = cur[q] \/ IsIDR(frame[q])
      BY <1>8 DEF OrderInv, TypeInv, TypeOK
    <2>4. TypeInv
      BY DEF OrderInv
    <2>5. /\ \A r \in Slots, f \in Frames : ~IsIDR(f) => (f \in Queued(r)' <=> f \in Queued(r))
          /\ \A r \in Slots : Queued(r)' \subseteq Frames
      BY <1>8, <2>1, <2>4, KeyAppended
    <2> QED BY <1>1, <1>8, <2>2, <2>3, <2>5, KeysMove
  <1>9. CASE SendOk(p) /\ IsIDR(frame[p])
    <2>1. frame[p] \in Frames /\ ~LockEntry(p) /\ pc[p] \in Holding
      BY <1>9 DEF SendOk, LockEntry, OrderInv, TypeInv, LocalsOK, Holding
    <2> QED BY <1>8, <1>9, <2>1 DEF SendOk, Release, histVars, countVars
  <1>10. CASE Refill(p)
    <2>1. frame[p] \in Frames /\ IsIDR(frame[p]) /\ ~LockEntry(p) /\ pc[p] \in Holding
      BY <1>10 DEF Refill, LockEntry, OrderInv, TypeInv, LocalsOK, ControlInv, Holding
    <2> QED BY <1>8, <1>10, <2>1 DEF Refill, Release, histVars, countVars
  <1>11. CASE PutBack(p)
    <2>1. /\ old[p] \in Frames /\ IsIDR(old[p]) /\ IsIDR(frame[p]) /\ ~LockEntry(p)
          /\ pc[p] \in Holding
      BY <1>11, NoFrameAssumption
         DEF PutBack, LockEntry, OrderInv, TypeInv, LocalsOK, ControlInv, Holding
    <2> QED BY <1>8, <1>11, <2>1 DEF PutBack, histVars, countVars
  <1>12. CASE EvictIDR(p)
    <2>1. /\ UNCHANGED <<pending, cur, drops, idrDrops>> /\ ~LockEntry(p) /\ c \in Slots
          /\ queue[c] # <<>> /\ IsIDR(Head(queue[c])) /\ queue' = [queue EXCEPT ![c] = Tail(@)]
      BY <1>12 DEF EvictIDR, histVars, countVars, LockEntry, OrderInv, TypeInv, LocalsOK, Holding
    <2>2. /\ \A r \in Slots, f \in Frames : ~IsIDR(f) => (f \in Queued(r)' <=> f \in Queued(r))
          /\ \A r \in Slots : Queued(r)' \subseteq Frames
      BY <1>2, <2>1, HeadTaken
    <2>3. \A s \in Slots : drops'[s] = drops[s] + 0 /\ idrDrops'[s] = idrDrops[s] + 0
      BY <1>3, <2>1
    <2> QED BY <1>1, <2>1, <2>2, <2>3, KeysMove
  \* The producer's delta finds the channel full.
  <1>13. CASE SendFullDelta(p)
    <2> PICK d \in Slots : d = cur[p]
      BY <1>13 DEF SendFullDelta, OrderInv, TypeInv, LocalsOK, Holding
    <2>1. /\ UNCHANGED <<queue, pending, idrDrops>> /\ ~LockEntry(p) /\ d # NoSlot
          /\ drops' = [drops EXCEPT ![d] = @ + 1] /\ ~IsIDR(frame[p])
          /\ cur' = [cur EXCEPT ![p] = NoSlot] /\ UNCHANGED frame
      BY <1>13, HubAssumption
         DEF SendFullDelta, Release, histVars, LockEntry, OrderInv, TypeInv, LocalsOK, Holding
    <2>2. \A s \in Slots : Queued(s)' = Queued(s)
      BY <2>1 DEF Queued
    <2>3. NothingTaken
      BY <1>1, <2>1
    <2>4. PendInv'
      BY <1>1, <2>1, <2>2, <2>3 DEF PendInv, NothingTaken
    <2>5. cur'[p] = NoSlot /\ \A q \in Producers \ {p} : cur'[q] = cur[q]
      BY <2>1 DEF OrderInv, TypeInv, TypeOK
    <2>6. frame[p] \in pending[d] /\ frame[p] \notin Queued(d)
      BY <2>1, DeltaPlaces DEF PendInv
    <2>7. \A q \in Producers : cur[q] = d /\ frame[q] = frame[p] => q = p
      BY <2>1, DeltaPlaces
    <2>8. Gone(d)' = Gone(d) \cup {frame[p]} /\ frame[p] \notin Gone(d)
      BY <2>1, <2>2, <2>5, <2>6, <2>7 DEF Gone
    <2>9. \A r \in Slots : r # d => Gone(r)' = Gone(r)
      BY <2>1, <2>2, <2>5, HubAssumption DEF Gone
    <2> QED BY <2>1, <2>4, <2>8, <2>9, DeltaGoes
  \* It is sent.
  <1>14. CASE SendOk(p) /\ ~IsIDR(frame[p])
    <2> PICK d \in Slots : d = cur[p]
      BY <1>14 DEF SendOk, OrderInv, TypeInv, LocalsOK, Holding
    <2>1. /\ UNCHANGED <<pending, drops, idrDrops, frame>> /\ ~LockEntry(p) /\ d # NoSlot
          /\ frame[p] \in Frames
          /\ queue' = [queue EXCEPT ![d] = Append(@, frame[p])]
          /\ cur' = [cur EXCEPT ![p] = NoSlot]
      BY <1>14, HubAssumption
         DEF SendOk, Release, histVars, countVars, LockEntry, OrderInv, TypeInv, LocalsOK, Holding
    <2>2. /\ Queued(d)' = Queued(d) \cup {frame[p]}
          /\ \A r \in Slots : r # d => Queued(r)' = Queued(r)
      <3>1. queue[d] \in Seq(Frames) /\ queue'[d] = Append(queue[d], frame[p])
        BY <2>1 DEF OrderInv, TypeInv, TypeOK
      <3>2. Elems(queue'[d]) = Elems(queue[d]) \cup {frame[p]}
        BY <2>1, <3>1, ElemsAppend
      <3>3. \A r \in Slots : r # d => queue'[r] = queue[r]
        BY <2>1 DEF OrderInv, TypeInv, TypeOK
      <3> QED BY <3>2, <3>3 DEF Queued, Elems
    <2>3. NothingTaken
      BY <1>1, <2>1
    <2>4. frame[p] \in pending[d]
      BY <1>14, <2>1 DEF PendInv
    <2>5. PendInv'
      BY <1>1, <2>1, <2>2, <2>3, <2>4 DEF PendInv, NothingTaken
    <2>6. cur'[p] = NoSlot /\ \A q \in Producers \ {p} : cur'[q] = cur[q]
      BY <2>1 DEF OrderInv, TypeInv, TypeOK
    <2>7. \A r \in Slots : Gone(r)' = Gone(r)
      BY <2>1, <2>2, <2>4, <2>6, HubAssumption DEF Gone
    <2> QED BY <2>1, <2>5, <2>7 DEF CountInv
  \* The oldest delta makes room.
  <1>15. CASE EvictDelta(p)
    <2> DEFINE h == Head(queue[c])
    <2>1. /\ UNCHANGED <<pending, idrDrops, frame, cur>> /\ ~LockEntry(p) /\ c \in Slots
          /\ queue[c] # <<>> /\ ~IsIDR(h) /\ queue' = [queue EXCEPT ![c] = Tail(@)]
          /\ drops' = [drops EXCEPT ![c] = @ + 1]
      BY <1>15 DEF EvictDelta, histVars, LockEntry, OrderInv, TypeInv, LocalsOK, Holding
    <2>2. /\ Queued(c) = Queued(c)' \cup {h} /\ h \notin Queued(c)'
          /\ \A r \in Slots : r # c => Queued(r)' = Queued(r)
      BY <2>1, HeadTaken
    <2> HIDE DEF h
    <2>3. NothingTaken
      BY <1>1, <2>1
    <2>4. PendInv'
      BY <1>1, <2>1, <2>2, <2>3 DEF PendInv, NothingTaken
    <2>5. h \in pending[c] /\ h \notin Gone(c)
      BY <2>1, <2>2 DEF PendInv, Gone
    <2>6. ~\E q \in Producers : cur[q] = c /\ frame[q] = h
      BY <2>1, <2>2, DeltaPlaces
    <2>7. Gone(c)' = Gone(c) \cup {h}
      BY <2>1, <2>2, <2>5, <2>6 DEF Gone
    <2>8. \A r \in Slots : r # c => Gone(r)' = Gone(r)
      BY <2>1, <2>2 DEF Gone
    <2> QED BY <2>1, <2>4, <2>5, <2>7, <2>8, DeltaGoes
  \* The producer takes an entry: its frame is pending there, and in its hand.
  <1>16. CASE LockEntry(p)
    <2>1. PICK s \in todo[p] :
            /\ todo' = [todo EXCEPT ![p] = @ \ {s}]
            /\ IF closed[s] THEN UNCHANGED <<pc, cur, pending, visited>>
               ELSE /\ Goto(p, "send")
                    /\ cur' = [cur EXCEPT ![p] = s]
                    /\ pending' = [pending EXCEPT ![s] = @ \cup {frame[p]}]
      BY <1>16 DEF LockEntry
    <2>2. pc[p] = "next" /\ UNCHANGED <<queue, drops, idrDrops, frame>> /\ s \in Slots
      BY <1>16 DEF LockEntry, countVars, OrderInv, TypeInv, TypeOK
    <2>3. \A r \in Slots : Queued(r)' = Queued(r)
      BY <2>2 DEF Queued
    <2>4. \A r \in Slots : drops'[r] = drops[r] + 0 /\ idrDrops'[r] = idrDrops[r] + 0
      BY <1>3, <2>2
    <2>5. CASE closed[s]
      BY <1>1, <1>4, <2>1, <2>2, <2>4, <2>5
    <2>6. CASE ~closed[s]
      <3>1. /\ cur[p] = NoSlot /\ s # NoSlot /\ frame[p].by = p /\ frame[p].n <= framesIn
            /\ frame[p].n \in Nat /\ Coming(p, s)
        <4>1. cur[p] = NoSlot /\ frame[p].by = p /\ frame[p].n <= framesIn
          BY <2>2 DEF OrderInv, ControlInv, Holding
        <4>2. frame[p] \in Frames
          BY <2>2 DEF OrderInv, TypeInv, LocalsOK
        <4>3. Coming(p, s) /\ s # NoSlot
          BY <2>1, <2>2, HubAssumption DEF Coming
        <4> QED BY <4>1, <4>2, <4>3, FrameFields
      <3>2. /\ \A q \in Producers \ {p} : UNCHANGED <<pc[q], cur[q], todo[q]>>
            /\ pc'[p] = "send" /\ cur'[p] = s /\ todo'[p] = todo[p] \ {s}
            /\ pending'[s] = pending[s] \cup {frame[p]}
            /\ \A r \in Slots : r # s => pending'[r] = pending[r]
        BY <2>1, <2>6 DEF Goto, OrderInv, TypeInv, TypeOK
      <3>3. /\ \A q \in Producers, r \in Slots : Coming(q, r)' => Coming(q, r)
            /\ ~Coming(p, s)'
        BY <2>2, <3>2 DEF Coming, Holding
      <3>4. PendInv'
        <4>1. \A r \in Slots : IsFiniteSet(pending'[r])
          <5>1. IsFiniteSet(pending[s] \cup {frame[p]})
            BY <2>2, FS_AddElement DEF PendInv
          <5> QED BY <3>2, <5>1 DEF PendInv
        <4>2. \A r \in Slots : pending[r] \subseteq pending'[r]
          BY <3>2
        <4>3. ASSUME NEW r \in Slots, NEW q \in Producers
              PROVE  cur'[q] = r /\ ~IsIDR(frame[q]) => frame[q] \in pending'[r]
          BY <3>2, <4>2 DEF PendInv
        <4>4. ASSUME NEW r \in Slots, NEW q \in Producers, NEW f \in pending'[r], f.by = q
              PROVE  f.n <= framesIn /\ (Coming(q, r)' => f.n < frame[q].n)
          <5>1. CASE f \in pending[r]
            BY <3>3, <4>4, <5>1 DEF PendInv
          <5>2. CASE f \notin pending[r]
            <6>1. r = s /\ f = frame[p] /\ q = p
              BY <3>1, <3>2, <4>4, <5>2
            <6> QED BY <3>1, <3>3, <6>1
          <5> QED BY <5>1, <5>2
        <4> QED BY <1>1, <2>2, <2>3, <4>1, <4>2, <4>3, <4>4 DEF PendInv
      <3>5. frame[p] \notin pending[s]
        <4>1. frame[p] \in pending[s] => frame[p].n < frame[p].n
          BY <2>2, <3>1 DEF PendInv
        <4> QED BY <3>1, <4>1
      <3>6. \A r \in Slots : Gone(r)' = Gone(r)
        <4>1. \A r \in Slots : \A f : r # s =>
                ((\E q \in Producers : cur'[q] = r /\ frame[q] = f)
                   <=> (\E q \in Producers : cur[q] = r /\ frame[q] = f))
          BY <3>1, <3>2, HubAssumption
        <4>2. \A f : (\E q \in Producers : cur'[q] = s /\ frame[q] = f)
                 <=> ((\E q \in Producers : cur[q] = s /\ frame[q] = f) \/ f = frame[p])
          BY <3>1, <3>2
        <4>3. \A r \in Slots : r # s => Gone(r)' = Gone(r)
          BY <2>2, <2>3, <3>2, <4>1 DEF Gone
        <4>4. Gone(s)' = Gone(s)
          BY <2>2, <2>3, <3>2, <3>5, <4>2 DEF Gone
        <4> QED BY <4>3, <4>4
      <3> QED BY <2>2, <3>4, <3>6 DEF CountInv
    <2> QED BY <2>5, <2>6
  <1> QED
    BY <1>5, <1>6, <1>7, <1>9, <1>10, <1>11, <1>12, <1>13, <1>14, <1>15, <1>16
       DEF DistributeFrame, TrySendIDR

\* The new frame is nowhere yet.
LEMMA StartCount ==
  ASSUME OrderInv, PendInv, CountInv, NEW p \in Producers, NEW kind \in Kinds,
         NEW label \in {"cache", "snap"}, Start(p, kind, label)
  PROVE  PendInv' /\ CountInv'
  <1>1. /\ framesIn' = framesIn + 1 /\ framesIn \in Nat /\ frame'[p].n = framesIn + 1
        /\ UNCHANGED <<queue, pending, cur, drops, idrDrops>>
        /\ \A q \in Producers \ {p} : UNCHANGED <<pc[q], frame[q], todo[q]>>
        /\ pc[p] = "idle"
    BY HubAssumption
       DEF Start, Goto, OrderInv, TypeInv, TypeOK, entryVars, histVars, countVars
  <1>2. cur[p] = NoSlot
    BY <1>1 DEF OrderInv, ControlInv, Holding
  <1>3. \A s \in Slots : Queued(s)' = Queued(s)
    BY <1>1 DEF Queued
  <1>4. \A s \in Slots, q \in Producers : cur'[q] = s => cur[q] = s /\ frame'[q] = frame[q]
    BY <1>1, <1>2, HubAssumption
  <1>5. \A s \in Slots, q \in Producers \ {p} : Coming(q, s)' = Coming(q, s)
    BY <1>1 DEF Coming
  <1>6. \A s \in Slots : \A f \in pending[s] : f.n \in Nat /\ f.by \in Producers
    BY FrameFields DEF OrderInv, TypeInv, TypeOK
  <1>7. PendInv'
    <2>1. ASSUME NEW s \in Slots, NEW q \in Producers, NEW f \in pending[s], f.by = q
          PROVE  f.n <= framesIn + 1 /\ (Coming(q, s)' => f.n < frame'[q].n)
      <3>1. f.n <= framesIn /\ (Coming(q, s) => f.n < frame[q].n)
        BY <2>1 DEF PendInv
      <3> QED BY <1>1, <1>5, <1>6, <3>1
    <2> QED BY <1>1, <1>3, <1>4, <2>1 DEF PendInv
  <1>8. \A s \in Slots : Gone(s)' = Gone(s)
    BY <1>1, <1>3, <1>4 DEF Gone
  <1> QED BY <1>1, <1>7, <1>8 DEF CountInv

LEMMA DrainCount ==
  ASSUME OrderInv, ClosedInv, PendInv, CountInv, NEW s \in Slots, Drain(s)
  PROVE  PendInv' /\ CountInv'
  <1>1. UNCHANGED <<pc, frame, todo, cur, framesIn, idrDrops>> \/ DrainExits(s)
    BY DEF Drain, Receive, CallbackReturns, prodVars, countVars
  <1>2. UNCHANGED <<pc, frame, todo, cur, framesIn>>
    BY DEF Drain, Receive, CallbackReturns, DrainExits, prodVars
  <1>3. \A q \in Producers, r \in Slots : Coming(q, r)' = Coming(q, r)
    BY <1>2 DEF Coming
  \* What is received is neither pending nor in the channel any more.
  <1>4. CASE Receive(s)
    <2> DEFINE h == Head(queue[s])
    <2>1. /\ queue[s] # <<>> /\ queue' = [queue EXCEPT ![s] = Tail(@)]
          /\ pending' = [pending EXCEPT ![s] = @ \ {h}] /\ UNCHANGED <<drops, idrDrops>>
      BY <1>4 DEF Receive, countVars
    <2>2. /\ Queued(s) = Queued(s)' \cup {h}
          /\ ~IsIDR(h) => h \notin Queued(s)'
          /\ \A r \in Slots : r # s => Queued(r)' = Queued(r)
      BY <2>1, HeadTaken
    <2>3. \A q \in Producers : cur[q] = s /\ ~IsIDR(frame[q]) => frame[q] # h
      BY <2>2, DeltaPlaces
    <2> HIDE DEF h
    <2>4. pending'[s] = pending[s] \ {h} /\ \A r \in Slots : r # s => pending'[r] = pending[r]
      BY <2>1 DEF OrderInv, TypeInv, TypeOK
    <2>5. PendInv'
      <3>1. \A r \in Slots : pending'[r] \subseteq pending[r]
        BY <2>4
      <3>2. \A r \in Slots : IsFiniteSet(pending'[r])
        BY <3>1, FS_Subset DEF PendInv
      <3>3. \A r \in Slots : \A f \in Queued(r)' : ~IsIDR(f) => f \in pending'[r]
        BY <2>2, <2>4 DEF PendInv
      <3>4. \A r \in Slots, q \in Producers :
              cur[q] = r /\ ~IsIDR(frame[q]) => frame[q] \in pending'[r]
        BY <2>3, <2>4 DEF PendInv
      <3> QED BY <1>2, <1>3, <3>1, <3>2, <3>3, <3>4 DEF PendInv
    <2>6. Gone(s)' = Gone(s)
      BY <1>2, <2>2, <2>4 DEF Gone
    <2>7. \A r \in Slots : r # s => Gone(r)' = Gone(r)
      BY <1>2, <2>2, <2>4 DEF Gone
    <2> QED BY <2>1, <2>5, <2>6, <2>7 DEF CountInv
  \* The channel is closed: no producer is at it.
  <1>5. CASE DrainExits(s)
    <2>1. /\ queue[s] = <<>> /\ chClosed[s] /\ UNCHANGED queue
          /\ drops' = [drops EXCEPT ![s] = 0] /\ idrDrops' = [idrDrops EXCEPT ![s] = 0]
          /\ pending' = [pending EXCEPT ![s] = {}]
      BY <1>5 DEF DrainExits
    <2>2. \A q \in Producers : cur[q] # s
      BY <2>1, HubAssumption DEF ClosedInv
    <2>3. \A r \in Slots : Queued(r)' = Queued(r)
      BY <2>1 DEF Queued
    <2>4. /\ pending'[s] = {} /\ drops'[s] = 0 /\ idrDrops'[s] = 0
          /\ \A r \in Slots : r # s => UNCHANGED <<pending[r], drops[r], idrDrops[r]>>
      BY <2>1 DEF OrderInv, TypeInv, TypeOK
    <2>5. Queued(s) = {}
      BY <2>1 DEF Queued
    <2>6. PendInv'
      <3>1. \A r \in Slots : IsFiniteSet(pending'[r])
        BY <2>4, FS_EmptySet DEF PendInv
      <3> QED BY <1>2, <1>3, <2>2, <2>3, <2>4, <2>5, <3>1 DEF PendInv
    <2>7. Gone(s)' = {}
      BY <2>4 DEF Gone
    <2>8. \A r \in Slots : r # s => Gone(r)' = Gone(r)
      BY <1>2, <2>3, <2>4 DEF Gone
    <2>9. drops'[s] = Cardinality(Gone(s)') + idrDrops'[s]
      BY <2>4, <2>7, FS_EmptySet
    <2>10. ASSUME NEW r \in Slots, r # s
           PROVE  drops'[r] = Cardinality(Gone(r)') + idrDrops'[r]
      BY <2>4, <2>8, <2>10 DEF CountInv
    <2> QED BY <2>6, <2>9, <2>10 DEF CountInv
  <1>6. CASE CallbackReturns(s)
    <2>1. UNCHANGED <<queue, pending, drops, idrDrops>>
      BY <1>6 DEF CallbackReturns, histVars, countVars
    <2>2. \A r \in Slots : Queued(r)' = Queued(r)
      BY <2>1 DEF Queued
    <2>3. PendInv'
      BY <1>2, <1>3, <2>1, <2>2 DEF PendInv
    <2>4. \A r \in Slots : Gone(r)' = Gone(r)
      BY <1>2, <2>1, <2>2 DEF Gone
    <2> QED BY <2>1, <2>3, <2>4 DEF CountInv
  <1> QED BY <1>4, <1>5, <1>6 DEF Drain

LEMMA CountStep == OrderInv /\ ClosedInv /\ PendInv /\ CountInv /\ [Next]_vars => PendInv' /\ CountInv'
  <1> SUFFICES ASSUME OrderInv, ClosedInv, PendInv, CountInv, [Next]_vars
               PROVE  PendInv' /\ CountInv'
    OBVIOUS
  <1>1. ASSUME UNCHANGED <<queue, pending, drops, idrDrops, pc, frame, todo, cur, framesIn>>
        PROVE  PendInv' /\ CountInv'
    <2>1. \A r \in Slots : Queued(r)' = Queued(r)
      BY <1>1 DEF Queued
    <2>2. \A r \in Slots, q \in Producers : Coming(q, r)' = Coming(q, r)
      BY <1>1 DEF Coming
    <2>3. PendInv'
      BY <1>1, <2>1, <2>2 DEF PendInv
    <2>4. \A r \in Slots : Gone(r)' = Gone(r)
      BY <1>1, <2>1 DEF Gone
    <2> QED BY <1>1, <2>3, <2>4 DEF CountInv
  <1>2. CASE UNCHANGED vars
    BY <1>1, <1>2 DEF vars, entryVars, countVars, histVars, prodVars
  <1>3. ASSUME NEW t \in Callers, Call(t)
        PROVE  PendInv' /\ CountInv'
    <2>1. UNCHANGED <<queue, pending, drops, idrDrops, pc, frame, todo, cur, framesIn>>
      BY <1>3 DEF Call, Subscribe, SubscribeAudio, Unsubscribe, UnsubscribeAudio, Leave, Join,
         prodVars, entryVars, histVars, countVars
    <2> QED BY <1>1, <2>1
  <1>4. ASSUME NEW t \in Callers, FinishCall(t)
        PROVE  PendInv' /\ CountInv'
    <2>1. UNCHANGED <<pending, drops, idrDrops, pc, frame, todo, cur, framesIn>>
      BY <1>4 DEF FinishCall, Replay, ReplayPanics, MarkClosed, CloseChannel, AwaitDrain,
         prodVars, entryVars, histVars, countVars
    <2>2. CASE UNCHANGED queue
      BY <1>1, <2>1, <2>2
    <2>3. CASE Replay(t) /\ ~UNCHANGED queue
      <3>1. PICK s \in Slots, g \in Frames :
              IsIDR(g) /\ queue' = [queue EXCEPT ![s] = Append(@, g)]
        BY <2>3 DEF Replay, OrderInv, TypeInv, TypeOK, LocalsOK, ControlInv, CpcValues
      <3>2. TypeInv
        BY DEF OrderInv
      <3>3. /\ \A r \in Slots, f \in Frames : ~IsIDR(f) => (f \in Queued(r)' <=> f \in Queued(r))
            /\ \A r \in Slots : Queued(r)' \subseteq Frames
        BY <3>1, <3>2, KeyAppended
      <3>4. NothingTaken
        BY <2>1 DEF NothingTaken, Coming
      <3>5. \A r \in Slots : drops'[r] = drops[r] + 0 /\ idrDrops'[r] = idrDrops[r] + 0
        BY <2>1 DEF OrderInv, TypeInv, TypeOK
      <3>6. \A q \in Producers : cur'[q] = cur[q]
        BY <2>1
      <3> QED BY <2>1, <3>3, <3>4, <3>5, <3>6, KeysMove
    <2> QED
      BY <1>4, <2>2, <2>3 DEF FinishCall, ReplayPanics, MarkClosed, CloseChannel, AwaitDrain,
         entryVars
  <1>5. ASSUME NEW p \in Producers, Broadcast(p) \/ BroadcastAudio(p)
        PROVE  PendInv' /\ CountInv'
    <2>1. PICK kind \in Kinds, label \in {"cache", "snap"} : Start(p, kind, label)
      BY <1>5 DEF Broadcast, BroadcastAudio
    <2> QED BY <2>1, StartCount
  <1> QED BY <1>2, <1>3, <1>4, <1>5, ProducerCount, DrainCount DEF Next

\* The drop counter of a consumer is exactly its lost deltas and the keyframes
\* counted as dropped: no delta is lost silently and none is counted twice.
THEOREM DropsCounted == Spec => []DropsExact
  <1>1. Init => PendInv /\ CountInv
    <2> SUFFICES ASSUME Init
                 PROVE  PendInv /\ CountInv
      OBVIOUS
    <2>1. \A s \in Slots : pending[s] = {} /\ queue[s] = <<>> /\ drops[s] = 0 /\ idrDrops[s] = 0
      BY DEF Init
    <2>2. \A p \in Producers : cur[p] = NoSlot
      BY DEF Init
    <2>3. \A s \in Slots : Queued(s) = {} /\ Gone(s) = {}
      BY <2>1 DEF Queued, Gone
    <2>4. PendInv
      BY <2>1, <2>2, <2>3, FS_EmptySet, HubAssumption DEF PendInv
    <2>5. \A s \in Slots : drops[s] = Cardinality(Gone(s)) + idrDrops[s]
      <3> SUFFICES ASSUME NEW s \in Slots
                   PROVE  drops[s] = Cardinality(Gone(s)) + idrDrops[s]
        OBVIOUS
      <3>1. Gone(s) = {} /\ drops[s] = 0 /\ idrDrops[s] = 0
        BY <2>1, <2>3
      <3>2. Cardinality(Gone(s)) = 0
        BY <3>1, FS_EmptySet
      <3> QED BY <3>1, <3>2
    <2> QED BY <2>4, <2>5 DEF CountInv
  \* A frame in hand that is being put back is a keyframe.
  <1>2. OrderInv /\ CountInv => DropsExact
    <2> SUFFICES ASSUME OrderInv, CountInv, NEW s \in Slots
                 PROVE  {f \in Lost(s) : ~IsIDR(f)} = Gone(s)
      BY DEF DropsExact, CountInv
    <2>1. \A f \in pending[s] : f \in Frames
      BY DEF OrderInv, TypeInv, TypeOK
    <2>2. \A f \in Frames : ~IsIDR(f) => \A p \in Producers : old[p] # f
      BY NoFrameAssumption DEF OrderInv, ControlInv
    <2>3. \A f \in Frames : ~IsIDR(f) =>
            (f \in InHand(s) <=> \E p \in Producers : cur[p] = s /\ frame[p] = f)
      BY <2>2 DEF InHand
    <2> QED BY <2>1, <2>3 DEF Lost, Gone
  <1>3. Init => ClosedInv
    BY DEF Init, ClosedInv
  <1>4. OrderInv => TypeInv
    BY DEF OrderInv
  <1> QED BY <1>1, <1>2, <1>3, <1>4, OrderInit, OrderStep, ClosedStep, CountStep, PTL DEF Spec
=============================================================================
