----------------------------- MODULE StreamHub -----------------------------
(***************************************************************************)
(* The frame fan-out of one camera (src/internal/streamhub/streamhub.go).  *)
(*                                                                         *)
(* A producer goroutine (the recorder, or a jitter-buffer timer) offers    *)
(* each frame to every consumer of a copy-on-write snapshot, with a        *)
(* non-blocking send on the consumer's bounded channel.  A keyframe that   *)
(* meets a full channel makes room for itself by evicting the oldest delta *)
(* frame.  One drain goroutine per consumer receives from the channel and  *)
(* runs the callback.  Other goroutines subscribe and unsubscribe while    *)
(* frames flow.                                                            *)
(*                                                                         *)
(* Critical sections of h.mu contain no blocking operation and are one     *)
(* step each.  The read lock of a consumer's sendMu is held by producer p  *)
(* exactly while cur[p] is that consumer; the write lock is held for one   *)
(* assignment and is one step.  A consumerEntry is a slot: a slot may hold *)
(* a new entry once nothing refers to the old one.                         *)
(***************************************************************************)
EXTENDS Naturals, Sequences, FiniteSets

CONSTANTS
    VideoIds, AudioIds,  \* consumer ids, one name space per medium
    Slots,               \* identities of consumerEntry objects
    Producers,           \* goroutines that call Broadcast / distributeFrame
    Callers,             \* goroutines that call Subscribe / Unsubscribe
    Cap,                 \* consumerBufferSize
    IdrCacheSize,        \* idrCacheSize
    Kinds,               \* bound: kinds of frame the producers offer
    MaxFrames,           \* bound: frames broadcast in a behaviour
    NoSlot, NoFrame

ASSUME HubAssumption ==
    /\ Cap \in Nat \ {0}
    /\ IdrCacheSize \in Nat
    /\ MaxFrames \in Nat
    \* "idr" carries its parameter sets, "bareIdr" does not (HasCompleteParamSets).
    /\ Kinds \subseteq {"delta", "idr", "bareIdr", "audio"}
    /\ VideoIds \cap AudioIds = {}
    /\ NoSlot \notin Slots

Ids == VideoIds \cup AudioIds
Media == {"video", "audio"}

Frames == [n : 1..MaxFrames, kind : Kinds, by : Producers]

ASSUME NoFrameAssumption == NoFrame \notin Frames

IsIDR(f) == f.kind \in {"idr", "bareIdr"}
Medium(f) == IF f.kind = "audio" THEN "audio" ELSE "video"

VARIABLES
    consumers,   \* h.consumers and h.audioConsumers: id -> entry
    snapshot,    \* the COW snapshots: medium -> entries
    idrCache,    \* most recent keyframes, oldest first
    queue,       \* entry -> channel contents
    closed,      \* entry -> the flag sendMu guards
    chClosed,    \* entry -> close(ch) was called
    done,        \* entry -> the drain goroutine has exited
    inCall,      \* entry -> the callback is running
    drops, idrDrops,   \* entry -> loss counters
    pc, frame, todo, cur, scan, old,   \* producer: locals of distributeFrame
    cpc, target, replay,               \* caller: locals of Subscribe/Unsubscribe
    framesIn     \* frames broadcast so far

\* History, read by no action: frames offered to an entry and not received
\* by its drain, the last delta its drain received from each producer, the
\* entries subscribed when a producer's current Broadcast began, and those it
\* has been offered to.
VARIABLES pending, lastDelta, due, visited

hubVars == <<consumers, snapshot, idrCache>>
lifeVars == <<closed, chClosed, done>>
countVars == <<drops, idrDrops>>
histVars == <<pending, lastDelta>>
entryVars == <<queue, inCall, lifeVars, countVars, histVars>>
prodVars == <<pc, frame, todo, cur, scan, old, due, visited>>
callVars == <<cpc, target, replay>>
vars == <<hubVars, entryVars, prodVars, callVars, framesIn>>

PcValues == {"idle", "cache", "snap", "next", "send", "evict", "putBack", "refill"}
CpcValues == {"idle", "replay", "close", "shut", "wait", "panicked"}

Init ==
    /\ consumers = [id \in Ids |-> NoSlot]
    /\ snapshot = [m \in Media |-> {}]
    /\ idrCache = <<>>
    /\ queue = [s \in Slots |-> <<>>]
    /\ closed = [s \in Slots |-> FALSE]
    /\ chClosed = [s \in Slots |-> FALSE]
    /\ done = [s \in Slots |-> TRUE]
    /\ inCall = [s \in Slots |-> FALSE]
    /\ drops = [s \in Slots |-> 0]
    /\ idrDrops = [s \in Slots |-> 0]
    /\ pc = [p \in Producers |-> "idle"]
    /\ frame = [p \in Producers |-> NoFrame]
    /\ todo = [p \in Producers |-> {}]
    /\ cur = [p \in Producers |-> NoSlot]
    /\ scan = [p \in Producers |-> 0]
    /\ old = [p \in Producers |-> NoFrame]
    /\ cpc = [t \in Callers |-> "idle"]
    /\ target = [t \in Callers |-> NoSlot]
    /\ replay = [t \in Callers |-> NoFrame]
    /\ framesIn = 0
    /\ pending = [s \in Slots |-> {}]
    /\ lastDelta = [s \in Slots |-> [p \in Producers |-> 0]]
    /\ due = [p \in Producers |-> {}]
    /\ visited = [p \in Producers |-> {}]

-----------------------------------------------------------------------------
\* Broadcast and distributeFrame, one producer at a time per goroutine.

Subscribed == {consumers[id] : id \in Ids} \ {NoSlot}
Full(s) == Len(queue[s]) >= Cap

Goto(p, label) == pc' = [pc EXCEPT ![p] = label]

\* RUnlock and move on to the next entry of the snapshot.
Release(p) ==
    /\ Goto(p, "next")
    /\ cur' = [cur EXCEPT ![p] = NoSlot]
    /\ old' = [old EXCEPT ![p] = NoFrame]
    /\ scan' = [scan EXCEPT ![p] = 0]
    /\ UNCHANGED <<frame, todo, due, visited>>

Panicked == \E t \in Callers : cpc[t] = "panicked"

\* A new frame, from Broadcast or BroadcastAudio.
Start(p, kind, label) ==
    /\ pc[p] = "idle" /\ ~Panicked
    /\ framesIn < MaxFrames
    /\ framesIn' = framesIn + 1
    /\ frame' = [frame EXCEPT ![p] = [n |-> framesIn + 1, kind |-> kind, by |-> p]]
    /\ Goto(p, label)
    /\ due' = [due EXCEPT ![p] = Subscribed]
    /\ UNCHANGED <<hubVars, entryVars, todo, cur, scan, old, visited, callVars>>

Broadcast(p) ==
    \E kind \in Kinds \ {"audio"} :
        Start(p, kind, IF kind # "delta" /\ IdrCacheSize > 0 THEN "cache" ELSE "snap")

BroadcastAudio(p) == "audio" \in Kinds /\ Start(p, "audio", "snap")

CacheIDR(p) ==
    /\ pc[p] = "cache"
    /\ idrCache' = IF Len(idrCache) >= IdrCacheSize
                   THEN Append(Tail(idrCache), frame[p])
                   ELSE Append(idrCache, frame[p])
    /\ Goto(p, "snap")
    /\ UNCHANGED <<consumers, snapshot, entryVars, frame, todo, cur, scan, old, due, visited,
                   callVars, framesIn>>

LoadSnapshot(p) ==
    /\ pc[p] = "snap"
    /\ todo' = [todo EXCEPT ![p] = snapshot[Medium(frame[p])]]
    /\ Goto(p, "next")
    /\ UNCHANGED <<hubVars, entryVars, frame, cur, scan, old, due, visited, callVars, framesIn>>

\* sendMu.RLock; a closed entry is skipped.
LockEntry(p) ==
    /\ pc[p] = "next"
    /\ \E s \in todo[p] :
         /\ todo' = [todo EXCEPT ![p] = @ \ {s}]
         /\ IF closed[s]
            THEN UNCHANGED <<pc, cur, pending, visited>>
            ELSE /\ Goto(p, "send")
                 /\ cur' = [cur EXCEPT ![p] = s]
                 /\ pending' = [pending EXCEPT ![s] = @ \cup {frame[p]}]
                 /\ visited' = [visited EXCEPT ![p] = @ \cup {s}]
    /\ UNCHANGED <<hubVars, queue, inCall, lifeVars, countVars, lastDelta, frame, scan, old,
                   due, callVars, framesIn>>

EndBroadcast(p) ==
    /\ pc[p] = "next"
    /\ todo[p] = {}
    /\ Goto(p, "idle")
    /\ frame' = [frame EXCEPT ![p] = NoFrame]
    /\ due' = [due EXCEPT ![p] = {}]
    /\ visited' = [visited EXCEPT ![p] = {}]
    /\ UNCHANGED <<hubVars, entryVars, todo, cur, scan, old, callVars, framesIn>>

\* The outcomes of the non-blocking send.
SendOk(p) ==
    LET s == cur[p] IN
    /\ pc[p] = "send"
    /\ ~Full(s)
    /\ queue' = [queue EXCEPT ![s] = Append(@, frame[p])]
    /\ Release(p)
    /\ UNCHANGED <<hubVars, lifeVars, inCall, countVars, histVars, callVars, framesIn>>

SendFullDelta(p) ==
    LET s == cur[p] IN
    /\ pc[p] = "send"
    /\ Full(s) /\ ~IsIDR(frame[p])
    /\ drops' = [drops EXCEPT ![s] = @ + 1]
    /\ Release(p)
    /\ UNCHANGED <<hubVars, queue, lifeVars, inCall, idrDrops, histVars, callVars,
                   framesIn>>

SendFullIDR(p) ==
    LET s == cur[p] IN
    /\ pc[p] = "send"
    /\ Full(s) /\ IsIDR(frame[p])
    /\ Goto(p, "evict")
    /\ UNCHANGED <<hubVars, entryVars, frame, todo, cur, scan, old, due, visited, callVars,
                   framesIn>>

\* Mutant: the evicted delta is not counted.
EvictDeltaUncounted(p) ==
    LET s == cur[p] IN
    /\ pc[p] = "evict" /\ scan[p] < Cap
    /\ queue[s] # <<>> /\ ~IsIDR(Head(queue[s]))
    /\ queue' = [queue EXCEPT ![s] = Tail(@)]
    /\ Goto(p, "refill")
    /\ UNCHANGED <<hubVars, lifeVars, inCall, countVars, histVars, frame, todo, cur,
                   scan, old, due, visited, callVars, framesIn>>

\* trySendIDR: one round of its scan takes the oldest frame.
EvictDelta(p) ==
    LET s == cur[p] IN
    /\ pc[p] = "evict" /\ scan[p] < Cap
    /\ queue[s] # <<>> /\ ~IsIDR(Head(queue[s]))
    /\ queue' = [queue EXCEPT ![s] = Tail(@)]
    /\ drops' = [drops EXCEPT ![s] = @ + 1]
    /\ Goto(p, "refill")
    /\ UNCHANGED <<hubVars, lifeVars, inCall, idrDrops, histVars, frame, todo, cur,
                   scan, old, due, visited, callVars, framesIn>>

\* Mutant: the kind of the oldest frame is not looked at.
EvictAny(p) ==
    LET s == cur[p] IN
    /\ pc[p] = "evict" /\ scan[p] < Cap
    /\ queue[s] # <<>>
    /\ queue' = [queue EXCEPT ![s] = Tail(@)]
    /\ old' = [old EXCEPT ![p] = Head(queue[s])]
    /\ Goto(p, "putBack")
    /\ UNCHANGED <<hubVars, lifeVars, inCall, countVars, histVars, frame, todo, cur,
                   scan, due, visited, callVars, framesIn>>

EvictIDR(p) ==
    LET s == cur[p] IN
    /\ pc[p] = "evict" /\ scan[p] < Cap
    /\ queue[s] # <<>> /\ IsIDR(Head(queue[s]))
    /\ queue' = [queue EXCEPT ![s] = Tail(@)]
    /\ old' = [old EXCEPT ![p] = Head(queue[s])]
    /\ Goto(p, "putBack")
    /\ UNCHANGED <<hubVars, lifeVars, inCall, countVars, histVars, frame, todo, cur,
                   scan, due, visited, callVars, framesIn>>

\* The drain goroutine emptied the channel meanwhile: the keyframe is lost
\* and no counter moves.
EvictEmpty(p) ==
    LET s == cur[p] IN
    /\ pc[p] = "evict" /\ scan[p] < Cap
    /\ queue[s] = <<>>
    /\ Release(p)
    /\ UNCHANGED <<hubVars, queue, lifeVars, inCall, countVars, histVars, callVars,
                   framesIn>>

EvictExhausted(p) ==
    LET s == cur[p] IN
    /\ pc[p] = "evict" /\ scan[p] = Cap
    /\ drops' = [drops EXCEPT ![s] = @ + 1]
    /\ idrDrops' = [idrDrops EXCEPT ![s] = @ + 1]
    /\ Release(p)
    /\ UNCHANGED <<hubVars, queue, lifeVars, inCall, histVars, callVars, framesIn>>

\* Mutant: the round is not counted.
PutBackUncounted(p) ==
    LET s == cur[p] IN
    /\ pc[p] = "putBack" /\ ~Full(s)
    /\ queue' = [queue EXCEPT ![s] = Append(@, old[p])]
    /\ old' = [old EXCEPT ![p] = NoFrame]
    /\ Goto(p, "evict")
    /\ UNCHANGED <<hubVars, lifeVars, inCall, countVars, histVars, frame, todo, cur,
                   scan, due, visited, callVars, framesIn>>

PutBack(p) ==
    LET s == cur[p] IN
    /\ pc[p] = "putBack" /\ ~Full(s)
    /\ queue' = [queue EXCEPT ![s] = Append(@, old[p])]
    /\ old' = [old EXCEPT ![p] = NoFrame]
    /\ scan' = [scan EXCEPT ![p] = @ + 1]
    /\ Goto(p, "evict")
    /\ UNCHANGED <<hubVars, lifeVars, inCall, countVars, histVars, frame, todo, cur,
                   due, visited, callVars, framesIn>>

\* Another sender took the place: both keyframes are lost, uncounted.
PutBackFull(p) ==
    LET s == cur[p] IN
    /\ pc[p] = "putBack" /\ Full(s)
    /\ Release(p)
    /\ UNCHANGED <<hubVars, queue, lifeVars, inCall, countVars, histVars, callVars,
                   framesIn>>

Refill(p) ==
    LET s == cur[p] IN
    /\ pc[p] = "refill" /\ ~Full(s)
    /\ queue' = [queue EXCEPT ![s] = Append(@, frame[p])]
    /\ Release(p)
    /\ UNCHANGED <<hubVars, lifeVars, inCall, countVars, histVars, callVars, framesIn>>

RefillFull(p) ==
    LET s == cur[p] IN
    /\ pc[p] = "refill" /\ Full(s)
    /\ Release(p)
    /\ UNCHANGED <<hubVars, queue, lifeVars, inCall, countVars, histVars, callVars,
                   framesIn>>

TrySendIDR(p) ==
    \/ EvictDelta(p) \/ EvictIDR(p) \/ EvictEmpty(p) \/ EvictExhausted(p)
    \/ PutBack(p) \/ PutBackFull(p) \/ Refill(p) \/ RefillFull(p)

DistributeFrame(p) ==
    \/ CacheIDR(p) \/ LoadSnapshot(p) \/ LockEntry(p) \/ EndBroadcast(p)
    \/ SendOk(p) \/ SendFullDelta(p) \/ SendFullIDR(p)
    \/ TrySendIDR(p)

-----------------------------------------------------------------------------
\* The drain goroutine of entry s.

Receive(s) ==
    /\ ~done[s] /\ ~inCall[s]
    /\ queue[s] # <<>>
    /\ queue' = [queue EXCEPT ![s] = Tail(@)]
    /\ inCall' = [inCall EXCEPT ![s] = TRUE]
    /\ LET f == Head(queue[s]) IN
         /\ pending' = [pending EXCEPT ![s] = @ \ {f}]
         /\ lastDelta' = IF IsIDR(f) THEN lastDelta
                         ELSE [lastDelta EXCEPT ![s][f.by] = f.n]
    /\ UNCHANGED <<hubVars, lifeVars, countVars, prodVars, callVars, framesIn>>

\* The callback may take any time, or for ever.
CallbackReturns(s) ==
    /\ inCall[s]
    /\ inCall' = [inCall EXCEPT ![s] = FALSE]
    /\ UNCHANGED <<hubVars, queue, lifeVars, countVars, histVars, prodVars, callVars,
                   framesIn>>

\* range over a closed, empty channel ends; the counters die with the entry.
DrainExits(s) ==
    /\ ~done[s] /\ ~inCall[s]
    /\ queue[s] = <<>> /\ chClosed[s]
    /\ done' = [done EXCEPT ![s] = TRUE]
    /\ drops' = [drops EXCEPT ![s] = 0]
    /\ idrDrops' = [idrDrops EXCEPT ![s] = 0]
    /\ pending' = [pending EXCEPT ![s] = {}]
    /\ lastDelta' = [lastDelta EXCEPT ![s] = [p \in Producers |-> 0]]
    /\ UNCHANGED <<hubVars, queue, inCall, closed, chClosed, prodVars, callVars,
                   framesIn>>

Drain(s) == Receive(s) \/ CallbackReturns(s) \/ DrainExits(s)

-----------------------------------------------------------------------------
\* Subscribe and Unsubscribe.

\* No goroutine, map or snapshot refers to the entry any more.
Unreferenced(s) ==
    /\ done[s]
    /\ s \notin Subscribed
    /\ \A p \in Producers : s \notin todo[p] /\ cur[p] # s
    /\ \A t \in Callers : target[t] # s

\* The newest cached keyframe that carries its parameter sets: a set of one
\* frame, or none.
LatestCompleteIDR ==
    LET complete == {i \in DOMAIN idrCache : idrCache[i].kind = "idr"}
    IN  {idrCache[i] : i \in {j \in complete : \A k \in complete : k <= j}}

\* Mutant: the snapshot is rebuilt without the entries that were there.
JoinAlone(id, medium, s) ==
    /\ consumers[id] = NoSlot
    /\ Unreferenced(s)
    /\ consumers' = [consumers EXCEPT ![id] = s]
    /\ snapshot' = [snapshot EXCEPT ![medium] = {s}]
    /\ closed' = [closed EXCEPT ![s] = FALSE]
    /\ chClosed' = [chClosed EXCEPT ![s] = FALSE]
    /\ done' = [done EXCEPT ![s] = FALSE]
    /\ UNCHANGED <<queue, inCall, countVars, histVars>>

\* A fresh entry under id, in the map and in the rebuilt snapshot.
Join(id, medium, s) ==
    /\ consumers[id] = NoSlot
    /\ Unreferenced(s)
    /\ consumers' = [consumers EXCEPT ![id] = s]
    /\ snapshot' = [snapshot EXCEPT ![medium] = @ \cup {s}]
    /\ closed' = [closed EXCEPT ![s] = FALSE]
    /\ chClosed' = [chClosed EXCEPT ![s] = FALSE]
    /\ done' = [done EXCEPT ![s] = FALSE]
    /\ UNCHANGED <<queue, inCall, countVars, histVars>>

\* Subscribe and SubscribeMsg: the replay frame is sent after h.mu is free.
Subscribe(t, id, s) ==
    /\ cpc[t] = "idle" /\ ~Panicked
    /\ Join(id, "video", s)
    /\ IF LatestCompleteIDR = {}
       THEN UNCHANGED callVars
       ELSE /\ cpc' = [cpc EXCEPT ![t] = "replay"]
            /\ target' = [target EXCEPT ![t] = s]
            /\ \E f \in LatestCompleteIDR : replay' = [replay EXCEPT ![t] = f]
    /\ UNCHANGED <<idrCache, prodVars, framesIn>>

SubscribeAudio(t, id, s) ==
    /\ cpc[t] = "idle" /\ ~Panicked
    /\ Join(id, "audio", s)
    /\ UNCHANGED <<idrCache, prodVars, callVars, framesIn>>

CallReturns(t) ==
    /\ cpc' = [cpc EXCEPT ![t] = "idle"]
    /\ target' = [target EXCEPT ![t] = NoSlot]
    /\ replay' = [replay EXCEPT ![t] = NoFrame]

\* A non-blocking send that takes no sendMu and looks at no closed flag; on
\* a closed channel it panics, which ends the process: nothing new starts.
\* That what is under way may still run on only adds behaviours.
Replay(t) ==
    /\ cpc[t] = "replay"
    /\ ~chClosed[target[t]]
    /\ queue' = IF Full(target[t]) THEN queue
                ELSE [queue EXCEPT ![target[t]] = Append(@, replay[t])]
    /\ CallReturns(t)
    /\ UNCHANGED <<hubVars, lifeVars, inCall, countVars, histVars, prodVars, framesIn>>

ReplayPanics(t) ==
    /\ cpc[t] = "replay"
    /\ chClosed[target[t]]
    /\ cpc' = [cpc EXCEPT ![t] = "panicked"]
    /\ UNCHANGED <<hubVars, entryVars, prodVars, target, replay, framesIn>>

\* Remove id from the map and rebuild the snapshot, under h.mu.
Leave(t, id, medium) ==
    /\ cpc[t] = "idle" /\ ~Panicked
    /\ consumers[id] # NoSlot
    /\ consumers' = [consumers EXCEPT ![id] = NoSlot]
    /\ snapshot' = [snapshot EXCEPT ![medium] = @ \ {consumers[id]}]
    /\ due' = [p \in Producers |-> due[p] \ {consumers[id]}]
    /\ target' = [target EXCEPT ![t] = consumers[id]]
    /\ cpc' = [cpc EXCEPT ![t] = "close"]
    /\ UNCHANGED <<idrCache, entryVars, pc, frame, todo, cur, scan, old, visited, replay,
                   framesIn>>

Unsubscribe(t, id) == Leave(t, id, "video")
UnsubscribeAudio(t, id) == Leave(t, id, "audio")

\* Mutant: sendMu is not taken.
MarkClosedAtOnce(t) ==
    /\ cpc[t] = "close"
    /\ closed' = [closed EXCEPT ![target[t]] = TRUE]
    /\ cpc' = [cpc EXCEPT ![t] = "shut"]
    /\ UNCHANGED <<hubVars, queue, chClosed, done, inCall, countVars, histVars,
                   prodVars, target, replay, framesIn>>

\* sendMu.Lock waits for the producers that hold the read lock.
MarkClosed(t) ==
    /\ cpc[t] = "close"
    /\ \A p \in Producers : cur[p] # target[t]
    /\ closed' = [closed EXCEPT ![target[t]] = TRUE]
    /\ cpc' = [cpc EXCEPT ![t] = "shut"]
    /\ UNCHANGED <<hubVars, queue, chClosed, done, inCall, countVars, histVars,
                   prodVars, target, replay, framesIn>>

\* Mutant: the channel stays open.
CloseNothing(t) ==
    /\ cpc[t] = "shut"
    /\ cpc' = [cpc EXCEPT ![t] = "wait"]
    /\ UNCHANGED <<hubVars, queue, closed, chClosed, done, inCall, countVars, histVars, prodVars,
                   target, replay, framesIn>>

CloseChannel(t) ==
    /\ cpc[t] = "shut"
    /\ chClosed' = [chClosed EXCEPT ![target[t]] = TRUE]
    /\ cpc' = [cpc EXCEPT ![t] = "wait"]
    /\ UNCHANGED <<hubVars, queue, closed, done, inCall, countVars, histVars, prodVars,
                   target, replay, framesIn>>

\* Mutant: Unsubscribe does not wait for the drain goroutine.
AwaitNothing(t) ==
    /\ cpc[t] = "wait"
    /\ CallReturns(t)
    /\ UNCHANGED <<hubVars, entryVars, prodVars, framesIn>>

AwaitDrain(t) ==
    /\ cpc[t] = "wait"
    /\ done[target[t]]
    /\ CallReturns(t)
    /\ UNCHANGED <<hubVars, entryVars, prodVars, framesIn>>

FinishCall(t) == Replay(t) \/ ReplayPanics(t) \/ MarkClosed(t) \/ CloseChannel(t) \/ AwaitDrain(t)

Call(t) ==
    \/ \E id \in VideoIds : Unsubscribe(t, id) \/ \E s \in Slots : Subscribe(t, id, s)
    \/ \E id \in AudioIds : UnsubscribeAudio(t, id) \/ \E s \in Slots : SubscribeAudio(t, id, s)

-----------------------------------------------------------------------------
Next ==
    \/ \E p \in Producers : Broadcast(p) \/ BroadcastAudio(p) \/ DistributeFrame(p)
    \/ \E s \in Slots : Drain(s)
    \/ \E t \in Callers : Call(t) \/ FinishCall(t)
    \/ Panicked /\ UNCHANGED vars

Spec == Init /\ [][Next]_vars

-----------------------------------------------------------------------------
\* Properties.

TypeOK ==
    /\ consumers \in [Ids -> Slots \cup {NoSlot}]
    /\ snapshot \in [Media -> SUBSET Slots]
    /\ idrCache \in Seq(Frames)
    /\ queue \in [Slots -> Seq(Frames)]
    /\ closed \in [Slots -> BOOLEAN]
    /\ chClosed \in [Slots -> BOOLEAN]
    /\ done \in [Slots -> BOOLEAN]
    /\ inCall \in [Slots -> BOOLEAN]
    /\ drops \in [Slots -> Nat]
    /\ idrDrops \in [Slots -> Nat]
    /\ pc \in [Producers -> PcValues]
    /\ frame \in [Producers -> Frames \cup {NoFrame}]
    /\ todo \in [Producers -> SUBSET Slots]
    /\ cur \in [Producers -> Slots \cup {NoSlot}]
    /\ scan \in [Producers -> 0..Cap]
    /\ old \in [Producers -> Frames \cup {NoFrame}]
    /\ cpc \in [Callers -> CpcValues]
    /\ target \in [Callers -> Slots \cup {NoSlot}]
    /\ replay \in [Callers -> Frames \cup {NoFrame}]
    /\ framesIn \in 0..MaxFrames
    /\ pending \in [Slots -> SUBSET Frames]
    /\ lastDelta \in [Slots -> [Producers -> Nat]]
    /\ due \in [Producers -> SUBSET Slots]
    /\ visited \in [Producers -> SUBSET Slots]

\* Broadcast never sends on, or receives from, a channel that Unsubscribe has
\* closed, although it works from a snapshot that may still name the entry.
NoBroadcastOnClosed ==
    \A p \in Producers : cur[p] # NoSlot => ~chClosed[cur[p]]

InHand(s) == UNION {{frame[p], old[p]} : p \in {q \in Producers : cur[q] = s}}
Queued(s) == {queue[s][i] : i \in DOMAIN queue[s]}

\* Offered to entry s, and in no place from which it could still be received.
Lost(s) == pending[s] \ (Queued(s) \cup InHand(s))

\* The drop counter of an entry is its lost deltas (and audio frames) plus the
\* keyframes counted as dropped: no delta is lost silently or counted twice.
DropsExact ==
    \A s \in Slots : drops[s] = Cardinality({f \in Lost(s) : ~IsIDR(f)}) + idrDrops[s]

\* When a Broadcast ends, its frame has been offered to every consumer of the
\* medium that was subscribed when it began and still is.
EveryConsumerOffered ==
    \A p \in Producers : pc[p] = "next" /\ todo[p] = {} =>
        \A id \in IF Medium(frame[p]) = "audio" THEN AudioIds ELSE VideoIds :
            consumers[id] \in due[p] => consumers[id] \in visited[p]

\* The callback of a consumer gets the deltas of one producer in the order in
\* which they were broadcast, whatever was evicted in between.
DeltasInOrder ==
    \A s \in Slots : ~done[s] =>
        \A i \in {k \in DOMAIN queue[s] : ~IsIDR(queue[s][k])} :
            LET f == queue[s][i] IN
            /\ f.n > lastDelta[s][f.by]
            /\ \A j \in 1..(i - 1) :
                 ~IsIDR(queue[s][j]) /\ queue[s][j].by = f.by => queue[s][j].n < f.n

\* A drain goroutine runs only for an entry that is subscribed or whose
\* Unsubscribe has not returned: no callback after Unsubscribe, no leak.
DrainHasOwner ==
    \A s \in Slots : ~done[s] =>
        s \in Subscribed \/ \E t \in Callers : target[t] = s /\ cpc[t] # "replay"

\* Fairness: goroutines inside hub code keep running.  Callbacks are not the
\* hub's: FairHub does not assume that they return.
FairHub ==
    /\ \A p \in Producers : WF_vars(DistributeFrame(p))
    /\ \A t \in Callers : WF_vars(FinishCall(t))
    /\ \A s \in Slots : WF_vars(Receive(s) \/ DrainExits(s))
FairCallbacks == \A s \in Slots : WF_vars(CallbackReturns(s))

FairSpec == Spec /\ FairHub

\* Broadcast returns even if no callback ever does: a slow consumer never
\* blocks the recording goroutine.
BroadcastReturns == \A p \in Producers : pc[p] # "idle" ~> pc[p] = "idle"

\* With callbacks that return, so does Unsubscribe.
UnsubscribeReturns ==
    FairCallbacks => \A t \in Callers : cpc[t] = "close" ~> cpc[t] = "idle"
=============================================================================
