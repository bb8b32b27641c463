----------------------------- MODULE SubStream -----------------------------
(***************************************************************************)
(* The on-demand sub-stream of one camera (internal/substream).            *)
(*                                                                         *)
(* Viewers Acquire and Release a shared source.  The first Acquire starts  *)
(* a pull; when the last reference goes an idle timer is armed, and the    *)
(* source is recycled when it fires.  A pull may fail for good, and then   *)
(* recycles its own source.  Timers and self-recycles name the camera, not *)
(* the source, and may be late.                                            *)
(*                                                                         *)
(* Sections under m.mu are one step each.  The entries the camera has had  *)
(* are numbered; `current` is the one in m.sources.                        *)
(***************************************************************************)
EXTENDS Naturals, FiniteSets

CONSTANTS
    Callers,       \* goroutines that call Acquire and Release
    MaxSources,    \* bound: entries created
    MaxFired       \* bound: idle timers that have fired and not yet recycled

ASSUME SubStreamAssumption ==
    IsFiniteSet(Callers) /\ MaxSources \in Nat /\ MaxFired \in Nat

Sources == 1..MaxSources
None == 0

VARIABLES
    current, created, stopped,   \* Manager: sources[key], entries created, stopped
    refs, idle, state, ready, cancelled, done,   \* per entry
    failTimer,   \* entries whose self-recycle goroutine is pending
    tearing,     \* entries whose teardown goroutine is pending
    recycled,    \* entry -> calls of onRecycle
    fired,       \* idle-timer callbacks that have started and not reached m.mu
    cpc, entry   \* caller: place in Acquire, and its entry

managerVars == <<current, created, stopped>>
countVars == <<refs, idle>>
pullVars == <<state, ready, cancelled, done, failTimer>>
tearVars == <<tearing, recycled>>
callerVars == <<cpc, entry>>
vars == <<managerVars, countVars, pullVars, tearVars, fired, callerVars>>

Init ==
    /\ current = None /\ created = 0 /\ stopped = FALSE
    /\ refs = [e \in Sources |-> 0]
    /\ idle = [e \in Sources |-> FALSE]
    /\ state = [e \in Sources |-> "none"]
    /\ ready = [e \in Sources |-> FALSE]
    /\ cancelled = [e \in Sources |-> FALSE]
    /\ done = [e \in Sources |-> FALSE]
    /\ failTimer = {}
    /\ tearing = {}
    /\ recycled = [e \in Sources |-> 0]
    /\ fired = 0
    /\ cpc = [c \in Callers |-> "out"]
    /\ entry = [c \in Callers |-> None]

-----------------------------------------------------------------------------
\* Acquire and Release.

\* Take a reference to the current entry and stop its idle timer, which does
\* not help if the timer has fired already.
Join(c, then) ==
    /\ current # None /\ ~stopped
    /\ refs' = [refs EXCEPT ![current] = @ + 1]
    /\ idle' = [idle EXCEPT ![current] = FALSE]
    /\ entry' = [entry EXCEPT ![c] = current]
    /\ cpc' = [cpc EXCEPT ![c] = then]
    /\ UNCHANGED <<managerVars, pullVars, tearVars, fired>>

AcquireExisting(c) == cpc[c] = "out" /\ Join(c, "check")

\* The resolver runs outside the lock.
AcquireNew(c) ==
    /\ cpc[c] = "out" /\ current = None /\ ~stopped
    /\ cpc' = [cpc EXCEPT ![c] = "resolve"]
    /\ UNCHANGED <<managerVars, countVars, pullVars, tearVars, fired, entry>>

\* No sub-stream, a resolver error, or the manager has stopped meanwhile.
ResolveFails(c) ==
    /\ cpc[c] = "resolve"
    /\ cpc' = [cpc EXCEPT ![c] = "out"]
    /\ UNCHANGED <<managerVars, countVars, pullVars, tearVars, fired, entry>>

\* acquireResolved: another Acquire may have won the race.
JoinResolved(c) == cpc[c] = "resolve" /\ Join(c, "wait")

CreateEntry(c) ==
    /\ cpc[c] = "resolve" /\ current = None /\ ~stopped
    /\ created < MaxSources
    /\ created' = created + 1
    /\ current' = created'
    /\ refs' = [refs EXCEPT ![created'] = 1]
    /\ state' = [state EXCEPT ![created'] = "starting"]
    /\ entry' = [entry EXCEPT ![c] = created']
    /\ cpc' = [cpc EXCEPT ![c] = "wait"]
    /\ UNCHANGED <<stopped, idle, ready, cancelled, done, failTimer, tearVars, fired>>

CheckState(c) ==
    /\ cpc[c] = "check"
    /\ cpc' = [cpc EXCEPT ![c] = IF state[entry[c]] = "failed" THEN "release" ELSE "wait"]
    /\ UNCHANGED <<managerVars, countVars, pullVars, tearVars, fired, entry>>

\* waitReady: at once when the parameters are there, else a select in which a
\* timeout may win even over parameters that came in the meantime.
WaitReady(c) ==
    /\ cpc[c] \in {"wait", "select"} /\ ready[entry[c]]
    /\ cpc' = [cpc EXCEPT ![c] = "holding"]
    /\ UNCHANGED <<managerVars, countVars, pullVars, tearVars, fired, entry>>

WaitSelect(c) ==
    /\ cpc[c] = "wait" /\ ~ready[entry[c]]
    /\ cpc' = [cpc EXCEPT ![c] = "select"]
    /\ UNCHANGED <<managerVars, countVars, pullVars, tearVars, fired, entry>>

\* Mutant: a failed Acquire keeps its reference.
WaitFailsKeepsRef(c) ==
    /\ cpc[c] = "select"
    /\ cpc' = [cpc EXCEPT ![c] = "out"]
    /\ entry' = [entry EXCEPT ![c] = None]
    /\ UNCHANGED <<managerVars, countVars, pullVars, tearVars, fired>>

\* The ready timeout, the caller's context, or the end of the pull.
WaitFails(c) ==
    /\ cpc[c] = "select"
    /\ cpc' = [cpc EXCEPT ![c] = "release"]
    /\ UNCHANGED <<managerVars, countVars, pullVars, tearVars, fired, entry>>

\* Release works on the key's entry, whichever it is by now.
Release(c) ==
    /\ cpc[c] \in {"holding", "release"}
    /\ cpc' = [cpc EXCEPT ![c] = "out"]
    /\ entry' = [entry EXCEPT ![c] = None]
    /\ IF current = None
       THEN UNCHANGED countVars
       ELSE /\ refs' = [refs EXCEPT ![current] = IF @ > 0 THEN @ - 1 ELSE 0]
            /\ idle' = [idle EXCEPT ![current] = @ \/ refs'[current] = 0]
    /\ UNCHANGED <<managerVars, pullVars, tearVars, fired>>

Acquire(c) ==
    \/ AcquireExisting(c) \/ AcquireNew(c) \/ ResolveFails(c) \/ JoinResolved(c)
    \/ CreateEntry(c) \/ CheckState(c) \/ WaitReady(c) \/ WaitSelect(c)
    \/ WaitFails(c)

-----------------------------------------------------------------------------
\* Recycling.

\* Mutant: the reference count is not looked at again.
RecycleInUse ==
    IF current = None
    THEN UNCHANGED <<current, idle, tearing>>
    ELSE /\ current' = None
         /\ idle' = [idle EXCEPT ![current] = FALSE]
         /\ tearing' = tearing \cup {current}

\* recycle(key, reason) under m.mu: nothing if the entry is gone or in use.
Recycle ==
    IF current = None \/ refs[current] > 0
    THEN UNCHANGED <<current, idle, tearing>>
    ELSE /\ current' = None
         /\ idle' = [idle EXCEPT ![current] = FALSE]
         /\ tearing' = tearing \cup {current}

\* The timer expires; its callback has yet to take the lock.
IdleFires(e) ==
    /\ idle[e] /\ e = current
    /\ fired < MaxFired
    /\ fired' = fired + 1
    /\ idle' = [idle EXCEPT ![e] = FALSE]
    /\ UNCHANGED <<managerVars, refs, pullVars, tearVars, callerVars>>

\* Mutant: a timer that fires does nothing.
IdleNoRecycle ==
    /\ fired > 0
    /\ fired' = fired - 1
    /\ UNCHANGED <<managerVars, countVars, pullVars, tearVars, callerVars>>

IdleRecycle ==
    /\ fired > 0
    /\ fired' = fired - 1
    /\ Recycle
    /\ UNCHANGED <<created, stopped, refs, pullVars, recycled, callerVars>>

\* The goroutine a failed pull leaves behind: after the idle timeout, or at
\* once when the entry is cancelled.
FailRecycle(e) ==
    /\ e \in failTimer
    /\ failTimer' = failTimer \ {e}
    /\ Recycle
    /\ UNCHANGED <<created, stopped, refs, state, ready, cancelled, done, recycled, fired,
                   callerVars>>

StopCamera ==
    /\ current # None
    /\ Recycle
    /\ UNCHANGED <<created, stopped, refs, pullVars, recycled, fired, callerVars>>

\* The detached goroutine: cancel, wait for the pull, call onRecycle.
Cancel(e) ==
    /\ e \in tearing /\ ~cancelled[e]
    /\ cancelled' = [cancelled EXCEPT ![e] = TRUE]
    /\ UNCHANGED <<managerVars, countVars, state, ready, done, failTimer, tearVars, fired,
                   callerVars>>

\* Mutant: the end of the pull is not awaited.
OnRecycleAtOnce(e) ==
    /\ e \in tearing /\ cancelled[e]
    /\ tearing' = tearing \ {e}
    /\ recycled' = [recycled EXCEPT ![e] = @ + 1]
    /\ UNCHANGED <<managerVars, countVars, pullVars, fired, callerVars>>

OnRecycle(e) ==
    /\ e \in tearing /\ cancelled[e] /\ done[e]
    /\ tearing' = tearing \ {e}
    /\ recycled' = [recycled EXCEPT ![e] = @ + 1]
    /\ UNCHANGED <<managerVars, countVars, pullVars, fired, callerVars>>

\* Mutant: the entries are dropped, not torn down.
StopForgets ==
    /\ ~stopped
    /\ stopped' = TRUE
    /\ current' = None
    /\ UNCHANGED <<created, countVars, pullVars, tearVars, fired, callerVars>>

\* Stop takes every entry out under the lock and tears them down after it.
Stop ==
    /\ ~stopped
    /\ stopped' = TRUE
    /\ current' = None
    /\ tearing' = IF current = None THEN tearing ELSE tearing \cup {current}
    /\ UNCHANGED <<created, countVars, pullVars, recycled, fired, callerVars>>

Teardown(e) == Cancel(e) \/ OnRecycle(e)

-----------------------------------------------------------------------------
\* The pull of entry e.

Running(e) == state[e] # "none" /\ ~done[e]

\* A session reaches PLAY and publishes the codec parameters.
GoLive(e) ==
    /\ Running(e) /\ ~cancelled[e] /\ state[e] # "live"
    /\ state' = [state EXCEPT ![e] = "live"]
    /\ ready' = [ready EXCEPT ![e] = TRUE]
    /\ UNCHANGED <<managerVars, countVars, cancelled, done, failTimer, tearVars, fired,
                   callerVars>>

\* The session ends or stalls; the loop backs off and dials again.
SessionEnds(e) ==
    /\ Running(e) /\ ~cancelled[e] /\ state[e] \in {"starting", "live"}
    /\ state' = [state EXCEPT ![e] = "reconnecting"]
    /\ UNCHANGED <<managerVars, countVars, ready, cancelled, done, failTimer, tearVars,
                   fired, callerVars>>

\* errNoVideo: the pull is over, and will recycle its entry.
FailsForGood(e) ==
    /\ Running(e) /\ ~cancelled[e] /\ state[e] # "live"
    /\ state' = [state EXCEPT ![e] = "failed"]
    /\ done' = [done EXCEPT ![e] = TRUE]
    /\ failTimer' = failTimer \cup {e}
    /\ UNCHANGED <<managerVars, countVars, ready, cancelled, tearVars, fired, callerVars>>

PullReturns(e) ==
    /\ Running(e) /\ cancelled[e]
    /\ done' = [done EXCEPT ![e] = TRUE]
    /\ UNCHANGED <<managerVars, countVars, state, ready, cancelled, failTimer, tearVars,
                   fired, callerVars>>

Pull(e) == GoLive(e) \/ SessionEnds(e) \/ FailsForGood(e) \/ PullReturns(e)

-----------------------------------------------------------------------------
Next ==
    \/ \E c \in Callers : Acquire(c) \/ Release(c)
    \/ \E e \in Sources : Pull(e) \/ IdleFires(e) \/ FailRecycle(e) \/ Teardown(e)
    \/ IdleRecycle \/ StopCamera \/ Stop

Spec == Init /\ [][Next]_vars

-----------------------------------------------------------------------------
\* Properties.

TypeOK ==
    /\ current \in Sources \cup {None}
    /\ created \in 0..MaxSources
    /\ stopped \in BOOLEAN
    /\ refs \in [Sources -> Nat]
    /\ idle \in [Sources -> BOOLEAN]
    /\ state \in [Sources -> {"none", "starting", "live", "reconnecting", "failed"}]
    /\ ready \in [Sources -> BOOLEAN]
    /\ cancelled \in [Sources -> BOOLEAN]
    /\ done \in [Sources -> BOOLEAN]
    /\ failTimer \subseteq Sources
    /\ tearing \subseteq Sources
    /\ recycled \in [Sources -> Nat]
    /\ fired \in 0..MaxFired
    /\ cpc \in [Callers -> {"out", "resolve", "check", "wait", "select", "holding",
                        "release"}]
    /\ entry \in [Callers -> Sources \cup {None}]

\* The reference count of the current entry is the number of callers between
\* a join and their Release, although Release finds the entry by its key: no
\* interleaving makes a Release hit another entry or a reference leak.
RefsExact ==
    current # None => refs[current] = Cardinality({c \in Callers : entry[c] = current})

\* An entry nobody refers to has an idle timer, or one that has just fired:
\* it cannot stay for ever.
UnusedIsTimed == current # None /\ refs[current] = 0 => idle[current] \/ fired > 0

\* onRecycle runs at most once per entry, when its pull has ended and the
\* entry is out of the map: consumers are never dropped from a live source.
RecycledOnce ==
    \A e \in Sources : recycled[e] > 0 =>
        recycled[e] = 1 /\ done[e] /\ e # current /\ e \notin tearing

\* The invariant of the module: types, an idle timer behind every unused entry,
\* and a single, late onRecycle.
Inv == TypeOK /\ UnusedIsTimed /\ RecycledOnce

\* The source each caller has been given.
Holds == [c \in Callers |-> IF cpc[c] = "holding" THEN entry[c] ELSE None]

Lease == INSTANCE SourceLease WITH
    source <- current,
    opened <- created,
    holds <- Holds,
    shut <- stopped

\* The manager keeps the promise of SourceLease: however resolves, timers and
\* failures interleave, a source that somebody holds is not taken away, and
\* nobody is given one that is no longer current.
LeaseSpec == Lease!Spec

\* Fairness: timers fire and goroutines run; viewers and the camera owe nothing.
FairSpec ==
    /\ Spec
    /\ WF_vars(IdleRecycle)
    /\ \A e \in Sources :
         /\ WF_vars(IdleFires(e)) /\ WF_vars(FailRecycle(e))
         /\ WF_vars(Teardown(e)) /\ WF_vars(PullReturns(e))

\* A source nobody refers to any more is taken out, or referred to again.
UnusedGoes == \A e \in Sources :
    current = e /\ refs[e] = 0 ~> current # e \/ refs[e] > 0

\* A source that is out of the map has its pull ended and its consumers told.
TornDown == \A e \in Sources : e <= created /\ e # current ~> recycled[e] = 1
=============================================================================
