----------------------------- MODULE MergeLock -----------------------------
(***************************************************************************)
(* acquireMergeLock: one camera's lock in a sync.Map of mutexes, as the    *)
(* MergeManager (merge/manager.go:117) and the rolling coordinator         *)
(* (merge/rolling_live.go:435) have it.  The two differ in the release:    *)
(* the manager also deletes the entry, after it has unlocked the mutex.    *)
(* Its names are its own, so that one module can speak of it and of        *)
(* RollingMerge.                                                           *)
(***************************************************************************)
EXTENDS Naturals, FiniteSets

CONSTANTS Callers,
          MaxLocks,        \* bound: mutexes created
          NoLock

ASSUME MergeLockAssumption ==
    /\ MaxLocks \in Nat
    /\ NoLock \notin 1..MaxLocks

Locks == 1..MaxLocks

VARIABLES
    deleteOnRelease,  \* whose release it is: the manager's, or the coordinator's
    entry,    \* what the map holds for the camera
    made,     \* mutexes created so far
    locked,   \* mutexes that are locked
    place,    \* caller -> "idle", "try", "merging", "unlocked"
    mine      \* caller -> the mutex it loaded

lockVars == <<deleteOnRelease, entry, made, locked, place, mine>>

LockInit ==
    /\ deleteOnRelease \in BOOLEAN
    /\ entry = NoLock /\ made = 0 /\ locked = {}
    /\ place = [c \in Callers |-> "idle"]
    /\ mine = [c \in Callers |-> NoLock]

\* Mutant: Store for LoadOrStore.
Store(c) ==
    /\ place[c] = "idle" /\ made < MaxLocks
    /\ made' = made + 1
    /\ entry' = made'
    /\ mine' = [mine EXCEPT ![c] = entry']
    /\ place' = [place EXCEPT ![c] = "try"]
    /\ UNCHANGED locked

LoadOrStore(c) ==
    /\ place[c] = "idle"
    /\ IF entry = NoLock
       THEN made < MaxLocks /\ made' = made + 1 /\ entry' = made'
       ELSE UNCHANGED <<entry, made>>
    /\ mine' = [mine EXCEPT ![c] = entry']
    /\ place' = [place EXCEPT ![c] = "try"]
    /\ UNCHANGED locked

TryLock(c) ==
    /\ place[c] = "try"
    /\ IF mine[c] \in locked
       THEN /\ UNCHANGED locked
            /\ place' = [place EXCEPT ![c] = "idle"] /\ mine' = [mine EXCEPT ![c] = NoLock]
       ELSE /\ locked' = locked \cup {mine[c]}
            /\ place' = [place EXCEPT ![c] = "merging"] /\ UNCHANGED mine
    /\ UNCHANGED <<entry, made>>

Unlock(c) ==
    /\ place[c] = "merging"
    /\ locked' = locked \ {mine[c]}
    /\ mine' = [mine EXCEPT ![c] = NoLock]
    /\ place' = [place EXCEPT ![c] = IF deleteOnRelease THEN "unlocked" ELSE "idle"]
    /\ UNCHANGED <<entry, made>>

\* Whatever the map holds by now goes.
Delete(c) ==
    /\ place[c] = "unlocked"
    /\ entry' = NoLock
    /\ place' = [place EXCEPT ![c] = "idle"]
    /\ UNCHANGED <<made, locked, mine>>

LockNext ==
    /\ \E c \in Callers : LoadOrStore(c) \/ TryLock(c) \/ Unlock(c) \/ Delete(c)
    /\ UNCHANGED deleteOnRelease

LockSpec == LockInit /\ [][LockNext]_lockVars

LockTypeOK ==
    /\ deleteOnRelease \in BOOLEAN
    /\ entry \in Locks \cup {NoLock} /\ made \in 0..MaxLocks /\ locked \subseteq Locks
    /\ place \in [Callers -> {"idle", "try", "merging", "unlocked"}]
    /\ mine \in [Callers -> Locks \cup {NoLock}]

\* The lock is there "to prevent concurrent merges for the same camera"
\* (manager.go:293).  With the coordinator's release two callers never merge at
\* the same time; with the manager's they do.
OneMerger ==
    ~deleteOnRelease => \A c, d \in Callers : place[c] = "merging" /\ place[d] = "merging" => c = d

\* Whatever the map does meanwhile, a mutex is locked by one caller, the one
\* that will unlock it: no lock is left behind and none is unlocked twice.
LockOwned ==
    /\ \A l \in locked : \E c \in Callers : place[c] = "merging" /\ mine[c] = l
    /\ \A c, d \in Callers :
          place[c] = "merging" /\ place[d] = "merging" /\ mine[c] = mine[d] => c = d
    /\ \A c \in Callers : place[c] = "merging" => mine[c] \in locked
=============================================================================
