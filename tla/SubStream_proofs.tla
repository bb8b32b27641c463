-------------------------- MODULE SubStream_proofs --------------------------
(***************************************************************************)
(* Theorems about SubStream: the reference count is exact, and the manager *)
(* implements SourceLease.                                                 *)
(*                                                                         *)
(* Release finds the entry by its key.  What makes that right is HolderInv *)
(* below: until the manager stops, whoever refers to an entry refers to    *)
(* the current one, because an entry in use is never taken out.            *)
(***************************************************************************)
EXTENDS SubStream, FiniteSetTheorems, TLAPS

Referring == {"check", "wait", "select", "holding", "release"}

HolderInv ==
    /\ current <= created
    /\ stopped => current = None
    /\ \A c \in Callers :
         /\ cpc[c] \in Referring <=> entry[c] # None
         /\ entry[c] <= created
         /\ entry[c] \in {None, current} \/ stopped

IInv == TypeOK /\ HolderInv /\ RefsExact

Users(e) == {c \in Callers : entry[c] = e}

LEMMA UsersFinite == \A e : IsFiniteSet(Users(e))
  <1> SUFFICES ASSUME NEW e
               PROVE  IsFiniteSet(Users(e))
    OBVIOUS
  <1> QED BY SubStreamAssumption, FS_Subset DEF Users

\* One more caller refers to e, or one less, and the count follows.
LEMMA UsersGrow ==
  ASSUME TypeOK, NEW c \in Callers, NEW e \in Sources, entry[c] # e,
         entry' = [entry EXCEPT ![c] = e]
  PROVE  Cardinality(Users(e)') = Cardinality(Users(e)) + 1
  <1>1. Users(e)' = Users(e) \cup {c} /\ c \notin Users(e)
    BY DEF Users, TypeOK
  <1> QED BY <1>1, UsersFinite, FS_AddElement

LEMMA UsersShrink ==
  ASSUME TypeOK, NEW c \in Callers, NEW e \in Sources, entry[c] = e,
         entry' = [entry EXCEPT ![c] = None]
  PROVE  Cardinality(Users(e)') = Cardinality(Users(e)) - 1
  <1>1. Users(e)' = Users(e) \ {c} /\ c \in Users(e)
    BY DEF Users, TypeOK, Sources, None
  <1> QED BY <1>1, UsersFinite, FS_RemoveElement

LEMMA NoUsers ==
  ASSUME NEW e, Cardinality(Users(e)) = 0
  PROVE  \A c \in Callers : entry[c] # e
  <1>1. Users(e) = {}
    BY UsersFinite, FS_EmptySet
  <1> QED BY <1>1 DEF Users

-----------------------------------------------------------------------------
LEMMA InitInv == Init => IInv
  <1> SUFFICES ASSUME Init
               PROVE  IInv
    OBVIOUS
  <1> USE SubStreamAssumption DEF Init, Sources, None
  <1>1. stopped \in BOOLEAN
    BY Zenon
  <1>2. TypeOK
    BY <1>1 DEF TypeOK
  <1>3. HolderInv /\ RefsExact
    BY DEF HolderInv, RefsExact, Referring
  <1> QED BY <1>2, <1>3 DEF IInv

\* Steps that take no part in the counting.
LEMMA QuietStep ==
  ASSUME IInv, TypeOK', UNCHANGED <<current, created, stopped, refs, cpc, entry>>
  PROVE  IInv'
  BY DEF IInv, HolderInv, RefsExact

LEMMA PullStep ==
  ASSUME IInv, NEW e \in Sources,
         Pull(e) \/ IdleFires(e) \/ Teardown(e)
  PROVE  IInv'
  <1> USE SubStreamAssumption DEF IInv, TypeOK, managerVars, countVars, pullVars, tearVars,
        callerVars, Sources, None
  <1>1. CASE GoLive(e)
    BY <1>1, QuietStep DEF GoLive
  <1>2. CASE SessionEnds(e)
    BY <1>2, QuietStep DEF SessionEnds
  <1>3. CASE FailsForGood(e)
    BY <1>3, QuietStep DEF FailsForGood
  <1>4. CASE PullReturns(e)
    BY <1>4, QuietStep DEF PullReturns
  <1>5. CASE IdleFires(e)
    <2>1. fired' \in 0..MaxFired
      BY <1>5 DEF IdleFires
    <2>2. TypeOK'
      BY <1>5, <2>1 DEF IdleFires
    <2> QED BY <1>5, <2>2, QuietStep DEF IdleFires
  <1>6. CASE Cancel(e)
    BY <1>6, QuietStep DEF Cancel
  <1>7. CASE OnRecycle(e)
    <2>1. recycled' \in [Sources -> Nat]
      BY <1>7 DEF OnRecycle
    <2>2. TypeOK'
      BY <1>7, <2>1 DEF OnRecycle
    <2> QED BY <1>7, <2>2, QuietStep DEF OnRecycle
  <1> QED BY <1>1, <1>2, <1>3, <1>4, <1>5, <1>6, <1>7 DEF Pull, Teardown

\* An entry is taken out by Recycle only when nobody refers to it.
LEMMA RecycleStep ==
  ASSUME IInv, TypeOK', Recycle, UNCHANGED <<created, stopped, refs, cpc, entry>>
  PROVE  IInv'
  <1>1. CASE current' = current
    BY <1>1, QuietStep
  <1>2. CASE current' # current
    <2>1. current # None /\ current' = None /\ refs[current] = 0 /\ current \in Sources
      BY <1>2 DEF Recycle, IInv, TypeOK, Sources, None
    <2>2. \A c \in Callers : entry[c] # current
      BY <2>1, NoUsers DEF IInv, RefsExact, Users
    <2> QED BY <2>1, <2>2 DEF IInv, HolderInv, RefsExact, None, TypeOK
  <1> QED BY <1>1, <1>2

LEMMA ManagerStep ==
  ASSUME IInv, IdleRecycle \/ StopCamera \/ Stop \/ \E e \in Sources : FailRecycle(e)
  PROVE  IInv'
  <1> USE SubStreamAssumption DEF IInv, managerVars, countVars, pullVars, tearVars, callerVars
  <1>1. CASE IdleRecycle
    <2>1. fired' \in 0..MaxFired
      BY <1>1 DEF TypeOK, IdleRecycle
    <2>2. TypeOK'
      BY <1>1, <2>1 DEF TypeOK, IdleRecycle, Recycle, Sources, None
    <2> QED BY <1>1, <2>2, RecycleStep DEF IdleRecycle
  <1>2. CASE StopCamera
    <2>1. TypeOK'
      BY <1>2 DEF TypeOK, StopCamera, Recycle, Sources, None
    <2> QED BY <1>2, <2>1, RecycleStep DEF StopCamera
  <1>3. ASSUME NEW e \in Sources, FailRecycle(e)
        PROVE  IInv'
    <2>1. TypeOK'
      BY <1>3, ZenonT(60) DEF TypeOK, FailRecycle, Recycle, Sources, None
    <2> QED BY <1>3, <2>1, RecycleStep DEF FailRecycle
  <1>4. CASE Stop
    <2>1. TypeOK'
      BY <1>4 DEF TypeOK, Stop, Sources, None
    <2> QED BY <1>4, <2>1 DEF Stop, HolderInv, RefsExact, TypeOK, None
  <1> QED BY <1>1, <1>2, <1>3, <1>4

LEMMA JoinStep ==
  ASSUME IInv, NEW c \in Callers, NEW then \in {"check", "wait"}, Join(c, then),
         cpc[c] \notin Referring
  PROVE  IInv'
  <1> USE SubStreamAssumption DEF IInv, managerVars, countVars, pullVars, tearVars, callerVars
  <1>1. /\ current \in Sources /\ entry[c] = None /\ ~stopped
        /\ entry' = [entry EXCEPT ![c] = current]
        /\ refs' = [refs EXCEPT ![current] = @ + 1]
        /\ cpc' = [cpc EXCEPT ![c] = then]
        /\ UNCHANGED <<current, created, stopped>>
    BY DEF Join, TypeOK, HolderInv, None
  <1>2. TypeOK'
    BY <1>1 DEF TypeOK, Join, Sources, None
  <1>3. HolderInv'
    BY <1>1 DEF HolderInv, TypeOK, Referring, Sources, None
  <1>4. entry[c] # current
    BY <1>1 DEF Sources, None
  <1>5. Cardinality(Users(current)') = Cardinality(Users(current)) + 1
    BY <1>1, <1>4, UsersGrow
  <1>6. RefsExact'
    BY <1>1, <1>5 DEF RefsExact, Users, TypeOK, Sources, None
  <1> QED BY <1>2, <1>3, <1>6

LEMMA CreateStep ==
  ASSUME IInv, NEW c \in Callers, CreateEntry(c)
  PROVE  IInv'
  <1> USE SubStreamAssumption DEF IInv, managerVars, countVars, pullVars, tearVars, callerVars
  <1> DEFINE new == created + 1
  <1>1. /\ new \in Sources /\ entry[c] = None /\ ~stopped
        /\ current' = new /\ created' = new
        /\ entry' = [entry EXCEPT ![c] = new]
        /\ refs' = [refs EXCEPT ![new] = 1]
        /\ cpc' = [cpc EXCEPT ![c] = "wait"]
        /\ current = None /\ stopped' = stopped
    BY DEF CreateEntry, TypeOK, HolderInv, Referring, Sources
  <1>2. TypeOK'
    BY <1>1 DEF TypeOK, CreateEntry, Sources, None
  <1>3. \A d \in Callers : entry[d] = None
    BY <1>1 DEF HolderInv
  <1>4. HolderInv'
    BY <1>1, <1>3 DEF HolderInv, TypeOK, Referring, Sources, None
  <1>5. Cardinality({d \in Callers : entry'[d] = new}) = 1
    <2>1. \A d \in Callers : entry'[d] = IF d = c THEN new ELSE None
      BY <1>1, <1>3 DEF TypeOK
    <2>2. new # None
      BY <1>1 DEF Sources, None
    <2>3. {d \in Callers : entry'[d] = new} = {c}
      BY <2>1, <2>2, Zenon
    <2> QED BY <2>3, FS_Singleton
  <1>6. RefsExact'
    <2>1. refs'[new] = 1
      BY <1>1 DEF TypeOK
    <2> QED BY <1>1, <1>5, <2>1 DEF RefsExact
  <1> QED BY <1>2, <1>4, <1>6

LEMMA ReleaseStep ==
  ASSUME IInv, NEW c \in Callers, Release(c)
  PROVE  IInv'
  <1> USE SubStreamAssumption DEF IInv, managerVars, countVars, pullVars, tearVars, callerVars
  <1>1. /\ cpc[c] \in Referring /\ entry[c] # None
        /\ cpc' = [cpc EXCEPT ![c] = "out"]
        /\ entry' = [entry EXCEPT ![c] = None]
        /\ UNCHANGED <<current, created, stopped>>
    BY DEF Release, HolderInv, Referring
  <1>2. TypeOK'
    <2>1. refs' \in [Sources -> Nat]
      BY DEF Release, TypeOK
    <2>2. CASE current = None
      BY <1>1, <2>1, <2>2 DEF Release, TypeOK
    <2>3. CASE current # None
      <3>1. (idle[current] \/ refs'[current] = 0) \in BOOLEAN
        OBVIOUS
      <3>2. idle' = [idle EXCEPT ![current] = idle[current] \/ refs'[current] = 0]
        BY <2>3, Zenon DEF Release
      <3>3. idle' \in [Sources -> BOOLEAN]
        BY <3>1, <3>2, Zenon DEF TypeOK
      <3> QED BY <1>1, <2>1, <3>3 DEF Release, TypeOK
    <2> QED BY <2>2, <2>3
  <1>3. HolderInv'
    BY <1>1 DEF HolderInv, TypeOK, Referring, None
  <1>4. RefsExact'
    <2>1. CASE current = None
      BY <1>1, <2>1 DEF RefsExact
    <2>2. CASE current # None
      <3>1. entry[c] = current /\ current \in Sources
        BY <1>1, <2>2 DEF HolderInv, TypeOK
      <3>2. Cardinality(Users(current)') = Cardinality(Users(current)) - 1
        BY <1>1, <3>1, UsersShrink
      <3>3. refs[current] = Cardinality(Users(current)) /\ refs[current] # 0
        BY <2>2, <3>1, NoUsers DEF RefsExact, Users
      <3>4. refs'[current] = refs[current] - 1
        BY <2>2, <3>1, <3>3 DEF Release, TypeOK
      <3> QED BY <1>1, <3>2, <3>3, <3>4 DEF RefsExact, Users
    <2> QED BY <2>1, <2>2
  <1> QED BY <1>2, <1>3, <1>4

\* The places in Acquire at which a caller does not touch the entry.
LEMMA CallerMoves ==
  ASSUME IInv, NEW c \in Callers,
         AcquireNew(c) \/ ResolveFails(c) \/ CheckState(c) \/ WaitReady(c) \/ WaitSelect(c)
           \/ WaitFails(c)
  PROVE  IInv'
  <1>1. PICK then \in {"out", "resolve", "wait", "holding", "select", "release"} :
          /\ cpc' = [cpc EXCEPT ![c] = then]
          /\ cpc[c] \in Referring <=> then \in Referring
          /\ UNCHANGED <<managerVars, countVars, pullVars, tearVars, fired, entry>>
    BY DEF AcquireNew, ResolveFails, CheckState, WaitReady, WaitSelect, WaitFails, Referring
  <1>2. TypeOK'
    BY <1>1 DEF IInv, TypeOK, managerVars, countVars, pullVars, tearVars
  <1> QED
    BY <1>1, <1>2 DEF IInv, HolderInv, RefsExact, TypeOK, managerVars, countVars

LEMMA NextInv == IInv /\ [Next]_vars => IInv'
  <1> SUFFICES ASSUME IInv, [Next]_vars
               PROVE  IInv'
    OBVIOUS
  <1>1. CASE UNCHANGED vars
    BY <1>1 DEF IInv, TypeOK, HolderInv, RefsExact, vars, managerVars, countVars, pullVars,
                tearVars, callerVars
  <1>2. ASSUME NEW c \in Callers, Acquire(c)
        PROVE  IInv'
    BY <1>2, JoinStep, CreateStep, CallerMoves
       DEF Acquire, AcquireExisting, JoinResolved, Referring
  <1> QED BY <1>1, <1>2, ReleaseStep, PullStep, ManagerStep DEF Next

\* The types, the holders' invariant and the exact count, in every behaviour.
THEOREM InvHolds == Spec => []IInv
  BY InitInv, NextInv, PTL DEF Spec

\* However Acquires, Releases, late timers and failures interleave, the count
\* of the current entry is the number of callers that refer to it.
THEOREM CountExact == Spec => []RefsExact
  <1>1. IInv => RefsExact
    BY DEF IInv
  <1> QED BY <1>1, InvHolds, PTL

-----------------------------------------------------------------------------
\* Timers and teardowns.  An entry that is current, or not created yet, has not
\* been handed to a teardown, and the one that is handed over is told once.

OnceInv ==
    \A e \in Sources :
        /\ e = current \/ e > created => recycled[e] = 0 /\ e \notin tearing
        /\ e \in tearing => recycled[e] = 0
        /\ recycled[e] > 0 => recycled[e] = 1 /\ done[e]

LifeInv == UnusedIsTimed /\ OnceInv

LEMMA InitLife == Init => LifeInv
  BY DEF Init, LifeInv, UnusedIsTimed, OnceInv, None

\* A recycle hands the current entry over, or leaves one that is in use.
LEMMA RecycleLife ==
  ASSUME IInv, LifeInv, Recycle, UNCHANGED <<created, refs, done, recycled>>,
         fired' = fired \/ current = None \/ refs[current] # 0 \/ current' = None
  PROVE  LifeInv'
  <1> USE SubStreamAssumption DEF IInv, TypeOK, Sources, None
  <1>1. UnusedIsTimed'
    BY DEF LifeInv, UnusedIsTimed, Recycle
  <1>2. OnceInv'
    BY DEF LifeInv, OnceInv, Recycle, HolderInv
  <1> QED BY <1>1, <1>2 DEF LifeInv

LEMMA PullLife ==
  ASSUME IInv, LifeInv, NEW e \in Sources, Pull(e) \/ IdleFires(e) \/ Teardown(e)
  PROVE  LifeInv'
  <1> USE SubStreamAssumption DEF IInv, TypeOK, managerVars, countVars, pullVars, tearVars, Sources, None
  <1>1. CASE Pull(e) \/ Cancel(e)
    BY <1>1, SMTT(40) DEF LifeInv, UnusedIsTimed, OnceInv, Pull, GoLive, SessionEnds, FailsForGood,
                PullReturns, Cancel
  <1>2. CASE IdleFires(e)
    BY <1>2 DEF LifeInv, UnusedIsTimed, OnceInv, IdleFires
  <1>3. CASE OnRecycle(e)
    <2>1. UnusedIsTimed'
      BY <1>3 DEF LifeInv, UnusedIsTimed, OnRecycle
    <2>2. OnceInv'
      BY <1>3 DEF LifeInv, OnceInv, OnRecycle
    <2> QED BY <2>1, <2>2 DEF LifeInv
  <1> QED BY <1>1, <1>2, <1>3 DEF Teardown

LEMMA ManagerLife ==
  ASSUME IInv, LifeInv, IdleRecycle \/ StopCamera \/ Stop \/ \E e \in Sources : FailRecycle(e)
  PROVE  LifeInv'
  <1> USE SubStreamAssumption DEF managerVars, countVars, pullVars, tearVars
  <1>1. CASE IdleRecycle
    <2>1. current = None \/ refs[current] # 0 \/ current' = None
      BY <1>1, SubStreamAssumption DEF IdleRecycle, Recycle, IInv, TypeOK, Sources, None
    <2> QED BY <1>1, <2>1, RecycleLife DEF IdleRecycle
  <1>2. CASE StopCamera
    BY <1>2, RecycleLife DEF StopCamera
  <1>3. ASSUME NEW e \in Sources, FailRecycle(e)
        PROVE  LifeInv'
    BY <1>3, RecycleLife DEF FailRecycle
  <1>4. CASE Stop
    BY <1>4 DEF Stop, LifeInv, UnusedIsTimed, OnceInv, IInv, HolderInv, TypeOK, Sources, None
  <1> QED BY <1>1, <1>2, <1>3, <1>4

LEMMA CallerLife ==
  ASSUME IInv, LifeInv, NEW c \in Callers, Acquire(c) \/ Release(c)
  PROVE  LifeInv'
  <1> USE SubStreamAssumption DEF IInv, TypeOK, managerVars, countVars, pullVars, tearVars, Sources, None
  <1>1. CASE AcquireExisting(c) \/ JoinResolved(c)
    <2>1. current \in Sources /\ refs'[current'] = refs[current] + 1
      BY <1>1 DEF AcquireExisting, JoinResolved, Join
    <2>2. UnusedIsTimed'
      BY <1>1, <2>1 DEF UnusedIsTimed
    <2>3. OnceInv'
      BY <1>1 DEF AcquireExisting, JoinResolved, Join, LifeInv, OnceInv
    <2> QED BY <2>2, <2>3 DEF LifeInv
  <1>2. CASE CreateEntry(c)
    BY <1>2 DEF CreateEntry, LifeInv, UnusedIsTimed, OnceInv
  <1>3. CASE Release(c)
    <2>1. UnusedIsTimed'
      BY <1>3 DEF Release, LifeInv, UnusedIsTimed
    <2>2. OnceInv'
      BY <1>3 DEF Release, LifeInv, OnceInv
    <2> QED BY <2>1, <2>2 DEF LifeInv
  <1>4. CASE UNCHANGED <<managerVars, countVars, pullVars, tearVars, fired>>
    BY <1>4 DEF LifeInv, UnusedIsTimed, OnceInv
  <1> QED
    BY <1>1, <1>2, <1>3, <1>4
       DEF Acquire, AcquireNew, ResolveFails, CheckState, WaitReady, WaitSelect, WaitFails

\* In every behaviour the types hold, an entry nobody refers to has a timer that
\* will recycle it, and its consumers are told at most once, after its pull.
THEOREM EntriesEnd == Spec => []Inv
  <1>1. Init => IInv /\ LifeInv
    BY InitInv, InitLife
  <1>2. IInv /\ LifeInv /\ [Next]_vars => (IInv /\ LifeInv)'
    <2> SUFFICES ASSUME IInv, LifeInv, [Next]_vars
                 PROVE  LifeInv'
      BY NextInv
    <2>1. CASE UNCHANGED vars
      BY <2>1 DEF vars, managerVars, countVars, pullVars, tearVars, LifeInv, UnusedIsTimed,
                  OnceInv
    <2> QED BY <2>1, PullLife, ManagerLife, CallerLife DEF Next
  <1>3. IInv /\ LifeInv => Inv
    BY DEF IInv, TypeOK, LifeInv, OnceInv, RecycledOnce, Inv, Sources
  <1> QED BY <1>1, <1>2, <1>3, PTL DEF Spec

-----------------------------------------------------------------------------
\* The refinement.

\* A step after which the same entry is current and everyone holds what they
\* held is invisible to the lease.
LEMMA Stutters ==
  ASSUME UNCHANGED <<current, created, stopped, Holds>>
  PROVE  UNCHANGED Lease!vars
  BY DEF Lease!vars

LEMMA LeaseInit == Init => Lease!Init
  BY DEF Init, Lease!Init, Holds, Lease!None, None

\* Acquire and Release: a creation opens the source, the end of the wait
\* grants it, the Release of a holder drops it.
LEMMA LeaseCaller ==
  ASSUME IInv, IInv', NEW c \in Callers, Acquire(c) \/ Release(c)
  PROVE  [Lease!Next]_(Lease!vars)
  <1> USE SubStreamAssumption DEF IInv, TypeOK, managerVars, callerVars
  <1>1. CASE CreateEntry(c)
    <2>1. Holds' = Holds
      BY <1>1 DEF CreateEntry, Holds
    <2>2. Lease!Open
      BY <1>1, <2>1 DEF CreateEntry, Lease!Open, Lease!None, None
    <2> QED BY <2>2 DEF Lease!Next
  <1>2. CASE WaitReady(c)
    <2>1. entry[c] \in Sources /\ entry[c] <= created
      BY <1>2 DEF WaitReady, HolderInv, Referring, None
    <2>2. entry[c] = current \/ stopped
      BY <1>2, <2>1 DEF HolderInv, None, Sources
    <2>3. Holds[c] = None /\ Holds' = [Holds EXCEPT ![c] = entry[c]]
      BY <1>2 DEF WaitReady, Holds
    <2>4. Lease!Grant(c)
      BY <1>2, <2>1, <2>2, <2>3 DEF WaitReady, Lease!Grant, Lease!Sources, Sources,
         Lease!None, None
    <2> QED BY <2>4 DEF Lease!Next
  <1>3. CASE Release(c) /\ cpc[c] = "holding"
    <2>1. entry[c] # None
      BY <1>3 DEF HolderInv, Referring
    <2>2. Holds[c] # None /\ Holds' = [Holds EXCEPT ![c] = None]
      BY <1>3, <2>1 DEF Release, Holds
    <2>3. Lease!Drop(c)
      BY <1>3, <2>2 DEF Release, Lease!Drop, Lease!None, None
    <2> QED BY <2>3 DEF Lease!Next
  <1>4. CASE Release(c) /\ cpc[c] = "release"
    <2>1. Holds' = Holds
      BY <1>4 DEF Release, Holds
    <2> QED BY <1>4, <2>1, Stutters DEF Release
  <1>5. CASE AcquireExisting(c) \/ JoinResolved(c)
    <2>1. Holds' = Holds
      BY <1>5 DEF AcquireExisting, JoinResolved, Join, Holds
    <2> QED BY <1>5, <2>1, Stutters DEF AcquireExisting, JoinResolved, Join
  <1>6. CASE AcquireNew(c) \/ ResolveFails(c) \/ CheckState(c) \/ WaitSelect(c)
               \/ WaitFails(c)
    <2>1. Holds' = Holds
      BY <1>6 DEF AcquireNew, ResolveFails, CheckState, WaitSelect, WaitFails, Holds
    <2> QED
      BY <1>6, <2>1, Stutters
         DEF AcquireNew, ResolveFails, CheckState, WaitSelect, WaitFails
  <1>7. Release(c) => cpc[c] \in {"holding", "release"}
    BY DEF Release
  <1> QED BY <1>1, <1>2, <1>3, <1>4, <1>5, <1>6, <1>7 DEF Acquire

\* A recycle that takes the entry out expires a source that nobody holds.
LEMMA LeaseRecycle ==
  ASSUME IInv, Recycle, UNCHANGED <<created, stopped, cpc, entry>>
  PROVE  [Lease!Next]_(Lease!vars)
  <1>1. Holds' = Holds
    BY DEF Holds
  <1>2. CASE current' = current
    BY <1>1, <1>2, Stutters
  <1>3. CASE current' # current
    <2>1. current # None /\ current' = None /\ refs[current] = 0 /\ current \in Sources
      BY <1>3 DEF Recycle, IInv, TypeOK, Sources, None
    <2>2. \A c \in Callers : entry[c] # current
      BY <2>1, NoUsers DEF IInv, RefsExact, Users
    <2>3. \A c \in Callers : Holds[c] # current
      BY <2>1, <2>2 DEF Holds
    <2>4. Lease!Expire
      BY <1>1, <2>1, <2>3 DEF Lease!Expire, Lease!None, None
    <2> QED BY <2>4 DEF Lease!Next
  <1> QED BY <1>2, <1>3

LEMMA LeaseStep == IInv /\ IInv' /\ [Next]_vars => [Lease!Next]_(Lease!vars)
  <1> SUFFICES ASSUME IInv, IInv', [Next]_vars
               PROVE  [Lease!Next]_(Lease!vars)
    OBVIOUS
  <1> USE SubStreamAssumption DEF managerVars, callerVars
  <1>1. ASSUME NEW e \in Sources, Pull(e) \/ IdleFires(e) \/ Teardown(e)
        PROVE  [Lease!Next]_(Lease!vars)
    <2>1. UNCHANGED <<current, created, stopped, cpc, entry>>
      BY <1>1 DEF Pull, GoLive, SessionEnds, FailsForGood, PullReturns, IdleFires,
         Teardown, Cancel, OnRecycle
    <2>2. Holds' = Holds
      BY <2>1 DEF Holds
    <2> QED BY <2>1, <2>2, Stutters
  <1>2. ASSUME IdleRecycle \/ StopCamera \/ \E e \in Sources : FailRecycle(e)
        PROVE  [Lease!Next]_(Lease!vars)
    BY <1>2, LeaseRecycle DEF IdleRecycle, StopCamera, FailRecycle
  <1>3. CASE Stop
    <2>1. Holds' = Holds
      BY <1>3 DEF Stop, Holds
    <2>2. Lease!Shut
      BY <1>3, <2>1 DEF Stop, Lease!Shut, Lease!None, None
    <2> QED BY <2>2 DEF Lease!Next
  <1>4. CASE UNCHANGED vars
    <2>1. Holds' = Holds
      BY <1>4 DEF vars, Holds
    <2> QED BY <1>4, <2>1, Stutters DEF vars
  <1> QED BY <1>1, <1>2, <1>3, <1>4, LeaseCaller DEF Next

\* Whatever the callers, timers and pulls do, the manager implements the
\* lease: a held source is never recycled, and grants are of the current one.
THEOREM ImplementsLease == Spec => LeaseSpec
  BY LeaseInit, LeaseStep, InvHolds, PTL DEF Spec, LeaseSpec, Lease!Spec
=============================================================================
