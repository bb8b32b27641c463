------------------------ MODULE RollingMerge_proofs ------------------------
(***************************************************************************)
(* Theorems about RollingMerge: every invariant its run checks, for any    *)
(* number of segments and outputs and any setups.                          *)
(*                                                                         *)
(* RowsKnown, ListsKnown and EnginesKnown are what makes SourcesHaveFiles  *)
(* inductive: whatever is in hand has been recorded, outputs are not       *)
(* sources, and a file that is about to be removed has lost its row.       *)
(* KInv does it for FootageIsKept, TInv for TaskInputsKept, WInv and BInv  *)
(* for RowsCover, and CInv, with all of these and LockKept, for            *)
(* SegmentsCoveredOnce.                                                    *)
(*                                                                         *)
(* The last part is about MergeLock, the lock by which the engines exclude *)
(* each other.  MineMade says that only mutexes made so far are in the map *)
(* or in hand.  OneEntry is what the coordinator's release keeps and the   *)
(* manager's does not: everybody past LoadOrStore has the mutex of the     *)
(* map.                                                                    *)
(***************************************************************************)
EXTENDS RollingMerge, MergeLock, TLAPS, WellFoundedInduction, FiniteSetTheorems

\* TypeOK in two halves.
TypeStore ==
    /\ recorded \in 0..NumSegs /\ aged \in 0..NumSegs /\ ancient \in 0..NumSegs
    /\ content \in [Files -> [Segs -> Nat]]
    /\ disk \subseteq Files
    /\ row \in [Files -> RowType]
    /\ task \in [Segs -> {"none", "active", "done"}]
    /\ doomed \in Files \cup {None} /\ erased \subseteq Segs
    /\ crashes \in Nat /\ fails \in Nat

BucketType == [file : Files \cup {None}, row : Files \cup {None},
               start : Nat, end : Nat, wall : Nat]

TypeEngine ==
    /\ queue \subseteq Segs /\ retained \in BOOLEAN
    /\ bucket \in BucketType
    /\ lock \in {"free", "live", "backfill"}
    /\ pc \in [Engines -> {"idle", "classify", "merge", "commit", "query", "delete",
                           "sweep", "parse", "reset"}]
    /\ batch \in [Engines -> SUBSET Segs]
    /\ out \in [Engines -> Files \cup {None}]
    /\ listed \subseteq Segs /\ free \subseteq Segs

RowsKnown ==
    /\ \A s \in Segs : HasRow(s) => s <= recorded /\ row[s].file = s
    /\ \A f \in Outs : row[f].file \notin Segs

ListsKnown ==
    /\ bucket.file \notin Segs /\ bucket.row \notin Segs
    /\ \A s \in queue \cup listed : s <= recorded
    /\ doomed \in Segs => doomed <= recorded /\ ~HasRow(doomed)

EnginesKnown ==
    \A e \in Engines :
        /\ out[e] \notin Segs
        /\ \A s \in batch[e] : s <= recorded
        /\ pc[e] \in {"merge", "commit"} => batch[e] # {}
        /\ pc[e] \in {"query", "delete"} => \A s \in batch[e] : ~HasRow(s)
        /\ pc[e] \in {"commit", "query", "delete"} /\ e = "live" => out[e] \in Outs

IInv == TypeStore /\ TypeEngine /\ RowsKnown /\ ListsKnown /\ EnginesKnown /\ SourceRowHasFile

-----------------------------------------------------------------------------
\* Least and greatest elements.

LEMMA LeastExists ==
    ASSUME NEW S, S \subseteq Nat, S # {}
    PROVE  \E x \in S : \A y \in S : x <= y
<1>1. PICK x \in S : \A y \in S : ~ (<<y, x>> \in OpToRel(<, Nat))
  BY NatLessThanWellFounded, WFMin
<1>2. \A y \in S : ~(y < x)
  BY <1>1 DEF OpToRel
<1> QED BY <1>2

LEMMA MinIn ==
    ASSUME NEW S, S \subseteq Nat, S # {}
    PROVE  Min(S) \in S /\ \A y \in S : Min(S) <= y
BY LeastExists DEF Min

LEMMA MaxIn ==
    ASSUME NEW S, NEW n \in Int, S \subseteq Int, \A y \in S : y <= n, S # {}
    PROVE  Max(S) \in S /\ \A y \in S : y <= Max(S)
<1>1. {n - x : x \in S} \subseteq Nat
  OBVIOUS
<1>2. {n - x : x \in S} # {}
  OBVIOUS
<1>3. PICK d \in {n - x : x \in S} : \A y \in {n - x : x \in S} : d <= y
  BY <1>1, <1>2, LeastExists
<1>4. PICK m \in S : d = n - m
  OBVIOUS
<1>5. \A y \in S : n - y \in {n - x : x \in S}
  OBVIOUS
<1>6. \A y \in S : d <= n - y
  BY <1>3, <1>5
<1>7. \A y \in S : y <= m
  BY <1>4, <1>6
<1> QED BY <1>7 DEF Max

\* Two numbers.
LEMMA TwoOf ==
    \A a, b \in Int : Max({a, b}) \in {a, b} /\ a <= Max({a, b}) /\ b <= Max({a, b})
<1> TAKE a, b \in Int
<1>1. CASE a <= b
  BY <1>1, MaxIn
<1>2. CASE b <= a
  BY <1>2, MaxIn
<1> QED BY <1>1, <1>2

-----------------------------------------------------------------------------
\* What the operators on rows do.

LEMMA Consts ==
    /\ NumSegs \in Nat /\ MaxOut \in Nat /\ BatchSize \in Nat
    /\ Segs \subseteq Files /\ Outs \subseteq Files /\ Files = Segs \cup Outs
    /\ Segs \cap Outs = {} /\ None \notin Files
    /\ \A s \in Segs : s \in Nat /\ 1 <= s /\ s <= NumSegs
    /\ \A s \in 1..NumSegs : s \in Segs
    /\ Engines = {"live", "backfill", "legacy"}
BY RollingMergeAssumption DEF Segs, Outs, Files, None, Engines

LEMMA SegsEnds ==
    ASSUME NEW S \in SUBSET Segs, S # {}
    PROVE  Min(S) \in Segs /\ Max(S) \in Segs /\ Min(S) <= Max(S)
<1>1. S \subseteq Nat /\ \A y \in S : y <= NumSegs
  BY Consts
<1>2. Min(S) \in S /\ \A y \in S : Min(S) <= y
  BY <1>1, MinIn
<1>3. NumSegs \in Int /\ S \subseteq Int
  BY Consts
<1>4. Max(S) \in S
  BY <1>1, <1>3, MaxIn
<1> QED BY <1>1, <1>2, <1>4

LEMMA SpanType ==
    ASSUME NEW o \in Files \cup {None}, NEW S \in SUBSET Segs, S # {}
    PROVE  Span(o, S) \in RowType /\ Span(o, S).file = o /\ Span(o, S).status = "merged"
BY SegsEnds, Consts DEF Span, RowType

LEMMA SegsFinite == ASSUME NEW S \in SUBSET Segs PROVE Cardinality(S) \in Nat
<1>1. IsFiniteSet(Segs)
  BY Consts, FS_Interval DEF Segs
<1>2. IsFiniteSet(S)
  BY <1>1, FS_Subset
<1> QED BY <1>2, FS_CardinalityType

LEMMA BatchRowType ==
    ASSUME NEW o \in Files \cup {None}, NEW S \in SUBSET Segs, S # {}
    PROVE  BatchRow(o, S) \in RowType /\ BatchRow(o, S).file = o
BY SpanType, SegsFinite DEF BatchRow, RowType

LEMMA AdvanceType ==
    ASSUME NEW b \in BucketType, NEW S \in SUBSET Segs, S # {}
    PROVE  Advance(b, S) \in BucketType /\ Advance(b, S).file = b.file
                                        /\ Advance(b, S).row = b.row
<1>1. Min(S) \in Nat /\ Max(S) \in Nat /\ 1 <= Min(S) /\ Min(S) <= Max(S)
  BY SegsEnds, Consts
<1>2. b.start \in Nat /\ b.end \in Nat /\ b.wall \in Nat
  BY DEF BucketType
<1>3. CASE b.file = None
  <2>1. Min(S) - 1 \in Nat /\ Max(S) - Min(S) + 1 \in Nat
    BY <1>1
  <2>2. Advance(b, S) = [b EXCEPT !.start = Min(S) - 1, !.end = Max(S),
                                  !.wall = Max(S) - Min(S) + 1]
    BY <1>3, Zenon DEF Advance
  <2> QED BY <1>1, <2>1, <2>2 DEF BucketType
<1>4. CASE b.file # None
  <2> DEFINE gap == IF Max(S) > b.end THEN Max(S) - b.end ELSE 0
             D == {Cardinality(S), gap, Max(S) - Min(S) + 1}
             start == Min({b.start, Min(S) - 1})
             end == Max({b.end, Max(S)})
  <2>1. gap \in Nat /\ Cardinality(S) \in Nat
    BY <1>1, <1>2, SegsFinite
  <2>2. D \subseteq Nat /\ D # {} /\ \A y \in D : y <= Cardinality(S) + gap + (Max(S) - Min(S) + 1)
    BY <2>1, <1>1
  <2> HIDE DEF gap
  <2>3. Max(D) \in Nat
    <3>1. PICK n \in Int : n = Cardinality(S) + gap + (Max(S) - Min(S) + 1)
      BY <2>1, <1>1
    <3>2. D \subseteq Int /\ D # {} /\ \A y \in D : y <= n
      BY <2>2, <3>1
    <3> HIDE DEF D
    <3>3. Max(D) \in D
      BY <3>2, MaxIn
    <3> QED BY <2>2, <3>3
  <2>4. start \in Nat
    <3>1. Min(S) - 1 \in Nat
      BY <1>1
    <3>2. {b.start, Min(S) - 1} \subseteq Nat
      BY <1>2, <3>1
    <3>3. Min({b.start, Min(S) - 1}) \in {b.start, Min(S) - 1}
      BY <3>2, MinIn
    <3> QED BY <3>2, <3>3
  <2>5. end \in Nat
    <3>1. PICK w \in Nat, z \in Nat : w = b.end /\ z = Max(S)
      BY <1>1, <1>2
    <3>2. w \in Int /\ z \in Int
      OBVIOUS
    <3>3. Max({w, z}) \in {w, z}
      BY ONLY <3>2, TwoOf
    <3> QED BY <3>1, <3>3
  <2> HIDE DEF D, start, end
  <2>6. Max({b.wall + Max(D), end - start}) \in Nat
    <3>1. b.wall + Max(D) \in Nat /\ end - start \in Int
      BY <1>2, <2>3, <2>4, <2>5
    <3>2. PICK w \in Nat, z \in Int : w = b.wall + Max(D) /\ z = end - start
      BY <3>1
    <3>3. w \in Int /\ z \in Int
      OBVIOUS
    <3>4. Max({w, z}) \in {w, z} /\ w <= Max({w, z})
      BY ONLY <3>3, TwoOf
    <3>5. Max({w, z}) \in Nat
      BY <3>4
    <3> QED BY <3>2, <3>5
  <2>7. Advance(b, S) = [b EXCEPT !.start = start, !.end = end,
                                  !.wall = Max({b.wall + Max(D), end - start})]
    BY <1>4, Zenon DEF Advance, gap, D, start, end
  <2> QED BY <2>4, <2>5, <2>6, <2>7 DEF BucketType
<1> QED BY <1>3, <1>4

LEMMA SamplesType == \A S : Samples(S) \in [Segs -> Nat]
BY DEF Samples

LEMMA JoinedType ==
    ASSUME TypeStore, NEW f \in Files, NEW S
    PROVE  Joined(f, S) \in [Segs -> Nat]
BY SamplesType DEF TypeStore, Samples, Joined

LEMMA NewOut == ASSUME FreeOuts # {} PROVE Min(FreeOuts) \in Outs
<1>1. FreeOuts \subseteq Outs /\ Outs \subseteq Nat
  BY RollingMergeAssumption DEF FreeOuts, Outs
<1> QED BY <1>1, MinIn

\* Every choice of segments is one among those at hand.
LEMMA Parts ==
    /\ \A S : Free(S) \subseteq S
    /\ \A S : \A T \in Unheld(S) : T \subseteq S
    /\ Pending \subseteq Segs /\ Due \subseteq Pending
    /\ \A s \in Pending : HasRow(s)
    /\ Chunk \subseteq listed /\ Valid \subseteq listed
<1>1. \A S : Free(S) \subseteq S
  BY DEF Free
<1>2. \A S : \A T \in Unheld(S) : T \subseteq S
  BY DEF Unheld
<1>3. Pending \subseteq Segs /\ Due \subseteq Pending /\ \A s \in Pending : HasRow(s)
  BY DEF Pending, Due, HasRow
<1>4. Chunk \subseteq listed /\ Valid \subseteq listed
  BY DEF Chunk, Valid
<1> QED BY <1>1, <1>2, <1>3, <1>4

LEMMA NotEmpty == ASSUME NEW S, ~(Cardinality(S) < 2) PROVE S # {}
BY FS_EmptySet

LEMMA ReplaceRows ==
    ASSUME TypeStore, RowsKnown, NEW o, o \notin Segs, NEW r \in RowType, r.file \notin Segs,
           NEW S \in SUBSET Segs, Replace(o, r, S)
    PROVE  /\ row' \in [Files -> RowType]
           /\ \A s \in Segs : row'[s] = IF s \in S THEN NoRow ELSE row[s]
           /\ \A f \in Outs : row'[f].file \notin Segs
<1>1. NoRow \in RowType /\ NoRow.file = None
  BY DEF NoRow, RowType
<1>2. \A f \in Files : row'[f] = IF f = o THEN r ELSE IF f \in S THEN NoRow ELSE row[f]
  BY DEF Replace
<1> QED BY <1>1, <1>2, Consts DEF Replace, TypeStore, RowsKnown

LEMMA MarkRows ==
    ASSUME TypeStore, NEW S, NEW status \in {"merged", "incompatible", "failed"},
           Mark(S, status)
    PROVE  /\ row' \in [Files -> RowType]
           /\ \A f \in Files : HasRow(f)' = HasRow(f) /\ row'[f].file = row[f].file
BY DEF TypeStore, Mark, HasRow, RowType

-----------------------------------------------------------------------------
LEMMA RecordKeeps ==
    ASSUME IInv, Record
    PROVE  IInv'
<1> USE Consts DEF Record, store, clock, rolling, engine, client, Goto, Take, Return, Fail, LiveUnlock, BackUnlock,
           IInv, None, HasRow
<1>1. TypeStore'
  BY DEF TypeStore, TypeEngine, RowType
<1>2. TypeEngine'
  BY DEF TypeStore, TypeEngine
<1>3. RowsKnown'
  BY DEF TypeStore, TypeEngine, RowsKnown
<1>4. ListsKnown'
  BY DEF TypeStore, TypeEngine, RowsKnown, ListsKnown
<1>5. EnginesKnown'
  BY DEF TypeStore, TypeEngine, RowsKnown, ListsKnown, EnginesKnown
<1>6. SourceRowHasFile'
  BY DEF TypeStore, TypeEngine, RowsKnown, ListsKnown, EnginesKnown, SourceRowHasFile
<1> QED BY <1>1, <1>2, <1>3, <1>4, <1>5, <1>6 DEF IInv

LEMMA AgeKeeps ==
    ASSUME IInv, Age
    PROVE  IInv'
<1> USE Consts DEF Age, store, clock, rolling, engine, client, Goto, Take, Return, Fail, LiveUnlock, BackUnlock,
           IInv, None, HasRow
<1>1. TypeStore'
  BY DEF TypeStore, TypeEngine
<1>2. TypeEngine'
  BY DEF TypeStore, TypeEngine
<1>3. RowsKnown'
  BY DEF TypeStore, TypeEngine, RowsKnown
<1>4. ListsKnown'
  BY DEF TypeStore, TypeEngine, RowsKnown, ListsKnown
<1>5. EnginesKnown'
  BY DEF TypeStore, TypeEngine, RowsKnown, ListsKnown, EnginesKnown
<1>6. SourceRowHasFile'
  BY DEF TypeStore, TypeEngine, RowsKnown, ListsKnown, EnginesKnown, SourceRowHasFile
<1> QED BY <1>1, <1>2, <1>3, <1>4, <1>5, <1>6 DEF IInv

LEMMA DeleteFileKeeps ==
    ASSUME IInv, DeleteFile
    PROVE  IInv'
<1> USE Consts DEF DeleteFile, store, clock, rolling, engine, client, Goto, Take, Return, Fail, LiveUnlock, BackUnlock,
           IInv, None, HasRow
<1>1. TypeStore'
  BY DEF TypeStore, TypeEngine
<1>2. TypeEngine'
  BY DEF TypeStore, TypeEngine
<1>3. RowsKnown'
  BY DEF TypeStore, TypeEngine, RowsKnown
<1>4. ListsKnown'
  BY DEF TypeStore, TypeEngine, RowsKnown, ListsKnown
<1>5. EnginesKnown'
  BY DEF TypeStore, TypeEngine, RowsKnown, ListsKnown, EnginesKnown
<1>6. SourceRowHasFile'
  BY DEF TypeStore, TypeEngine, RowsKnown, ListsKnown, EnginesKnown, SourceRowHasFile
<1> QED BY <1>1, <1>2, <1>3, <1>4, <1>5, <1>6 DEF IInv

LEMMA TaskLandsKeeps ==
    ASSUME IInv, NEW s \in Segs, TaskLands(s)
    PROVE  IInv'
<1> USE Consts DEF TaskLands, store, clock, rolling, engine, client, Goto, Take, Return, Fail, LiveUnlock, BackUnlock,
           IInv, None, HasRow
<1>1. TypeStore'
  BY DEF TypeStore, TypeEngine
<1>2. TypeEngine'
  BY DEF TypeStore, TypeEngine
<1>3. RowsKnown'
  BY DEF TypeStore, TypeEngine, RowsKnown
<1>4. ListsKnown'
  BY DEF TypeStore, TypeEngine, RowsKnown, ListsKnown
<1>5. EnginesKnown'
  BY DEF TypeStore, TypeEngine, RowsKnown, ListsKnown, EnginesKnown
<1>6. SourceRowHasFile'
  BY DEF TypeStore, TypeEngine, RowsKnown, ListsKnown, EnginesKnown, SourceRowHasFile
<1> QED BY <1>1, <1>2, <1>3, <1>4, <1>5, <1>6 DEF IInv

LEMMA TaskEndsKeeps ==
    ASSUME IInv, NEW s \in Segs, TaskEnds(s)
    PROVE  IInv'
<1> USE Consts DEF TaskEnds, store, clock, rolling, engine, client, Goto, Take, Return, Fail, LiveUnlock, BackUnlock,
           IInv, None, HasRow
<1>1. TypeStore'
  BY DEF TypeStore, TypeEngine
<1>2. TypeEngine'
  BY DEF TypeStore, TypeEngine
<1>3. RowsKnown'
  BY DEF TypeStore, TypeEngine, RowsKnown
<1>4. ListsKnown'
  BY DEF TypeStore, TypeEngine, RowsKnown, ListsKnown
<1>5. EnginesKnown'
  BY DEF TypeStore, TypeEngine, RowsKnown, ListsKnown, EnginesKnown
<1>6. SourceRowHasFile'
  BY DEF TypeStore, TypeEngine, RowsKnown, ListsKnown, EnginesKnown, SourceRowHasFile
<1> QED BY <1>1, <1>2, <1>3, <1>4, <1>5, <1>6 DEF IInv

LEMMA DeleteRowKeeps ==
    ASSUME IInv, NEW f \in Files, DeleteRow(f)
    PROVE  IInv'
<1> USE Consts DEF DeleteRow, store, clock, rolling, engine, client, Goto, Take, Return, Fail, LiveUnlock, BackUnlock,
           IInv, None, HasRow
<1>r. /\ row' \in [Files -> RowType] /\ doomed' \in Files \cup {None}
      /\ \A g \in Files : row'[g] = IF g = f THEN NoRow ELSE row[g]
      /\ NoRow.file = None /\ NoRow.status = "none"
  BY DEF TypeStore, RowType, NoRow
<1>d. doomed' = row[f].file /\ HasRow(f)
  OBVIOUS
<1>1. TypeStore'
  BY <1>r, <1>d DEF TypeStore, TypeEngine
<1>2. TypeEngine'
  BY DEF TypeStore, TypeEngine
<1>3. RowsKnown'
  BY <1>r, <1>d DEF TypeStore, TypeEngine, RowsKnown
<1>4. ListsKnown'
  BY <1>r, <1>d DEF TypeStore, TypeEngine, RowsKnown, ListsKnown
<1>5. EnginesKnown'
  BY DEF TypeStore, TypeEngine, RowsKnown, ListsKnown, EnginesKnown
<1>6. SourceRowHasFile'
  BY DEF TypeStore, TypeEngine, RowsKnown, ListsKnown, EnginesKnown, SourceRowHasFile
<1> QED BY <1>1, <1>2, <1>3, <1>4, <1>5, <1>6 DEF IInv

LEMMA SweepOrphanKeeps ==
    ASSUME IInv, NEW f \in Files, SweepOrphan(f)
    PROVE  IInv'
<1> USE Consts DEF SweepOrphan, store, clock, rolling, engine, client, Goto, Take, Return, Fail, LiveUnlock, BackUnlock,
           IInv, None, HasRow
<1>f. \A s \in Segs : HasRow(s) => s # f
  BY DEF RowsKnown
<1>1. TypeStore'
  BY DEF TypeStore, TypeEngine
<1>2. TypeEngine'
  BY DEF TypeStore, TypeEngine
<1>3. RowsKnown'
  BY DEF TypeStore, TypeEngine, RowsKnown
<1>4. ListsKnown'
  BY DEF TypeStore, TypeEngine, RowsKnown, ListsKnown
<1>5. EnginesKnown'
  BY DEF TypeStore, TypeEngine, RowsKnown, ListsKnown, EnginesKnown
<1>6. SourceRowHasFile'
  BY <1>f DEF TypeStore, TypeEngine, RowsKnown, ListsKnown, EnginesKnown, SourceRowHasFile
<1> QED BY <1>1, <1>2, <1>3, <1>4, <1>5, <1>6 DEF IInv

LEMMA LiveDispatchKeeps ==
    ASSUME IInv, LiveDispatch
    PROVE  IInv'
<1> USE Consts DEF LiveDispatch, store, clock, rolling, engine, client, Goto, Take, Return, Fail, LiveUnlock, BackUnlock,
           IInv, None, HasRow
<1>1. TypeStore'
  BY DEF TypeStore, TypeEngine
<1>2. TypeEngine'
  BY Parts DEF TypeStore, TypeEngine
<1>3. RowsKnown'
  BY DEF TypeStore, TypeEngine, RowsKnown
<1>4. ListsKnown'
  BY DEF TypeStore, TypeEngine, RowsKnown, ListsKnown
<1>5. EnginesKnown'
  BY Parts DEF TypeStore, TypeEngine, RowsKnown, ListsKnown, EnginesKnown
<1>6. SourceRowHasFile'
  BY DEF TypeStore, TypeEngine, RowsKnown, ListsKnown, EnginesKnown, SourceRowHasFile
<1> QED BY <1>1, <1>2, <1>3, <1>4, <1>5, <1>6 DEF IInv

LEMMA LiveGivesUpKeeps ==
    ASSUME IInv, LiveGivesUp
    PROVE  IInv'
<1> USE Consts DEF LiveGivesUp, store, clock, rolling, engine, client, Goto, Take, Return, Fail, LiveUnlock, BackUnlock,
           IInv, None, HasRow
<1>1. TypeStore'
  BY DEF TypeStore, TypeEngine
<1>2. TypeEngine'
  BY DEF TypeStore, TypeEngine
<1>3. RowsKnown'
  BY DEF TypeStore, TypeEngine, RowsKnown
<1>4. ListsKnown'
  BY DEF TypeStore, TypeEngine, RowsKnown, ListsKnown
<1>5. EnginesKnown'
  BY DEF TypeStore, TypeEngine, RowsKnown, ListsKnown, EnginesKnown
<1>6. SourceRowHasFile'
  BY DEF TypeStore, TypeEngine, RowsKnown, ListsKnown, EnginesKnown, SourceRowHasFile
<1> QED BY <1>1, <1>2, <1>3, <1>4, <1>5, <1>6 DEF IInv

LEMMA LiveClassifyKeeps ==
    ASSUME IInv, LiveClassify
    PROVE  IInv'
<1> USE Consts DEF LiveClassify, store, clock, rolling, engine, client, Goto, Take, Return, Fail, LiveUnlock, BackUnlock,
           IInv, None, HasRow
<1>b. bucket' \in BucketType /\ retained' \in BOOLEAN
  <2>1. NoBucket \in BucketType
    BY DEF NoBucket, BucketType
  <2>2. bucket' \in {bucket, NoBucket}
    OBVIOUS
  <2>3. retained' = retained \/ retained' = TRUE
    BY Zenon
  <2> QED BY <2>1, <2>2, <2>3, Zenon DEF TypeEngine
<1>t. /\ batch' \in [Engines -> SUBSET Segs] /\ out' \in [Engines -> Files \cup {None}]
      /\ pc' \in [Engines -> {"idle", "classify", "merge", "commit", "query", "delete",
                           "sweep", "parse", "reset"}]
  BY Parts DEF TypeEngine
<1>1. TypeStore'
  BY DEF TypeStore, TypeEngine
<1>2. TypeEngine'
  BY Parts, <1>b, <1>t DEF TypeStore, TypeEngine, NoBucket, BucketType
<1>3. RowsKnown'
  BY DEF TypeStore, TypeEngine, RowsKnown
<1>4. ListsKnown'
  BY DEF TypeStore, TypeEngine, RowsKnown, ListsKnown, NoBucket
<1>5. EnginesKnown'
  BY Parts DEF TypeStore, TypeEngine, RowsKnown, ListsKnown, EnginesKnown, NoBucket, BucketType
<1>6. SourceRowHasFile'
  BY DEF TypeStore, TypeEngine, RowsKnown, ListsKnown, EnginesKnown, SourceRowHasFile
<1> QED BY <1>1, <1>2, <1>3, <1>4, <1>5, <1>6 DEF IInv

LEMMA LiveMergeKeeps ==
    ASSUME IInv, LiveMerge
    PROVE  IInv'
<1> USE Consts DEF LiveMerge, store, clock, rolling, engine, client, Goto, Take, Return, Fail, LiveUnlock, BackUnlock,
           IInv, None, HasRow
<1>o. /\ FreeOuts # {} => Min(FreeOuts) \in Outs
      /\ Advance(bucket, batch["live"]) \in BucketType
      /\ Advance(bucket, batch["live"]).file = bucket.file
      /\ Advance(bucket, batch["live"]).row = bucket.row
      /\ batch["live"] # {} /\ bucket.file \in Files \cup {None}
  BY NewOut, AdvanceType DEF TypeEngine, EnginesKnown, BucketType
<1>c. content' \in [Files -> [Segs -> Nat]]
  <2>1. Samples(batch["live"]) \in [Segs -> Nat]
    BY SamplesType
  <2>2. bucket.file # None => Joined(bucket.file, batch["live"]) \in [Segs -> Nat]
    BY <1>o, JoinedType
  <2>3. \E o \in Files, c \in [Segs -> Nat] : content' = [content EXCEPT ![o] = c]
    <3>1. CASE InPlace
      BY <1>o, <2>2, <3>1 DEF InPlace
    <3>2. CASE ~InPlace
      BY <1>o, <2>1, <2>2, <3>2
    <3> QED BY <3>1, <3>2
  <2> QED BY <2>3 DEF TypeStore
<1>1. TypeStore'
  BY <1>o, <1>c DEF TypeStore, TypeEngine, InPlace
<1>2. TypeEngine'
  BY <1>o DEF TypeStore, TypeEngine, InPlace
<1>3. RowsKnown'
  BY <1>o DEF TypeStore, TypeEngine, RowsKnown
<1>4. ListsKnown'
  BY <1>o DEF TypeStore, TypeEngine, RowsKnown, ListsKnown
<1>5. EnginesKnown'
  BY <1>o DEF TypeStore, TypeEngine, RowsKnown, ListsKnown, EnginesKnown, InPlace
<1>6. SourceRowHasFile'
  BY DEF TypeStore, TypeEngine, RowsKnown, ListsKnown, EnginesKnown, SourceRowHasFile
<1> QED BY <1>1, <1>2, <1>3, <1>4, <1>5, <1>6 DEF IInv

LEMMA LiveMergeFailsKeeps ==
    ASSUME IInv, LiveMergeFails
    PROVE  IInv'
<1> USE Consts DEF LiveMergeFails, store, clock, rolling, engine, client, Goto, Take, Return, Fail, LiveUnlock, BackUnlock,
           IInv, None, HasRow
<1>1. TypeStore'
  BY DEF TypeStore, TypeEngine
<1>2. TypeEngine'
  BY DEF TypeStore, TypeEngine
<1>3. RowsKnown'
  BY DEF TypeStore, TypeEngine, RowsKnown
<1>4. ListsKnown'
  BY DEF TypeStore, TypeEngine, RowsKnown, ListsKnown
<1>5. EnginesKnown'
  BY DEF TypeStore, TypeEngine, RowsKnown, ListsKnown, EnginesKnown
<1>6. SourceRowHasFile'
  BY DEF TypeStore, TypeEngine, RowsKnown, ListsKnown, EnginesKnown, SourceRowHasFile
<1> QED BY <1>1, <1>2, <1>3, <1>4, <1>5, <1>6 DEF IInv

LEMMA LiveCommitKeeps ==
    ASSUME IInv, LiveCommit
    PROVE  IInv'
<1> USE Consts DEF LiveCommit, store, clock, rolling, engine, client, Goto, Take, Return, Fail, LiveUnlock, BackUnlock,
           IInv, None, HasRow
<1>r. /\ row' \in [Files -> RowType]
      /\ \A s \in Segs : row'[s] = IF s \in batch["live"] THEN NoRow ELSE row[s]
      /\ \A f \in Outs : row'[f].file \notin Segs
  <2>1. /\ out["live"] \in Files \cup {None} /\ out["live"] \notin Segs
        /\ batch["live"] \in SUBSET Segs /\ batch["live"] # {}
    BY DEF TypeEngine, EnginesKnown
  <2>2. CASE bucket.file = None
    <3>1. Span(out["live"], batch["live"]) \in RowType
          /\ Span(out["live"], batch["live"]).file = out["live"]
      BY <2>1, SpanType
    <3>2. Replace(out["live"], Span(out["live"], batch["live"]), batch["live"])
      BY <2>2
    <3> QED BY <2>1, <3>1, <3>2, ReplaceRows
  <2>3. CASE bucket.file # None
    <3>1. /\ NoRow \in RowType /\ NoRow.file = None
          /\ bucket.row \notin Segs /\ bucket \in BucketType
      BY DEF NoRow, RowType, ListsKnown, TypeEngine
    <3>2. \A f \in Files : /\ row[f].start \in Nat /\ row[f].end \in Nat
                           /\ bucket.start \in Nat /\ bucket.end \in Nat
      BY <3>1 DEF TypeStore, RowType, BucketType
    <3>3. \A f \in Files : /\ Min({row[f].start, bucket.start}) \in Nat
                           /\ Max({row[f].end, bucket.end}) \in Nat
      <4> TAKE f \in Files
      <4>1. PICK a \in Nat, b \in Nat, c \in Nat, d \in Nat :
              a = row[f].start /\ b = bucket.start /\ c = row[f].end /\ d = bucket.end
        BY <3>2
      <4>2. Min({a, b}) \in {a, b}
        <5>1. {a, b} \subseteq Nat /\ {a, b} # {}
          OBVIOUS
        <5> QED BY <5>1, MinIn
      <4>3. Max({c, d}) \in {c, d}
        <5>1. c \in Int /\ d \in Int
          OBVIOUS
        <5> QED BY ONLY <5>1, TwoOf
      <4> QED BY <4>1, <4>2, <4>3
    <3>4. \A f \in Files : row'[f] =
            IF f \in batch["live"] THEN NoRow
            ELSE IF f = bucket.row /\ HasRow(bucket.row)
            THEN [row[f] EXCEPT !.file = out["live"], !.start = Min({row[f].start, bucket.start}),
                       !.end = Max({row[f].end, bucket.end}), !.wall = bucket.wall]
            ELSE row[f]
      BY <2>3, ZenonT(60)
    <3>5. \A f \in Files : row'[f] \in RowType
      <4> TAKE f \in Files
      <4>1. row[f] \in RowType /\ bucket.wall \in Nat
        BY <3>1 DEF TypeStore, BucketType
      <4>2. [row[f] EXCEPT !.file = out["live"], !.start = Min({row[f].start, bucket.start}),
                  !.end = Max({row[f].end, bucket.end}), !.wall = bucket.wall] \in RowType
        BY <2>1, <3>3, <4>1 DEF RowType
      <4> QED BY <3>1, <3>4, <4>1, <4>2
    <3>6. \A s \in Segs : row'[s] = IF s \in batch["live"] THEN NoRow ELSE row[s]
      BY <3>1, <3>4
    <3>7. \A f \in Outs : row'[f].file \notin Segs
      <4> TAKE f \in Outs
      <4>1. row[f] \in RowType /\ row[f].file \notin Segs /\ f \in Files
        BY DEF TypeStore, RowsKnown
      <4> QED BY <2>1, <3>1, <3>4, <4>1, ZenonT(60) DEF RowType
    <3>8. row' = [f \in Files |-> row'[f]]
      BY <2>3
    <3> QED BY <3>5, <3>6, <3>7, <3>8
  <2> QED BY <2>2, <2>3
<1>n. NoRow.status = "none"
  BY DEF NoRow
<1>1. TypeStore'
  BY <1>r, <1>n DEF TypeStore, TypeEngine
<1>2. TypeEngine'
  BY DEF TypeStore, TypeEngine
<1>3. RowsKnown'
  BY <1>r, <1>n DEF TypeStore, TypeEngine, RowsKnown
<1>4. ListsKnown'
  BY <1>r, <1>n DEF TypeStore, TypeEngine, RowsKnown, ListsKnown
<1>5. EnginesKnown'
  BY <1>r, <1>n DEF TypeStore, TypeEngine, RowsKnown, ListsKnown, EnginesKnown
<1>6. SourceRowHasFile'
  BY <1>r, <1>n DEF TypeStore, TypeEngine, RowsKnown, ListsKnown, EnginesKnown, SourceRowHasFile
<1> QED BY <1>1, <1>2, <1>3, <1>4, <1>5, <1>6 DEF IInv

LEMMA LiveCommitFailsKeeps ==
    ASSUME IInv, LiveCommitFails
    PROVE  IInv'
<1> USE Consts DEF LiveCommitFails, store, clock, rolling, engine, client, Goto, Take, Return, Fail, LiveUnlock, BackUnlock,
           IInv, None, HasRow
<1>1. TypeStore'
  BY DEF TypeStore, TypeEngine
<1>2. TypeEngine'
  BY DEF TypeStore, TypeEngine
<1>3. RowsKnown'
  BY DEF TypeStore, TypeEngine, RowsKnown
<1>4. ListsKnown'
  BY DEF TypeStore, TypeEngine, RowsKnown, ListsKnown
<1>5. EnginesKnown'
  BY DEF TypeStore, TypeEngine, RowsKnown, ListsKnown, EnginesKnown
<1>6. SourceRowHasFile'
  BY DEF TypeStore, TypeEngine, RowsKnown, ListsKnown, EnginesKnown, SourceRowHasFile
<1> QED BY <1>1, <1>2, <1>3, <1>4, <1>5, <1>6 DEF IInv

LEMMA LiveQueryKeeps ==
    ASSUME IInv, LiveQuery
    PROVE  IInv'
<1> USE Consts DEF LiveQuery, store, clock, rolling, engine, client, Goto, Take, Return, Fail, LiveUnlock, BackUnlock,
           IInv, None, HasRow
<1>1. TypeStore'
  BY DEF TypeStore, TypeEngine
<1>2. TypeEngine'
  BY Parts DEF TypeStore, TypeEngine
<1>3. RowsKnown'
  BY DEF TypeStore, TypeEngine, RowsKnown
<1>4. ListsKnown'
  BY DEF TypeStore, TypeEngine, RowsKnown, ListsKnown
<1>5. EnginesKnown'
  BY Parts DEF TypeStore, TypeEngine, RowsKnown, ListsKnown, EnginesKnown
<1>6. SourceRowHasFile'
  BY DEF TypeStore, TypeEngine, RowsKnown, ListsKnown, EnginesKnown, SourceRowHasFile
<1> QED BY <1>1, <1>2, <1>3, <1>4, <1>5, <1>6 DEF IInv

LEMMA LiveDeleteKeeps ==
    ASSUME IInv, LiveDelete
    PROVE  IInv'
<1> USE Consts DEF LiveDelete, store, clock, rolling, engine, client, Goto, Take, Return, Fail, LiveUnlock, BackUnlock,
           IInv, None, HasRow
<1>1. TypeStore'
  BY DEF TypeStore, TypeEngine, EnginesKnown
<1>2. TypeEngine'
  BY DEF TypeStore, TypeEngine, BucketType
<1>3. RowsKnown'
  BY DEF TypeStore, TypeEngine, RowsKnown
<1>4. ListsKnown'
  BY DEF TypeStore, TypeEngine, RowsKnown, ListsKnown, BucketType, EnginesKnown
<1>5. EnginesKnown'
  BY DEF TypeStore, TypeEngine, RowsKnown, ListsKnown, EnginesKnown
<1>6. SourceRowHasFile'
  BY DEF TypeStore, TypeEngine, RowsKnown, ListsKnown, EnginesKnown, SourceRowHasFile
<1> QED BY <1>1, <1>2, <1>3, <1>4, <1>5, <1>6 DEF IInv

LEMMA LiveRenameFailsKeeps ==
    ASSUME IInv, LiveRenameFails
    PROVE  IInv'
<1> USE Consts DEF LiveRenameFails, store, clock, rolling, engine, client, Goto, Take, Return, Fail, LiveUnlock, BackUnlock,
           IInv, None, HasRow
<1>1. TypeStore'
  BY DEF TypeStore, TypeEngine
<1>2. TypeEngine'
  BY DEF TypeStore, TypeEngine
<1>3. RowsKnown'
  BY DEF TypeStore, TypeEngine, RowsKnown
<1>4. ListsKnown'
  BY DEF TypeStore, TypeEngine, RowsKnown, ListsKnown
<1>5. EnginesKnown'
  BY DEF TypeStore, TypeEngine, RowsKnown, ListsKnown, EnginesKnown
<1>6. SourceRowHasFile'
  BY DEF TypeStore, TypeEngine, RowsKnown, ListsKnown, EnginesKnown, SourceRowHasFile
<1> QED BY <1>1, <1>2, <1>3, <1>4, <1>5, <1>6 DEF IInv

LEMMA BackSweepKeeps ==
    ASSUME IInv, BackSweep
    PROVE  IInv'
<1> USE Consts DEF BackSweep, store, clock, rolling, engine, client, Goto, Take, Return, Fail, LiveUnlock, BackUnlock,
           IInv, None, HasRow
<1>1. TypeStore'
  BY DEF TypeStore, TypeEngine
<1>2. TypeEngine'
  BY Parts DEF TypeStore, TypeEngine
<1>3. RowsKnown'
  BY DEF TypeStore, TypeEngine, RowsKnown
<1>4. ListsKnown'
  BY Parts DEF TypeStore, TypeEngine, RowsKnown, ListsKnown
<1>5. EnginesKnown'
  BY DEF TypeStore, TypeEngine, RowsKnown, ListsKnown, EnginesKnown
<1>6. SourceRowHasFile'
  BY DEF TypeStore, TypeEngine, RowsKnown, ListsKnown, EnginesKnown, SourceRowHasFile
<1> QED BY <1>1, <1>2, <1>3, <1>4, <1>5, <1>6 DEF IInv

LEMMA BackSingleKeeps ==
    ASSUME IInv, BackSingle
    PROVE  IInv'
<1> USE Consts DEF BackSingle, store, clock, rolling, engine, client, Goto, Take, Return, Fail, LiveUnlock, BackUnlock,
           IInv, None, HasRow
<1>m. /\ row' \in [Files -> RowType]
      /\ \A f \in Files : HasRow(f)' = HasRow(f) /\ row'[f].file = row[f].file
  <2>1. UNCHANGED row => \A f \in Files : HasRow(f)' = HasRow(f)
    BY DEF HasRow
  <2> QED BY <2>1, MarkRows DEF TypeStore
<1>1. TypeStore'
  BY <1>m DEF TypeStore, TypeEngine
<1>2. TypeEngine'
  BY DEF TypeStore, TypeEngine
<1>3. RowsKnown'
  BY <1>m DEF TypeStore, TypeEngine, RowsKnown
<1>4. ListsKnown'
  BY <1>m DEF TypeStore, TypeEngine, RowsKnown, ListsKnown
<1>5. EnginesKnown'
  BY <1>m DEF TypeStore, TypeEngine, RowsKnown, ListsKnown, EnginesKnown
<1>6. SourceRowHasFile'
  BY <1>m DEF TypeStore, TypeEngine, RowsKnown, ListsKnown, EnginesKnown, SourceRowHasFile
<1> QED BY <1>1, <1>2, <1>3, <1>4, <1>5, <1>6 DEF IInv

LEMMA BackLockKeeps ==
    ASSUME IInv, BackLock
    PROVE  IInv'
<1> USE Consts DEF BackLock, store, clock, rolling, engine, client, Goto, Take, Return, Fail, LiveUnlock, BackUnlock,
           IInv, None, HasRow
<1>1. TypeStore'
  BY DEF TypeStore, TypeEngine
<1>2. TypeEngine'
  BY Parts DEF TypeStore, TypeEngine
<1>3. RowsKnown'
  BY DEF TypeStore, TypeEngine, RowsKnown
<1>4. ListsKnown'
  BY DEF TypeStore, TypeEngine, RowsKnown, ListsKnown
<1>5. EnginesKnown'
  BY Parts DEF TypeStore, TypeEngine, RowsKnown, ListsKnown, EnginesKnown
<1>6. SourceRowHasFile'
  BY DEF TypeStore, TypeEngine, RowsKnown, ListsKnown, EnginesKnown, SourceRowHasFile
<1> QED BY <1>1, <1>2, <1>3, <1>4, <1>5, <1>6 DEF IInv

LEMMA BackEndsKeeps ==
    ASSUME IInv, BackEnds
    PROVE  IInv'
<1> USE Consts DEF BackEnds, store, clock, rolling, engine, client, Goto, Take, Return, Fail, LiveUnlock, BackUnlock,
           IInv, None, HasRow
<1>1. TypeStore'
  BY DEF TypeStore, TypeEngine
<1>2. TypeEngine'
  BY DEF TypeStore, TypeEngine
<1>3. RowsKnown'
  BY DEF TypeStore, TypeEngine, RowsKnown
<1>4. ListsKnown'
  BY DEF TypeStore, TypeEngine, RowsKnown, ListsKnown
<1>5. EnginesKnown'
  BY DEF TypeStore, TypeEngine, RowsKnown, ListsKnown, EnginesKnown
<1>6. SourceRowHasFile'
  BY DEF TypeStore, TypeEngine, RowsKnown, ListsKnown, EnginesKnown, SourceRowHasFile
<1> QED BY <1>1, <1>2, <1>3, <1>4, <1>5, <1>6 DEF IInv

LEMMA BackParseKeeps ==
    ASSUME IInv, BackParse
    PROVE  IInv'
<1> USE Consts DEF BackParse, store, clock, rolling, engine, client, Goto, Take, Return, Fail, LiveUnlock, BackUnlock,
           IInv, None, HasRow
<1>m. /\ row' \in [Files -> RowType]
      /\ \A f \in Files : HasRow(f)' = HasRow(f) /\ row'[f].file = row[f].file
  <2>1. UNCHANGED row => \A f \in Files : HasRow(f)' = HasRow(f)
    BY DEF HasRow
  <2> QED BY <2>1, MarkRows DEF TypeStore
<1>1. TypeStore'
  BY <1>m DEF TypeStore, TypeEngine
<1>2. TypeEngine'
  BY Parts, NotEmpty DEF TypeStore, TypeEngine
<1>3. RowsKnown'
  BY <1>m DEF TypeStore, TypeEngine, RowsKnown
<1>4. ListsKnown'
  BY <1>m DEF TypeStore, TypeEngine, RowsKnown, ListsKnown
<1>5. EnginesKnown'
  BY <1>m, Parts, NotEmpty, SMTT(60) DEF TypeStore, TypeEngine, RowsKnown, ListsKnown, EnginesKnown
<1>6. SourceRowHasFile'
  BY <1>m DEF TypeStore, TypeEngine, RowsKnown, ListsKnown, EnginesKnown, SourceRowHasFile
<1> QED BY <1>1, <1>2, <1>3, <1>4, <1>5, <1>6 DEF IInv

LEMMA BackMergeKeeps ==
    ASSUME IInv, BackMerge
    PROVE  IInv'
<1> USE Consts DEF BackMerge, store, clock, rolling, engine, client, Goto, Take, Return, Fail, LiveUnlock, BackUnlock,
           IInv, None, HasRow
<1>o. FreeOuts # {} => Min(FreeOuts) \in Outs
  BY NewOut
<1>c. content' \in [Files -> [Segs -> Nat]]
  <2>1. /\ \A S : Samples(S) \in [Segs -> Nat]
        /\ content \in [Files -> [Segs -> Nat]]
    BY SamplesType DEF TypeStore
  <2>2. CASE UNCHANGED content
    BY <2>1, <2>2
  <2>3. CASE /\ FreeOuts # {}
             /\ content' = [content EXCEPT ![Min(FreeOuts)] = Samples(batch["backfill"] \cap disk)]
    <3> DEFINE o == Min(FreeOuts)
               c == Samples(batch["backfill"] \cap disk)
    <3>1. o \in Files /\ c \in [Segs -> Nat] /\ content' = [content EXCEPT ![o] = c]
      BY <1>o, <2>1, <2>3
    <3> HIDE DEF o, c
    <3> QED BY ONLY <2>1, <3>1
  <2> QED BY <2>2, <2>3
<1>1. TypeStore'
  BY <1>o, <1>c DEF TypeStore, TypeEngine
<1>2. TypeEngine'
  BY <1>o, <1>c DEF TypeStore, TypeEngine
<1>3. RowsKnown'
  BY DEF TypeStore, TypeEngine, RowsKnown
<1>4. ListsKnown'
  BY DEF TypeStore, TypeEngine, RowsKnown, ListsKnown
<1>5. EnginesKnown'
  BY <1>o, NotEmpty DEF TypeStore, TypeEngine, RowsKnown, ListsKnown, EnginesKnown
<1>6. SourceRowHasFile'
  BY DEF TypeStore, TypeEngine, RowsKnown, ListsKnown, EnginesKnown, SourceRowHasFile
<1> QED BY <1>1, <1>2, <1>3, <1>4, <1>5, <1>6 DEF IInv

LEMMA BackMergeFailsKeeps ==
    ASSUME IInv, BackMergeFails
    PROVE  IInv'
<1> USE Consts DEF BackMergeFails, store, clock, rolling, engine, client, Goto, Take, Return, Fail, LiveUnlock, BackUnlock,
           IInv, None, HasRow
<1>m. /\ row' \in [Files -> RowType]
      /\ \A f \in Files : HasRow(f)' = HasRow(f) /\ row'[f].file = row[f].file
  <2>1. UNCHANGED row => \A f \in Files : HasRow(f)' = HasRow(f)
    BY DEF HasRow
  <2> QED BY <2>1, MarkRows DEF TypeStore
<1>1. TypeStore'
  BY <1>m DEF TypeStore, TypeEngine
<1>2. TypeEngine'
  BY DEF TypeStore, TypeEngine
<1>3. RowsKnown'
  BY <1>m DEF TypeStore, TypeEngine, RowsKnown
<1>4. ListsKnown'
  BY <1>m DEF TypeStore, TypeEngine, RowsKnown, ListsKnown
<1>5. EnginesKnown'
  BY <1>m DEF TypeStore, TypeEngine, RowsKnown, ListsKnown, EnginesKnown
<1>6. SourceRowHasFile'
  BY <1>m DEF TypeStore, TypeEngine, RowsKnown, ListsKnown, EnginesKnown, SourceRowHasFile
<1> QED BY <1>1, <1>2, <1>3, <1>4, <1>5, <1>6 DEF IInv

LEMMA BackCommitKeeps ==
    ASSUME IInv, BackCommit
    PROVE  IInv'
<1> USE Consts DEF BackCommit, store, clock, rolling, engine, client, Goto, Take, Return, Fail, LiveUnlock, BackUnlock,
           IInv, None, HasRow
<1>r. /\ row' \in [Files -> RowType]
      /\ \A s \in Segs : row'[s] = IF s \in batch["backfill"] THEN NoRow ELSE row[s]
      /\ \A f \in Outs : row'[f].file \notin Segs
  <2>1. /\ out["backfill"] \in Files \cup {None} /\ out["backfill"] \notin Segs
        /\ batch["backfill"] \in SUBSET Segs /\ batch["backfill"] # {}
    BY DEF TypeEngine, EnginesKnown
  <2>2. BatchRow(out["backfill"], batch["backfill"]) \in RowType
        /\ BatchRow(out["backfill"], batch["backfill"]).file = out["backfill"]
    BY <2>1, BatchRowType
  <2> QED BY <2>1, <2>2, ReplaceRows
<1>n. NoRow.status = "none"
  BY DEF NoRow
<1>e. EnginesKnown'
  <2> SUFFICES ASSUME NEW d \in Engines
               PROVE  /\ out'[d] \notin Segs
                      /\ \A s \in batch'[d] : s <= recorded'
                      /\ pc'[d] \in {"merge", "commit"} => batch'[d] # {}
                      /\ pc'[d] \in {"query", "delete"} => \A s \in batch'[d] : ~HasRow(s)'
                      /\ pc'[d] \in {"commit", "query", "delete"} /\ d = "live" => out'[d] \in Outs
    BY DEF EnginesKnown
  <2>1. \A s \in Segs : ~HasRow(s) => ~HasRow(s)'
    BY <1>r, <1>n
  <2>2. \A s \in batch["backfill"] : ~HasRow(s)'
    BY <1>r, <1>n DEF TypeEngine
  <2>3. batch[d] \subseteq Segs
    BY DEF TypeEngine
  <2>4. CASE d = "backfill"
    BY <2>2, <2>4 DEF TypeEngine, EnginesKnown
  <2>5. CASE d # "backfill"
    BY <2>1, <2>3, <2>5 DEF TypeEngine, EnginesKnown
  <2> QED BY <2>4, <2>5
<1>1. TypeStore'
  BY <1>r, <1>n DEF TypeStore, TypeEngine
<1>2. TypeEngine'
  BY DEF TypeStore, TypeEngine
<1>3. RowsKnown'
  BY <1>r, <1>n DEF TypeStore, TypeEngine, RowsKnown
<1>4. ListsKnown'
  BY <1>r, <1>n DEF TypeStore, TypeEngine, RowsKnown, ListsKnown
<1>6. SourceRowHasFile'
  BY <1>r, <1>n DEF TypeStore, TypeEngine, RowsKnown, ListsKnown, EnginesKnown, SourceRowHasFile
<1> QED BY <1>1, <1>2, <1>3, <1>4, <1>e, <1>6 DEF IInv

LEMMA BackCommitFailsKeeps ==
    ASSUME IInv, BackCommitFails
    PROVE  IInv'
<1> USE Consts DEF BackCommitFails, store, clock, rolling, engine, client, Goto, Take, Return, Fail, LiveUnlock, BackUnlock,
           IInv, None, HasRow
<1>1. TypeStore'
  BY DEF TypeStore, TypeEngine
<1>2. TypeEngine'
  BY DEF TypeStore, TypeEngine
<1>3. RowsKnown'
  BY DEF TypeStore, TypeEngine, RowsKnown
<1>4. ListsKnown'
  BY DEF TypeStore, TypeEngine, RowsKnown, ListsKnown
<1>5. EnginesKnown'
  BY DEF TypeStore, TypeEngine, RowsKnown, ListsKnown, EnginesKnown
<1>6. SourceRowHasFile'
  BY DEF TypeStore, TypeEngine, RowsKnown, ListsKnown, EnginesKnown, SourceRowHasFile
<1> QED BY <1>1, <1>2, <1>3, <1>4, <1>5, <1>6 DEF IInv

LEMMA BackQueryKeeps ==
    ASSUME IInv, BackQuery
    PROVE  IInv'
<1> USE Consts DEF BackQuery, store, clock, rolling, engine, client, Goto, Take, Return, Fail, LiveUnlock, BackUnlock,
           IInv, None, HasRow
<1>1. TypeStore'
  BY DEF TypeStore, TypeEngine
<1>2. TypeEngine'
  BY Parts DEF TypeStore, TypeEngine
<1>3. RowsKnown'
  BY DEF TypeStore, TypeEngine, RowsKnown
<1>4. ListsKnown'
  BY DEF TypeStore, TypeEngine, RowsKnown, ListsKnown
<1>5. EnginesKnown'
  BY Parts DEF TypeStore, TypeEngine, RowsKnown, ListsKnown, EnginesKnown
<1>6. SourceRowHasFile'
  BY DEF TypeStore, TypeEngine, RowsKnown, ListsKnown, EnginesKnown, SourceRowHasFile
<1> QED BY <1>1, <1>2, <1>3, <1>4, <1>5, <1>6 DEF IInv

LEMMA BackDeleteKeeps ==
    ASSUME IInv, BackDelete
    PROVE  IInv'
<1> USE Consts DEF BackDelete, store, clock, rolling, engine, client, Goto, Take, Return, Fail, LiveUnlock, BackUnlock,
           IInv, None, HasRow
<1>1. TypeStore'
  BY DEF TypeStore, TypeEngine
<1>2. TypeEngine'
  BY DEF TypeStore, TypeEngine
<1>3. RowsKnown'
  BY DEF TypeStore, TypeEngine, RowsKnown
<1>4. ListsKnown'
  BY DEF TypeStore, TypeEngine, RowsKnown, ListsKnown
<1>5. EnginesKnown'
  BY DEF TypeStore, TypeEngine, RowsKnown, ListsKnown, EnginesKnown
<1>6. SourceRowHasFile'
  BY DEF TypeStore, TypeEngine, RowsKnown, ListsKnown, EnginesKnown, SourceRowHasFile
<1> QED BY <1>1, <1>2, <1>3, <1>4, <1>5, <1>6 DEF IInv

LEMMA BackResetKeeps ==
    ASSUME IInv, BackReset
    PROVE  IInv'
<1> USE Consts DEF BackReset, store, clock, rolling, engine, client, Goto, Take, Return, Fail, LiveUnlock, BackUnlock,
           IInv, None, HasRow
<1>1. TypeStore'
  BY DEF TypeStore, TypeEngine
<1>2. TypeEngine'
  BY DEF TypeStore, TypeEngine
<1>3. RowsKnown'
  BY DEF TypeStore, TypeEngine, RowsKnown
<1>4. ListsKnown'
  BY DEF TypeStore, TypeEngine, RowsKnown, ListsKnown
<1>5. EnginesKnown'
  BY DEF TypeStore, TypeEngine, RowsKnown, ListsKnown, EnginesKnown
<1>6. SourceRowHasFile'
  BY DEF TypeStore, TypeEngine, RowsKnown, ListsKnown, EnginesKnown, SourceRowHasFile
<1> QED BY <1>1, <1>2, <1>3, <1>4, <1>5, <1>6 DEF IInv

LEMMA LegacyListKeeps ==
    ASSUME IInv, LegacyList
    PROVE  IInv'
<1> USE Consts DEF LegacyList, store, clock, rolling, engine, client, Goto, Take, Return, Fail, LiveUnlock, BackUnlock,
           IInv, None, HasRow
<1>p. \A s \in Due : s \in Segs /\ s <= recorded
  BY Parts DEF RowsKnown
<1>1. TypeStore'
  BY DEF TypeStore, TypeEngine
<1>2. TypeEngine'
  BY Parts, <1>p DEF TypeStore, TypeEngine
<1>3. RowsKnown'
  BY DEF TypeStore, TypeEngine, RowsKnown
<1>4. ListsKnown'
  BY DEF TypeStore, TypeEngine, RowsKnown, ListsKnown
<1>5. EnginesKnown'
  BY Parts, <1>p DEF TypeStore, TypeEngine, RowsKnown, ListsKnown, EnginesKnown
<1>6. SourceRowHasFile'
  BY DEF TypeStore, TypeEngine, RowsKnown, ListsKnown, EnginesKnown, SourceRowHasFile
<1> QED BY <1>1, <1>2, <1>3, <1>4, <1>5, <1>6 DEF IInv

LEMMA LegacySingleKeeps ==
    ASSUME IInv, LegacySingle
    PROVE  IInv'
<1> USE Consts DEF LegacySingle, store, clock, rolling, engine, client, Goto, Take, Return, Fail, LiveUnlock, BackUnlock,
           IInv, None, HasRow
<1>m. /\ row' \in [Files -> RowType]
      /\ \A f \in Files : HasRow(f)' = HasRow(f) /\ row'[f].file = row[f].file
  <2>1. UNCHANGED row => \A f \in Files : HasRow(f)' = HasRow(f)
    BY DEF HasRow
  <2> QED BY <2>1, MarkRows DEF TypeStore
<1>1. TypeStore'
  BY <1>m DEF TypeStore, TypeEngine
<1>2. TypeEngine'
  BY DEF TypeStore, TypeEngine
<1>3. RowsKnown'
  BY <1>m DEF TypeStore, TypeEngine, RowsKnown
<1>4. ListsKnown'
  BY <1>m DEF TypeStore, TypeEngine, RowsKnown, ListsKnown
<1>5. EnginesKnown'
  BY <1>m DEF TypeStore, TypeEngine, RowsKnown, ListsKnown, EnginesKnown
<1>6. SourceRowHasFile'
  BY <1>m DEF TypeStore, TypeEngine, RowsKnown, ListsKnown, EnginesKnown, SourceRowHasFile
<1> QED BY <1>1, <1>2, <1>3, <1>4, <1>5, <1>6 DEF IInv

LEMMA LegacyParseKeeps ==
    ASSUME IInv, LegacyParse
    PROVE  IInv'
<1> USE Consts DEF LegacyParse, store, clock, rolling, engine, client, Goto, Take, Return, Fail, LiveUnlock, BackUnlock,
           IInv, None, HasRow
<1>m. /\ row' \in [Files -> RowType]
      /\ \A f \in Files : HasRow(f)' = HasRow(f) /\ row'[f].file = row[f].file
  <2>1. \A f \in Files : row[f] \in RowType
    BY DEF TypeStore
  <2>2. row' = [f \in Files |-> row'[f]]
    OBVIOUS
  <2>3. \A f \in Files : \/ row'[f] = row[f]
                        \/ /\ HasRow(f)
                           /\ \/ row'[f] = [row[f] EXCEPT !.status = "incompatible"]
                              \/ row'[f] = [row[f] EXCEPT !.status = "failed"]
    OBVIOUS
  <2> QED BY <2>1, <2>2, <2>3 DEF RowType
<1>1. TypeStore'
  BY <1>m DEF TypeStore, TypeEngine
<1>2. TypeEngine'
  BY SMTT(60) DEF TypeStore, TypeEngine
<1>3. RowsKnown'
  BY <1>m DEF TypeStore, TypeEngine, RowsKnown
<1>4. ListsKnown'
  BY <1>m DEF TypeStore, TypeEngine, RowsKnown, ListsKnown
<1>5. EnginesKnown'
  BY <1>m, NotEmpty DEF TypeStore, TypeEngine, RowsKnown, ListsKnown, EnginesKnown
<1>6. SourceRowHasFile'
  BY <1>m DEF TypeStore, TypeEngine, RowsKnown, ListsKnown, EnginesKnown, SourceRowHasFile
<1> QED BY <1>1, <1>2, <1>3, <1>4, <1>5, <1>6 DEF IInv

LEMMA LegacyMergeKeeps ==
    ASSUME IInv, LegacyMerge
    PROVE  IInv'
<1> USE Consts DEF LegacyMerge, store, clock, rolling, engine, client, Goto, Take, Return, Fail, LiveUnlock, BackUnlock,
           IInv, None, HasRow
<1>o. FreeOuts # {} => Min(FreeOuts) \in Outs
  BY NewOut
<1>c. content' \in [Files -> [Segs -> Nat]]
  <2>1. /\ \A S : Samples(S) \in [Segs -> Nat]
        /\ content \in [Files -> [Segs -> Nat]]
    BY SamplesType DEF TypeStore
  <2>2. CASE UNCHANGED content
    BY <2>1, <2>2
  <2>3. CASE /\ FreeOuts # {}
             /\ content' = [content EXCEPT ![Min(FreeOuts)] = Samples(batch["legacy"])]
    <3> DEFINE o == Min(FreeOuts)
               c == Samples(batch["legacy"])
    <3>1. o \in Files /\ c \in [Segs -> Nat] /\ content' = [content EXCEPT ![o] = c]
      BY <1>o, <2>1, <2>3
    <3> HIDE DEF o, c
    <3> QED BY ONLY <2>1, <3>1
  <2> QED BY <2>2, <2>3
<1>1. TypeStore'
  BY <1>o, <1>c DEF TypeStore, TypeEngine
<1>2. TypeEngine'
  BY <1>o, <1>c DEF TypeStore, TypeEngine
<1>3. RowsKnown'
  BY DEF TypeStore, TypeEngine, RowsKnown
<1>4. ListsKnown'
  BY DEF TypeStore, TypeEngine, RowsKnown, ListsKnown
<1>5. EnginesKnown'
  BY <1>o, <1>c DEF TypeStore, TypeEngine, RowsKnown, ListsKnown, EnginesKnown
<1>6. SourceRowHasFile'
  BY DEF TypeStore, TypeEngine, RowsKnown, ListsKnown, EnginesKnown, SourceRowHasFile
<1> QED BY <1>1, <1>2, <1>3, <1>4, <1>5, <1>6 DEF IInv

LEMMA LegacyCommitKeeps ==
    ASSUME IInv, LegacyCommit
    PROVE  IInv'
<1> USE Consts DEF LegacyCommit, store, clock, rolling, engine, client, Goto, Take, Return, Fail, LiveUnlock, BackUnlock,
           IInv, None, HasRow
<1>r. /\ row' \in [Files -> RowType]
      /\ \A s \in Segs : row'[s] = IF s \in batch["legacy"] THEN NoRow ELSE row[s]
      /\ \A f \in Outs : row'[f].file \notin Segs
  <2>1. /\ out["legacy"] \in Files \cup {None} /\ out["legacy"] \notin Segs
        /\ batch["legacy"] \in SUBSET Segs /\ batch["legacy"] # {}
    BY DEF TypeEngine, EnginesKnown
  <2>2. BatchRow(out["legacy"], batch["legacy"]) \in RowType
        /\ BatchRow(out["legacy"], batch["legacy"]).file = out["legacy"]
    BY <2>1, BatchRowType
  <2> QED BY <2>1, <2>2, ReplaceRows
<1>n. NoRow.status = "none"
  BY DEF NoRow
<1>e. EnginesKnown'
  <2> SUFFICES ASSUME NEW d \in Engines
               PROVE  /\ out'[d] \notin Segs
                      /\ \A s \in batch'[d] : s <= recorded'
                      /\ pc'[d] \in {"merge", "commit"} => batch'[d] # {}
                      /\ pc'[d] \in {"query", "delete"} => \A s \in batch'[d] : ~HasRow(s)'
                      /\ pc'[d] \in {"commit", "query", "delete"} /\ d = "live" => out'[d] \in Outs
    BY DEF EnginesKnown
  <2>1. \A s \in Segs : ~HasRow(s) => ~HasRow(s)'
    BY <1>r, <1>n
  <2>2. \A s \in batch["legacy"] : ~HasRow(s)'
    BY <1>r, <1>n DEF TypeEngine
  <2>3. batch[d] \subseteq Segs
    BY DEF TypeEngine
  <2>4. CASE d = "legacy"
    BY <2>2, <2>4 DEF TypeEngine, EnginesKnown
  <2>5. CASE d # "legacy"
    BY <2>1, <2>3, <2>5 DEF TypeEngine, EnginesKnown
  <2> QED BY <2>4, <2>5
<1>1. TypeStore'
  BY <1>r, <1>n DEF TypeStore, TypeEngine
<1>2. TypeEngine'
  BY DEF TypeStore, TypeEngine
<1>3. RowsKnown'
  BY <1>r, <1>n DEF TypeStore, TypeEngine, RowsKnown
<1>4. ListsKnown'
  BY <1>r, <1>n DEF TypeStore, TypeEngine, RowsKnown, ListsKnown
<1>6. SourceRowHasFile'
  BY <1>r, <1>n DEF TypeStore, TypeEngine, RowsKnown, ListsKnown, EnginesKnown, SourceRowHasFile
<1> QED BY <1>1, <1>2, <1>3, <1>4, <1>e, <1>6 DEF IInv

LEMMA LegacyCommitFailsKeeps ==
    ASSUME IInv, LegacyCommitFails
    PROVE  IInv'
<1> USE Consts DEF LegacyCommitFails, store, clock, rolling, engine, client, Goto, Take, Return, Fail, LiveUnlock, BackUnlock,
           IInv, None, HasRow
<1>1. TypeStore'
  BY DEF TypeStore, TypeEngine
<1>2. TypeEngine'
  BY DEF TypeStore, TypeEngine
<1>3. RowsKnown'
  BY DEF TypeStore, TypeEngine, RowsKnown
<1>4. ListsKnown'
  BY DEF TypeStore, TypeEngine, RowsKnown, ListsKnown
<1>5. EnginesKnown'
  BY DEF TypeStore, TypeEngine, RowsKnown, ListsKnown, EnginesKnown
<1>6. SourceRowHasFile'
  BY DEF TypeStore, TypeEngine, RowsKnown, ListsKnown, EnginesKnown, SourceRowHasFile
<1> QED BY <1>1, <1>2, <1>3, <1>4, <1>5, <1>6 DEF IInv

LEMMA LegacyDeleteKeeps ==
    ASSUME IInv, LegacyDelete
    PROVE  IInv'
<1> USE Consts DEF LegacyDelete, store, clock, rolling, engine, client, Goto, Take, Return, Fail, LiveUnlock, BackUnlock,
           IInv, None, HasRow
<1>1. TypeStore'
  BY DEF TypeStore, TypeEngine
<1>2. TypeEngine'
  BY DEF TypeStore, TypeEngine
<1>3. RowsKnown'
  BY DEF TypeStore, TypeEngine, RowsKnown
<1>4. ListsKnown'
  BY DEF TypeStore, TypeEngine, RowsKnown, ListsKnown
<1>5. EnginesKnown'
  BY DEF TypeStore, TypeEngine, RowsKnown, ListsKnown, EnginesKnown
<1>6. SourceRowHasFile'
  BY DEF TypeStore, TypeEngine, RowsKnown, ListsKnown, EnginesKnown, SourceRowHasFile
<1> QED BY <1>1, <1>2, <1>3, <1>4, <1>5, <1>6 DEF IInv

-----------------------------------------------------------------------------
LEMMA CrashKeeps ==
    ASSUME IInv, Crash
    PROVE  IInv'
<1> USE Consts DEF Crash, store, clock, rolling, engine, client, IInv, None, HasRow, NoBucket
<1>1. TypeStore'
  BY DEF TypeStore, TypeEngine
<1>2. TypeEngine'
  BY DEF TypeStore, TypeEngine, BucketType
<1>3. RowsKnown'
  BY DEF TypeStore, TypeEngine, RowsKnown
<1>4. ListsKnown'
  BY DEF TypeStore, TypeEngine, RowsKnown, ListsKnown
<1>5. EnginesKnown'
  BY DEF TypeStore, TypeEngine, RowsKnown, ListsKnown, EnginesKnown
<1>6. SourceRowHasFile'
  BY DEF TypeStore, TypeEngine, RowsKnown, ListsKnown, EnginesKnown, SourceRowHasFile
<1> QED BY <1>1, <1>2, <1>3, <1>4, <1>5, <1>6 DEF IInv

LEMMA InitHolds == Init => IInv
<1> SUFFICES ASSUME Init PROVE IInv
  OBVIOUS
<1> USE Consts DEF Init, NoRow, NoBucket, None, HasRow
<1>1. TypeStore
  BY DEF TypeStore, RowType
<1>2. TypeEngine
  BY DEF TypeEngine, BucketType
<1>3. RowsKnown /\ ListsKnown
  BY DEF RowsKnown, ListsKnown
<1>4. EnginesKnown /\ SourceRowHasFile
  BY DEF EnginesKnown, SourceRowHasFile
<1> QED BY <1>1, <1>2, <1>3, <1>4 DEF IInv

LEMMA NextKeeps == IInv /\ [Next]_vars => IInv'
<1> SUFFICES ASSUME IInv, [Next]_vars PROVE IInv'
  OBVIOUS
<1>1. CASE Outside
  <2>1. CASE Record
    BY <2>1, RecordKeeps
  <2>2. CASE Age
    BY <2>2, AgeKeeps
  <2>3. CASE DeleteFile
    BY <2>3, DeleteFileKeeps
  <2>4. ASSUME NEW s \in Segs, TaskLands(s) PROVE IInv'
    BY <2>4, TaskLandsKeeps
  <2>5. ASSUME NEW s \in Segs, TaskEnds(s) PROVE IInv'
    BY <2>5, TaskEndsKeeps
  <2>6. ASSUME NEW f \in Files, DeleteRow(f) PROVE IInv'
    BY <2>6, DeleteRowKeeps
  <2>7. ASSUME NEW f \in Files, SweepOrphan(f) PROVE IInv'
    BY <2>7, SweepOrphanKeeps
  <2> QED BY <1>1, <2>1, <2>2, <2>3, <2>4, <2>5, <2>6, <2>7 DEF Outside
<1>2. CASE Live
  <2>1. CASE LiveDispatch
    BY <2>1, LiveDispatchKeeps
  <2>2. CASE LiveGivesUp
    BY <2>2, LiveGivesUpKeeps
  <2>3. CASE LiveClassify
    BY <2>3, LiveClassifyKeeps
  <2>4. CASE LiveMerge
    BY <2>4, LiveMergeKeeps
  <2>5. CASE LiveMergeFails
    BY <2>5, LiveMergeFailsKeeps
  <2>6. CASE LiveCommit
    BY <2>6, LiveCommitKeeps
  <2>7. CASE LiveCommitFails
    BY <2>7, LiveCommitFailsKeeps
  <2>8. CASE LiveQuery
    BY <2>8, LiveQueryKeeps
  <2>9. CASE LiveDelete
    BY <2>9, LiveDeleteKeeps
  <2>10. CASE LiveRenameFails
    BY <2>10, LiveRenameFailsKeeps
  <2> QED BY <1>2, <2>1, <2>2, <2>3, <2>4, <2>5, <2>6, <2>7, <2>8, <2>9, <2>10 DEF Live
<1>3. CASE Backfill
  <2>1. CASE BackSweep
    BY <2>1, BackSweepKeeps
  <2>2. CASE BackSingle
    BY <2>2, BackSingleKeeps
  <2>3. CASE BackLock
    BY <2>3, BackLockKeeps
  <2>4. CASE BackEnds
    BY <2>4, BackEndsKeeps
  <2>5. CASE BackParse
    BY <2>5, BackParseKeeps
  <2>6. CASE BackMerge
    BY <2>6, BackMergeKeeps
  <2>7. CASE BackMergeFails
    BY <2>7, BackMergeFailsKeeps
  <2>8. CASE BackCommit
    BY <2>8, BackCommitKeeps
  <2>9. CASE BackCommitFails
    BY <2>9, BackCommitFailsKeeps
  <2>10. CASE BackQuery
    BY <2>10, BackQueryKeeps
  <2>11. CASE BackDelete
    BY <2>11, BackDeleteKeeps
  <2>12. CASE BackReset
    BY <2>12, BackResetKeeps
  <2> QED BY <1>3, <2>1, <2>2, <2>3, <2>4, <2>5, <2>6, <2>7, <2>8, <2>9, <2>10, <2>11, <2>12 DEF Backfill
<1>4. CASE LegacyPass
  <2>1. CASE LegacyList
    BY <2>1, LegacyListKeeps
  <2>2. CASE LegacySingle
    BY <2>2, LegacySingleKeeps
  <2>3. CASE LegacyParse
    BY <2>3, LegacyParseKeeps
  <2>4. CASE LegacyMerge
    BY <2>4, LegacyMergeKeeps
  <2>5. CASE LegacyCommit
    BY <2>5, LegacyCommitKeeps
  <2>6. CASE LegacyCommitFails
    BY <2>6, LegacyCommitFailsKeeps
  <2>7. CASE LegacyDelete
    BY <2>7, LegacyDeleteKeeps
  <2> QED BY <1>4, <2>1, <2>2, <2>3, <2>4, <2>5, <2>6, <2>7 DEF LegacyPass
<1>5. CASE Crash
  BY <1>5, CrashKeeps
<1>6. CASE UNCHANGED vars
  BY <1>6 DEF vars, moving, store, clock, rolling, engine, client, IInv, TypeStore, TypeEngine, RowsKnown,
       ListsKnown, EnginesKnown, SourceRowHasFile, HasRow
<1> QED BY <1>1, <1>2, <1>3, <1>4, <1>5, <1>6 DEF Next

LEMMA InvHolds == Spec => []IInv
BY InitHolds, NextKeeps, PTL DEF Spec

\* The variables keep their types, whatever the engines do.
THEOREM TypeCorrect == Spec => []TypeOK
<1>1. IInv => TypeOK
  BY DEF IInv, TypeStore, TypeEngine, TypeOK, BucketType
<1> QED BY <1>1, InvHolds, PTL

\* A source that is still listed has its file, through failed transactions and
\* hold queries, crashes, deletions and all three engines at work at once.
THEOREM SourcesHaveFiles == Spec => []SourceRowHasFile
<1>1. IInv => SourceRowHasFile
  BY DEF IInv
<1> QED BY <1>1, InvHolds, PTL

-----------------------------------------------------------------------------
\* Footage is kept.

Names(f, o) == HasRow(f) /\ row[f].file = o

\* The client is idle, and a segment's file holds the segment only.
OwnSamples == doomed = None /\ \A s, t \in Segs : content[s][t] > 0 <=> s = t

\* A row leads to a file with footage, which no other row leads to.
RowsReadable ==
    \A f \in Files : HasRow(f) =>
        /\ row[f].file \in disk /\ \E s \in Segs : content[row[f].file][s] > 0
        /\ \A g \in Files : Names(g, row[f].file) => g = f

\* An output that is about to be committed holds all it replaces.
OutputsReady ==
    \A e \in Engines : pc[e] = "commit" =>
        /\ out[e] \in disk /\ ~HasRow(out[e])
        /\ \A g \in Files : ~Names(g, out[e])
        /\ \A s \in batch[e] : content[out[e]][s] > 0
        /\ e = "live" /\ bucket.file # None =>
              \A s \in Segs : content[bucket.file][s] > 0 => content[out[e]][s] > 0

\* No two engines write to the same file, nor to the bucket of the live one.
OutputsApart ==
    \A e \in Engines : out[e] # None =>
        /\ \A d \in Engines : d # e => out[d] # out[e]
        /\ e # "live" => out[e] \notin {bucket.file, bucket.row}

\* The bucket's row leads to the bucket's file, from the commit on to the output.
BucketNamed ==
    IF bucket.file # None
    THEN /\ bucket.row \in Outs /\ HasRow(bucket.row)
         /\ IF pc["live"] \in {"query", "delete"}
            THEN /\ row[bucket.row].file = out["live"]
                 /\ \A g \in Files : ~Names(g, bucket.file)
            ELSE row[bucket.row].file = bucket.file
    ELSE pc["live"] \in {"query", "delete"} => Names(out["live"], out["live"])

AllReached == \A s \in 1..recorded : \E f \in Files : Reaches(f, s)

KInv == /\ OwnSamples /\ RowsReadable /\ OutputsReady /\ OutputsApart
        /\ BucketNamed /\ AllReached

Kept == ~AppendBucket /\ erased = {} => KInv

\* A step that adds neither rows nor footage, and takes no file in use.
Frame ==
    /\ UNCHANGED <<recorded, content>> /\ doomed' = None
    /\ \A f \in Files : HasRow(f)' = HasRow(f) /\ row'[f].file = row[f].file
    /\ \A f \in Files : HasRow(f) => row[f].file \in disk'
    /\ \A e \in Engines :
          /\ out'[e] \in {out[e], None}
          /\ pc'[e] = "commit" => /\ pc[e] = "commit" /\ batch'[e] = batch[e]
                                  /\ out'[e] = out[e] /\ out[e] \in disk'
    /\ \/ /\ UNCHANGED bucket
          /\ pc'["live"] \in {"query", "delete"} <=> pc["live"] \in {"query", "delete"}
          /\ pc'["live"] \in {"query", "delete"} => out'["live"] = out["live"]
       \/ bucket' = NoBucket /\ pc'["live"] \notin {"query", "delete"}

LEMMA FrameKeeps ==
    ASSUME IInv, KInv, Frame
    PROVE  KInv'
<1> USE Consts DEF IInv, KInv
<1>h. content' = content
  BY DEF Frame
<1>f. \A f \in Files : row[f].file \in Files \cup {None} /\ row'[f].file = row[f].file
                       /\ HasRow(f)' = HasRow(f)
  BY DEF Frame, TypeStore, RowType
<1>1. OwnSamples'
  BY <1>h DEF Frame, OwnSamples
<1>2. RowsReadable'
  BY <1>f, <1>h DEF RowsReadable, Frame, Names
<1>o. \A e \in Engines : out[e] \in Files \cup {None} /\ out'[e] \in {out[e], None}
  BY DEF TypeEngine, Frame
<1>b. \A e \in Engines : pc'[e] = "commit" =>
         pc[e] = "commit" /\ batch'[e] = batch[e] /\ out'[e] = out[e] /\ out[e] \in disk'
  BY DEF Frame
<1>c. \/ UNCHANGED bucket
      \/ bucket' = NoBucket /\ pc'["live"] \notin {"query", "delete"}
  BY DEF Frame
<1>3. OutputsReady'
  <2> SUFFICES ASSUME NEW e \in Engines, pc'[e] = "commit"
               PROVE  /\ out'[e] \in disk' /\ ~HasRow(out[e])'
                      /\ \A g \in Files : ~(HasRow(g)' /\ row'[g].file = out'[e])
                      /\ \A s \in batch'[e] : content'[out'[e]][s] > 0
                      /\ e = "live" /\ bucket'.file # None =>
                            \A s \in Segs : content'[bucket'.file][s] > 0
                                                 => content'[out'[e]][s] > 0
    BY DEF OutputsReady, Names
  <2>1. /\ pc[e] = "commit" /\ out[e] \in disk /\ out[e] \in Files
        /\ batch'[e] = batch[e] /\ out'[e] = out[e] /\ out[e] \in disk'
    BY <1>b DEF OutputsReady, TypeStore
  <2>2. ~HasRow(out[e])'
    BY <2>1, <1>f DEF OutputsReady, HasRow
  <2>3. CASE UNCHANGED bucket
    BY <2>1, <2>2, <2>3, <1>f, <1>h DEF OutputsReady, Names
  <2>4. CASE bucket'.file = None
    BY <2>1, <2>2, <2>4, <1>f, <1>h DEF OutputsReady, Names
  <2> QED BY <2>3, <2>4, <1>c DEF NoBucket
<1>4. OutputsApart'
  BY <1>o, <1>c DEF OutputsApart, NoBucket, None
<1>5. BucketNamed'
  <2>1. CASE /\ UNCHANGED bucket
             /\ pc'["live"] \in {"query", "delete"} <=> pc["live"] \in {"query", "delete"}
             /\ pc'["live"] \in {"query", "delete"} => out'["live"] = out["live"]
    <3>1. bucket.file \in Files \cup {None} /\ out["live"] \in Files \cup {None}
      BY DEF TypeEngine, BucketType
    <3>2. CASE bucket.file # None
      BY <2>1, <3>1, <3>2, <1>f DEF BucketNamed, Names, HasRow
    <3>3. CASE bucket.file = None
      <4>1. pc["live"] \in {"query", "delete"} => out["live"] \in Outs
        BY DEF EnginesKnown
      <4> QED BY <2>1, <3>1, <3>3, <4>1, <1>f DEF BucketNamed, Names, HasRow
    <3> QED BY <3>2, <3>3
  <2>2. CASE bucket' = NoBucket /\ pc'["live"] \notin {"query", "delete"}
    BY <2>2 DEF BucketNamed, NoBucket
  <2> QED BY <2>1, <2>2 DEF Frame
<1>6. AllReached'
  <2>1. \A f \in Files, s \in Segs : Reaches(f, s) => Reaches(f, s)'
    BY <1>f, <1>h DEF Frame, Reaches
  <2>2. 1..recorded \subseteq Segs /\ recorded' = recorded
    BY DEF TypeStore, Frame
  <2> QED BY <2>1, <2>2 DEF AllReached
<1> QED BY <1>1, <1>2, <1>3, <1>4, <1>5, <1>6

\* What a step may remove: segments without a row, and an output that failed.
LEMMA Removable ==
    ASSUME IInv, KInv
    PROVE  /\ \A f \in Files : HasRow(f) =>
                 /\ row[f].file \in disk
                 /\ \A e \in Engines : \A s \in batch[e] : ~HasRow(s) => row[f].file # s
                 /\ \A e \in Engines : pc[e] = "commit" => row[f].file # out[e]
           /\ \A e \in Engines : pc[e] = "commit" => out[e] \in disk /\ out[e] \notin Segs
           /\ \A e, d \in Engines : d # e /\ pc[e] = "commit" => out[d] # out[e]
<1> USE Consts DEF IInv, KInv
<1>1. ASSUME NEW f \in Files, HasRow(f), NEW e \in Engines, NEW s \in batch[e], ~HasRow(s)
      PROVE  row[f].file # s
  BY <1>1 DEF RowsKnown, TypeEngine
<1> QED BY <1>1 DEF RowsReadable, OutputsReady, OutputsApart, Names, EnginesKnown, TypeStore

LEMMA OutsideFrames ==
    ASSUME IInv, KInv
    PROVE  /\ Age \/ DeleteFile => Frame
           /\ \A s \in Segs : TaskLands(s) \/ TaskEnds(s) => Frame
           /\ \A f \in Files : SweepOrphan(f) => Frame
<1> USE Consts, Removable DEF KInv, Frame, store, clock, rolling, engine, client, OwnSamples, HasRow, None
<1>1. Age => Frame
  BY DEF Age
<1>2. DeleteFile => Frame
  BY DEF DeleteFile
<1>3. ASSUME NEW s \in Segs PROVE TaskLands(s) \/ TaskEnds(s) => Frame
  BY DEF TaskLands, TaskEnds
<1>4. ASSUME NEW f \in Files PROVE SweepOrphan(f) => Frame
  BY DEF SweepOrphan
<1> QED BY <1>1, <1>2, <1>3, <1>4

LEMMA LiveFrames ==
    ASSUME IInv, KInv
    PROVE  LiveDispatch \/ LiveGivesUp \/ LiveClassify \/ LiveMergeFails \/ LiveCommitFails
               \/ LiveQuery => Frame
<1> USE Consts, Removable DEF IInv, KInv, TypeEngine, Frame, store, clock, rolling, engine, client, OwnSamples,
        HasRow, None, Goto, Take, Return, LiveUnlock, Fail
<1>1. LiveDispatch => Frame
  BY DEF LiveDispatch
<1>2. LiveGivesUp => Frame
  BY DEF LiveGivesUp
<1>3. LiveClassify => Frame
  BY DEF LiveClassify
<1>4. LiveMergeFails => Frame
  BY DEF LiveMergeFails
<1>5. LiveCommitFails => Frame
  BY DEF LiveCommitFails
<1>6. LiveQuery => Frame
  BY DEF LiveQuery
<1> QED BY <1>1, <1>2, <1>3, <1>4, <1>5, <1>6

LEMMA BackFrames ==
    ASSUME IInv, KInv
    PROVE  BackSweep \/ BackSingle \/ BackLock \/ BackEnds \/ BackParse \/ BackMergeFails
               \/ BackCommitFails \/ BackQuery \/ BackDelete \/ BackReset => Frame
<1> USE Consts, Removable DEF IInv, KInv, TypeEngine, Frame, store, clock, rolling, engine, client, OwnSamples,
        HasRow, None, Goto, Take, BackUnlock, Fail
<1>m. ASSUME NEW S, NEW status \in {"merged", "incompatible", "failed"}, Mark(S, status)
      PROVE  \A f \in Files : HasRow(f)' = HasRow(f) /\ row'[f].file = row[f].file
  BY <1>m, MarkRows
<1>1. BackSweep => Frame
  BY DEF BackSweep
<1>2. BackSingle => Frame
  BY <1>m DEF BackSingle
<1>3. BackLock => Frame
  BY DEF BackLock
<1>4. BackEnds => Frame
  BY DEF BackEnds
<1>5. BackParse => Frame
  BY <1>m DEF BackParse
<1>6. BackMergeFails => Frame
  BY <1>m DEF BackMergeFails
<1>7. BackCommitFails => Frame
  BY DEF BackCommitFails
<1>8. BackQuery => Frame
  BY DEF BackQuery
<1>9. BackDelete => Frame
  BY DEF BackDelete, EnginesKnown
<1>10. BackReset => Frame
  BY DEF BackReset
<1> QED BY <1>1, <1>2, <1>3, <1>4, <1>5, <1>6, <1>7, <1>8, <1>9, <1>10

LEMMA LegacyFrames ==
    ASSUME IInv, KInv
    PROVE  LegacyList \/ LegacySingle \/ LegacyParse \/ LegacyCommitFails \/ LegacyDelete
               \/ Crash => Frame
<1> USE Consts, Removable DEF IInv, KInv, TypeEngine, Frame, store, clock, rolling, engine, client, OwnSamples,
        HasRow, None, Goto, Take, Return, Fail
<1>1. LegacyList => Frame
  BY DEF LegacyList
<1>2. LegacySingle => Frame
  BY MarkRows DEF LegacySingle
<1>3. LegacyParse => Frame
  BY DEF LegacyParse, TypeStore, RowType
<1>4. LegacyCommitFails => Frame
  BY DEF LegacyCommitFails
<1>5. LegacyDelete => Frame
  BY DEF LegacyDelete, EnginesKnown
<1>6. Crash => Frame
  BY DEF Crash
<1> QED BY <1>1, <1>2, <1>3, <1>4, <1>5, <1>6

LEMMA RecordKeepsFootage ==
    ASSUME IInv, KInv, Record
    PROVE  KInv'
<1> USE Consts DEF IInv, KInv
<1>n. PICK n \in Segs : n = recorded + 1
  BY DEF Record, TypeStore
<1>1. /\ recorded' = n /\ disk' = disk \cup {n} /\ ~(n <= recorded)
      /\ \A f \in Files : row'[f] = IF f = n THEN [status |-> "pending", file |-> n,
                                     start |-> recorded, end |-> n, wall |-> 1] ELSE row[f]
      /\ UNCHANGED <<content, bucket, pc, out, batch, doomed>>
  BY <1>n DEF Record, TypeStore, rolling, engine, client
<1>2. ~HasRow(n) /\ HasRow(n)' /\ row'[n].file = n
  BY <1>1 DEF HasRow, RowsKnown
<1>3. \A f \in Files : f # n => row'[f] = row[f] /\ HasRow(f)' = HasRow(f) /\ (HasRow(f) => row[f].file # n)
  BY <1>1, <1>2 DEF HasRow, RowsKnown
<1>4. OwnSamples'
  BY <1>1 DEF OwnSamples
<1>5. content[n][n] > 0
  BY <1>1 DEF OwnSamples
<1>6. RowsReadable'
  BY <1>1, <1>2, <1>3, <1>5 DEF RowsReadable, Names
<1>7. \A e \in Engines : out[e] # n
  BY <1>1 DEF EnginesKnown
<1>8. OutputsReady'
  <2>1. \A e \in Engines : pc[e] = "commit" => out[e] \in Files
    BY DEF OutputsReady, TypeStore
  <2> QED BY <1>1, <1>2, <1>3, <1>7, <2>1 DEF OutputsReady, Names, HasRow
<1>9. OutputsApart'
  BY <1>1 DEF OutputsApart
<1>10. BucketNamed'
  <2>1. bucket.row # n /\ bucket.file # n
    BY <1>1 DEF ListsKnown
  <2>2. pc["live"] \in {"query", "delete"} => out["live"] \in Outs
    BY DEF EnginesKnown
  <2>3. CASE bucket.file # None
    BY <1>1, <1>2, <1>3, <2>1, <2>3 DEF BucketNamed, Names, HasRow
  <2>4. CASE bucket.file = None
    BY <1>1, <1>2, <1>3, <1>7, <2>2, <2>4 DEF BucketNamed, Names, HasRow
  <2> QED BY <2>3, <2>4
<1>11. AllReached'
  <2>1. ASSUME NEW s \in 1..recorded PROVE \E f \in Files : Reaches(f, s)'
    <3>1. PICK f \in Files : Reaches(f, s)
      BY DEF AllReached
    <3>2. f # n
      BY <3>1, <1>2 DEF Reaches
    <3> QED BY <3>1, <3>2, <1>1, <1>3 DEF Reaches
  <2>2. Reaches(n, n)'
    BY <1>1, <1>2, <1>5 DEF Reaches
  <2>3. \A s \in 1..n : s \in 1..recorded \/ s = n
    BY <1>n DEF TypeStore
  <2> QED BY <1>1, <2>1, <2>2, <2>3 DEF AllReached
<1> QED BY <1>4, <1>6, <1>8, <1>9, <1>10, <1>11

\* Engine e writes its output o, with samples c.
LEMMA WriteKeeps ==
    ASSUME IInv, KInv, NEW e \in Engines, NEW o \in FreeOuts, NEW c \in [Segs -> Nat],
           pc[e] = "merge", UNCHANGED <<recorded, row, doomed>>, disk' = disk \cup {o},
           content' = [content EXCEPT ![o] = c],
           pc' = [pc EXCEPT ![e] = "commit"], out' = [out EXCEPT ![e] = o],
           bucket'.file = bucket.file, bucket'.row = bucket.row,
           \A d \in Engines \ {e} : batch'[d] = batch[d],
           \A s \in batch'[e] : s \in Segs /\ c[s] > 0,
           e = "live" /\ bucket.file # None =>
               \A s \in Segs : content[bucket.file][s] > 0 => c[s] > 0
    PROVE  KInv'
<1> USE Consts DEF IInv, KInv
<1>o. /\ o \in Outs /\ o \notin Segs /\ o \in Files /\ o # None /\ ~HasRow(o) /\ o \notin disk
      /\ o # bucket.file /\ o # bucket.row /\ \A d \in Engines : out[d] # o
  BY DEF FreeOuts
<1>c. content'[o] = c /\ \A f \in Files : f # o => content'[f] = content[f]
  BY <1>o DEF TypeStore
<1>h. \A f \in Files : HasRow(f)' = HasRow(f)
  BY DEF HasRow
<1>1. \A f \in Files : HasRow(f) => row[f].file \in disk /\ row[f].file # o /\ row[f].file \in Files
  BY <1>o DEF RowsReadable, TypeStore
<1>2. OwnSamples'
  BY <1>o, <1>c DEF OwnSamples
<1>3. RowsReadable'
  BY <1>c, <1>h, <1>1 DEF RowsReadable, Names
<1>p. pc'[e] = "commit" /\ \A d \in Engines : d # e => pc'[d] = pc[d]
  BY DEF TypeEngine
<1>q. out'[e] = o /\ \A d \in Engines : d # e => out'[d] = out[d]
  BY DEF TypeEngine
<1>f. bucket.file \in Files \cup {None}
  BY DEF TypeEngine, BucketType
<1>4. OutputsReady'
  <2> SUFFICES ASSUME NEW d \in Engines, pc'[d] = "commit"
               PROVE  /\ out'[d] \in disk' /\ ~HasRow(out[d])'
                      /\ \A g \in Files : ~(HasRow(g)' /\ row'[g].file = out'[d])
                      /\ \A s \in batch'[d] : content'[out'[d]][s] > 0
                      /\ d = "live" /\ bucket'.file # None =>
                            \A s \in Segs : content'[bucket'.file][s] > 0
                                                 => content'[out'[d]][s] > 0
    BY DEF OutputsReady, Names
  <2>1. CASE d = e
    <3>1. ~HasRow(out[d])'
      BY <2>1, <1>q, <1>o DEF HasRow
    <3> QED BY <2>1, <3>1, <1>o, <1>c, <1>h, <1>1, <1>q, <1>f
  <2>2. CASE d # e
    <3>1. pc[d] = "commit" /\ out'[d] = out[d] /\ batch'[d] = batch[d]
      BY <2>2, <1>p, <1>q
    <3>2. out[d] \in disk /\ out[d] # o /\ out[d] \in Files
      BY <3>1, <1>o DEF OutputsReady, TypeStore
    <3>3. ~HasRow(out[d])'
      BY <3>1, <3>2 DEF OutputsReady, HasRow
    <3>4. content'[out'[d]] = content[out[d]]
      BY <3>1, <3>2, <1>c
    <3>5. bucket'.file # None => content'[bucket'.file] = content[bucket.file]
      BY <1>o, <1>c, <1>f
    <3> QED BY <3>1, <3>2, <3>3, <3>4, <3>5, <1>h DEF OutputsReady, Names
  <2> QED BY <2>1, <2>2
<1>5. OutputsApart'
  BY <1>o, <1>q DEF OutputsApart
<1>6. BucketNamed'
  <2>1. CASE e = "live"
    <3>1. pc'["live"] = "commit"
      BY <2>1, <1>p
    <3>2. pc["live"] \notin {"query", "delete"} => BucketNamed'
      BY <3>1, <1>h DEF BucketNamed, HasRow
    <3> QED BY <3>1, <3>2
  <2>2. CASE e # "live"
    <3>1. pc'["live"] = pc["live"] /\ out'["live"] = out["live"]
      BY <2>2, <1>p, <1>q
    <3> QED BY <3>1, <1>h DEF BucketNamed, Names, HasRow
  <2> QED BY <2>1, <2>2
<1>7. AllReached'
  <2>1. \A f \in Files, s \in Segs : Reaches(f, s) => Reaches(f, s)'
    BY <1>1, <1>c, <1>h DEF Reaches
  <2>2. 1..recorded \subseteq Segs
    BY DEF TypeStore
  <2> QED BY <2>1, <2>2 DEF AllReached
<1> QED BY <1>2, <1>3, <1>4, <1>5, <1>6, <1>7

LEMMA NewOutFree == ASSUME FreeOuts # {} PROVE Min(FreeOuts) \in FreeOuts
<1>1. FreeOuts \subseteq Nat
  BY RollingMergeAssumption DEF FreeOuts, Outs
<1> QED BY <1>1, MinIn

LEMMA MergesKeepFootage ==
    ASSUME IInv, KInv, ~AppendBucket
    PROVE  LiveMerge \/ BackMerge \/ LegacyMerge => KInv'
<1> USE Consts
<1>s. \A S \in SUBSET Segs : /\ Samples(S) \in [Segs -> Nat]
                             /\ \A s \in S : Samples(S)[s] > 0
  BY DEF Samples
<1>b. \A e \in Engines : batch[e] \subseteq Segs
  BY DEF IInv, TypeEngine
<1>1. ASSUME LiveMerge PROVE KInv'
  <2> DEFINE o == Min(FreeOuts)
             c == IF bucket.file = None THEN Samples(batch["live"])
                                        ELSE Joined(bucket.file, batch["live"])
  <2>1. /\ pc["live"] = "merge" /\ UNCHANGED <<recorded, row, doomed, batch>>
        /\ o \in FreeOuts /\ content' = [content EXCEPT ![o] = c]
        /\ disk' = disk \cup {o} /\ out' = [out EXCEPT !["live"] = o]
        /\ pc' = [pc EXCEPT !["live"] = "commit"] /\ bucket' = Advance(bucket, batch["live"])
    BY <1>1, NewOutFree DEF LiveMerge, InPlace, client, clock, Goto
  <2>2. bucket'.file = bucket.file /\ bucket'.row = bucket.row
    BY <2>1, <1>b, AdvanceType DEF IInv, TypeEngine, EnginesKnown
  <2>3. /\ c \in [Segs -> Nat] /\ \A s \in batch["live"] : s \in Segs /\ c[s] > 0
        /\ bucket.file # None => \A s \in Segs : content[bucket.file][s] > 0 => c[s] > 0
    <3>1. CASE bucket.file = None
      BY <3>1, <1>s, <1>b
    <3>2. CASE bucket.file # None
      <4>1. bucket.file \in Files /\ content \in [Files -> [Segs -> Nat]]
        BY <3>2 DEF IInv, TypeStore, TypeEngine, BucketType
      <4>2. \A s \in Segs : c[s] = content[bucket.file][s] + Samples(batch["live"])[s]
        BY <3>2 DEF Joined
      <4>3. c \in [Segs -> Nat]
        BY <3>2, <4>1, JoinedType DEF IInv
      <4> HIDE DEF c
      <4>4. content[bucket.file] \in [Segs -> Nat] /\ Samples(batch["live"]) \in [Segs -> Nat]
        BY <4>1, <1>s, <1>b
      <4> QED BY <4>2, <4>3, <4>4, <1>s, <1>b
    <3> QED BY <3>1, <3>2
  <2> HIDE DEF o, c
  <2> QED BY <2>1, <2>2, <2>3, WriteKeeps
<1>2. ASSUME BackMerge PROVE KInv'
  <2> DEFINE S == batch["backfill"] \cap disk
             o == Min(FreeOuts)
  <2>1. CASE Cardinality(S) < 2
    <3>1. Frame
      BY <1>2, <2>1, Removable DEF BackMerge, IInv, KInv, TypeEngine, Frame, clock, rolling,
           client, OwnSamples, HasRow, None, Take, BackUnlock, Goto
    <3> QED BY <3>1, FrameKeeps
  <2>2. CASE ~(Cardinality(S) < 2)
    <3>1. /\ pc["backfill"] = "merge" /\ UNCHANGED <<recorded, row, doomed, bucket>>
          /\ o \in FreeOuts /\ content' = [content EXCEPT ![o] = Samples(S)]
          /\ disk' = disk \cup {o} /\ out' = [out EXCEPT !["backfill"] = o]
          /\ pc' = [pc EXCEPT !["backfill"] = "commit"]
          /\ batch' = [batch EXCEPT !["backfill"] = S]
      BY <1>2, <2>2, NewOutFree DEF BackMerge, rolling, client, Goto, Take
    <3>2. batch'["backfill"] = S /\ \A d \in Engines \ {"backfill"} : batch'[d] = batch[d]
      BY <3>1 DEF IInv, TypeEngine
    <3>3. PICK c \in [Segs -> Nat] : c = Samples(S) /\ \A s \in S : s \in Segs /\ c[s] > 0
      BY <1>b, <1>s
    <3>4. \A s \in batch'["backfill"] : s \in Segs /\ c[s] > 0
      BY <3>2, <3>3
    <3> HIDE DEF S, o
    <3> QED BY <3>1, <3>2, <3>3, <3>4, WriteKeeps
  <2> QED BY <2>1, <2>2
<1>3. ASSUME LegacyMerge PROVE KInv'
  <2> DEFINE S == batch["legacy"]
             o == Min(FreeOuts)
  <2>1. CASE ~(S \subseteq disk /\ FreeOuts # {})
    <3>1. Frame
      BY <1>3, <2>1, Removable DEF LegacyMerge, IInv, KInv, TypeEngine, Frame, clock, rolling,
           client, OwnSamples, HasRow, None, Return
    <3> QED BY <3>1, FrameKeeps
  <2>2. CASE S \subseteq disk /\ FreeOuts # {}
    <3>1. /\ pc["legacy"] = "merge" /\ UNCHANGED <<recorded, row, doomed, bucket, batch>>
          /\ o \in FreeOuts /\ content' = [content EXCEPT ![o] = Samples(S)]
          /\ disk' = disk \cup {o} /\ out' = [out EXCEPT !["legacy"] = o]
          /\ pc' = [pc EXCEPT !["legacy"] = "commit"]
      BY <1>3, <2>2, NewOutFree DEF LegacyMerge, rolling, client, Goto
    <3>2. batch'["legacy"] = S /\ S \subseteq Segs
      BY <3>1, <1>b
    <3> HIDE DEF S, o
    <3> QED BY <3>1, <3>2, <1>s, WriteKeeps
  <2> QED BY <2>1, <2>2
<1> QED BY <1>1, <1>2, <1>3

\* Outputs are committed: engine e's row at o replaces those of its batch.
LEMMA InsertKeeps ==
    ASSUME IInv, KInv, NEW e \in Engines, pc[e] = "commit", e = "live" => bucket.file = None,
           NEW r, r.file = out[e], r.status # "none", Replace(out[e], r, batch[e]),
           UNCHANGED <<recorded, content, disk, doomed, bucket, out, batch>>,
           NEW p \in {"query", "delete"}, pc' = [pc EXCEPT ![e] = p]
    PROVE  KInv'
<1> USE Consts DEF IInv, KInv
<1> DEFINE o == out[e]
<1>o. /\ o \in Outs /\ o \notin Segs /\ o \in Files /\ o # None /\ ~HasRow(o) /\ o \in disk
      /\ \A g \in Files : ~Names(g, o)
      /\ \A s \in batch[e] : s \in Segs /\ content[o][s] > 0
      /\ \E s \in Segs : content[o][s] > 0
      /\ \A d \in Engines : d # e => out[d] # o
      /\ e # "live" => o \notin {bucket.file, bucket.row}
  BY DEF OutputsReady, OutputsApart, EnginesKnown, TypeStore, TypeEngine
<1>r. /\ row'[o].file = o /\ HasRow(o)'
      /\ \A f \in Files : f # o => /\ row'[f] = IF f \in batch[e] THEN NoRow ELSE row[f]
                                   /\ HasRow(f)' <=> HasRow(f) /\ f \notin batch[e]
  BY <1>o DEF Replace, HasRow, NoRow
<1>p. pc'[e] = p /\ \A d \in Engines : d # e => pc'[d] = pc[d]
  BY DEF TypeEngine
<1>1. OwnSamples'
  BY DEF OwnSamples
<1>2. RowsReadable'
  BY <1>o, <1>r DEF RowsReadable, Names
<1>3. OutputsReady'
  <2> SUFFICES ASSUME NEW d \in Engines, pc'[d] = "commit"
               PROVE  /\ out[d] \in disk /\ ~HasRow(out[d])'
                      /\ \A g \in Files : ~(HasRow(g)' /\ row'[g].file = out[d])
                      /\ \A s \in batch[d] : content[out[d]][s] > 0
                      /\ d = "live" /\ bucket.file # None =>
                            \A s \in Segs : content[bucket.file][s] > 0
                                                 => content[out[d]][s] > 0
    BY DEF OutputsReady, Names
  <2>1. d # e /\ pc[d] = "commit"
    BY <1>p
  <2>2. out[d] # o /\ out[d] \in Files
    BY <2>1, <1>o DEF OutputsReady, TypeStore
  <2>3. ~HasRow(out[d])'
    BY <2>1, <2>2, <1>r DEF OutputsReady, HasRow
  <2> QED BY <2>1, <2>2, <2>3, <1>r, <1>o DEF OutputsReady, Names
<1>4. OutputsApart'
  BY DEF OutputsApart
<1>5. BucketNamed'
  <2>1. CASE e = "live"
    <3>1. bucket'.file = None /\ out'["live"] = o /\ bucket' = bucket
      BY <2>1
    <3> QED BY <3>1, <1>r DEF BucketNamed, Names, HasRow
  <2>2. CASE e # "live"
    <3>1. pc'["live"] = pc["live"] /\ out'["live"] = out["live"]
      BY <2>2, <1>p
    <3>2. CASE bucket.file # None
      <4>1. bucket.row \in Files /\ bucket.row # o /\ bucket.row \notin batch[e] /\ bucket.file # o
        BY <2>2, <3>2, <1>o DEF BucketNamed
      <4> QED BY <3>1, <3>2, <4>1, <1>r, <1>o DEF BucketNamed, Names, HasRow
    <3>3. CASE bucket.file = None /\ pc["live"] \in {"query", "delete"}
      <4>1. out["live"] \in Outs /\ out["live"] # o
        BY <2>2, <3>3, <1>o DEF EnginesKnown
      <4>2. out["live"] \in Files /\ out["live"] \notin batch[e]
        BY <4>1, <1>o
      <4> QED BY <3>1, <3>3, <4>1, <4>2, <1>r DEF BucketNamed, Names, HasRow
    <3> QED BY <3>1, <3>2, <3>3 DEF BucketNamed
  <2> QED BY <2>1, <2>2
<1>6. AllReached'
  <2> SUFFICES ASSUME NEW s \in 1..recorded PROVE \E f \in Files : Reaches(f, s)'
    BY DEF AllReached
  <2>1. PICK f \in Files : Reaches(f, s)
    BY DEF AllReached
  <2>2. s \in Segs
    BY DEF TypeStore
  <2>3. CASE f \in batch[e]
    <3>1. s = f
      BY <2>1, <2>2, <2>3, <1>o DEF Reaches, RowsKnown, OwnSamples
    <3>2. Reaches(o, s)'
      BY <3>1, <2>3, <1>o, <1>r DEF Reaches, HasRow
    <3> QED BY <3>2, <1>o
  <2>4. CASE f \notin batch[e]
    <3>1. f # o
      BY <2>1, <1>o DEF Reaches
    <3> QED BY <3>1, <2>1, <2>4, <1>r DEF Reaches
  <2> QED BY <2>3, <2>4
<1> QED BY <1>1, <1>2, <1>3, <1>4, <1>5, <1>6

\* The bucket's row is moved on to the file that holds the bucket and the run.
LEMMA UpdateKeeps ==
    ASSUME IInv, KInv, LiveCommit, bucket.file # None
    PROVE  KInv'
<1> USE Consts DEF IInv, KInv
<1>v. PICK o \in Files, r \in Files, S \in SUBSET Segs :
                o = out["live"] /\ r = bucket.row /\ S = batch["live"]
  BY DEF LiveCommit, EnginesKnown, BucketNamed, TypeEngine
<1>u. /\ pc["live"] = "commit" /\ pc' = [pc EXCEPT !["live"] = "query"]
      /\ UNCHANGED <<recorded, content, disk, doomed, bucket, out, batch>>
  BY DEF LiveCommit, rolling, client, Goto
<1>o. /\ o \in Outs /\ o \notin Segs /\ o \in Files /\ o # None /\ ~HasRow(o) /\ o \in disk
      /\ \A g \in Files : ~Names(g, o)
      /\ \A s \in S : s \in Segs /\ content[o][s] > 0
      /\ \E s \in Segs : content[o][s] > 0
      /\ \A s \in Segs : content[bucket.file][s] > 0 => content[o][s] > 0
      /\ \A d \in Engines : d # "live" => out[d] # o
  BY <1>u, <1>v DEF OutputsReady, OutputsApart, EnginesKnown, TypeStore, TypeEngine
<1>b. /\ r \in Outs /\ r \in Files /\ HasRow(r) /\ r \notin S /\ row[r].file = bucket.file
      /\ \A f \in Files : f # r => ~Names(f, bucket.file)
  BY <1>u, <1>v, <1>o DEF BucketNamed, RowsReadable, Names
<1>r. /\ row'[r].file = o /\ HasRow(r)'
      /\ \A f \in Files : f # r => /\ row'[f] = IF f \in S THEN NoRow ELSE row[f]
                                   /\ HasRow(f)' <=> HasRow(f) /\ f \notin S
  <2>1. \A f \in Files : row'[f] = IF f \in S THEN NoRow ELSE IF f = r
                          THEN [row[r] EXCEPT !.file = o, !.start = Min({@, bucket.start}),
                                     !.end = Max({@, bucket.end}), !.wall = bucket.wall]
                          ELSE row[f]
    BY <1>b, <1>v DEF LiveCommit
  <2>2. row[r] \in RowType
    BY <1>b DEF TypeStore
  <2>3. row'[r] = [row[r] EXCEPT !.file = o, !.start = Min({@, bucket.start}),
                                     !.end = Max({@, bucket.end}), !.wall = bucket.wall]
    BY <2>1, <1>b
  <2>4. row'[r].file = o /\ row'[r].status = row[r].status
    BY <2>2, <2>3 DEF RowType
  <2> QED BY <2>1, <2>4, <1>b DEF HasRow, NoRow
<1>p. \A d \in Engines : pc'[d] = "commit" => d # "live" /\ pc[d] = "commit"
  BY <1>u DEF TypeEngine
<1>q. pc'["live"] = "query" /\ out'["live"] = o /\ bucket'.row = r
  BY <1>u, <1>v DEF TypeEngine
<1>1. OwnSamples'
  BY <1>u DEF OwnSamples
<1>2. RowsReadable'
  BY <1>u, <1>o, <1>b, <1>r DEF RowsReadable, Names
<1>3. OutputsReady'
  <2> SUFFICES ASSUME NEW d \in Engines, pc'[d] = "commit"
               PROVE  /\ out[d] \in disk /\ ~HasRow(out[d])'
                      /\ \A g \in Files : ~(HasRow(g)' /\ row'[g].file = out[d])
                      /\ \A s \in batch[d] : content[out[d]][s] > 0
    BY <1>u, <1>p DEF OutputsReady, Names
  <2>1. d # "live" /\ pc[d] = "commit"
    BY <1>p
  <2>2. out[d] # o /\ out[d] \in Files /\ ~HasRow(out[d]) /\ out[d] # r
    BY <2>1, <1>o, <1>b DEF OutputsReady, TypeStore
  <2>3. ~HasRow(out[d])'
    BY <2>2, <1>r, <1>u DEF HasRow
  <2> QED BY <2>1, <2>2, <2>3, <1>r, <1>o DEF OutputsReady, Names
<1>4. OutputsApart'
  BY <1>u DEF OutputsApart
<1>5. BucketNamed'
  <2>1. bucket.file # o
    BY <1>b, <1>o DEF Names
  <2>2. \A g \in Files : ~(HasRow(g)' /\ row'[g].file = bucket.file)
    BY <2>1, <1>b, <1>r DEF Names
  <2>3. HasRow(bucket.row)'
    BY <1>r, <1>q, <1>u DEF HasRow
  <2> QED BY <1>u, <1>q, <1>b, <1>r, <2>2, <2>3 DEF BucketNamed, Names
<1>6. AllReached'
  <2> SUFFICES ASSUME NEW s \in 1..recorded PROVE \E f \in Files : Reaches(f, s)'
    BY <1>u DEF AllReached
  <2>1. PICK f \in Files : Reaches(f, s)
    BY DEF AllReached
  <2>2. s \in Segs
    BY DEF TypeStore
  <2>3. content[o][s] > 0 => Reaches(r, s)'
    BY <1>u, <1>o, <1>r DEF Reaches
  <2>4. CASE f \in S
    <3>1. s = f
      BY <2>1, <2>2, <2>4, <1>o DEF Reaches, RowsKnown, OwnSamples
    <3> QED BY <3>1, <2>3, <2>4, <1>o, <1>b
  <2>5. CASE f = r
    BY <2>1, <2>2, <2>3, <2>5, <1>o, <1>b DEF Reaches
  <2>6. CASE f \notin S /\ f # r
    BY <2>1, <2>6, <1>r, <1>u DEF Reaches
  <2> QED BY <2>4, <2>5, <2>6
<1> QED BY <1>1, <1>2, <1>3, <1>4, <1>5, <1>6

LEMMA CommitsKeepFootage ==
    ASSUME IInv, KInv
    PROVE  LiveCommit \/ BackCommit \/ LegacyCommit => KInv'
<1> USE Consts
<1>b. \A o, S : BatchRow(o, S).file = o /\ BatchRow(o, S).status # "none"
                /\ Span(o, S).file = o /\ Span(o, S).status # "none"
  BY DEF BatchRow, Span
<1>1. ASSUME LiveCommit PROVE KInv'
  <2>1. CASE bucket.file # None
    BY <1>1, <2>1, UpdateKeeps
  <2>2. CASE bucket.file = None
    BY <1>1, <2>2, <1>b, InsertKeeps DEF LiveCommit, rolling, client, Goto
  <2> QED BY <2>1, <2>2
<1>2. ASSUME BackCommit PROVE KInv'
  BY <1>2, <1>b, InsertKeeps DEF BackCommit, rolling, client, Goto
<1>3. ASSUME LegacyCommit PROVE KInv'
  BY <1>3, <1>b, InsertKeeps DEF LegacyCommit, rolling, client, Goto
<1> QED BY <1>1, <1>2, <1>3

LEMMA LiveDeleteKeepsFootage ==
    ASSUME IInv, KInv, ~AppendBucket, LiveDelete
    PROVE  KInv'
<1> USE Consts DEF IInv, KInv
<1> DEFINE o == out["live"]
<1>u. /\ pc["live"] = "delete" /\ UNCHANGED <<recorded, content, row, doomed>>
      /\ pc' = [pc EXCEPT !["live"] = "idle"] /\ batch' = [batch EXCEPT !["live"] = {}]
      /\ out' = [out EXCEPT !["live"] = None]
      /\ disk' = disk \ (batch["live"] \cup (IF bucket.file = o THEN {} ELSE {bucket.file}))
      /\ bucket' = [bucket EXCEPT !.file = o, !.row = IF bucket.file = None THEN o ELSE @]
  BY DEF LiveDelete, LiveUnlock, Return, client, clock
<1>o. o \in Outs /\ o \in Files /\ o # None /\ \A s \in batch["live"] : s \in Segs /\ ~HasRow(s)
  BY <1>u DEF EnginesKnown, TypeEngine
<1>b. /\ bucket'.file = o
      /\ bucket'.row = IF bucket.file = None THEN o ELSE bucket.row
  BY <1>u DEF TypeEngine, BucketType
<1>n. /\ HasRow(bucket'.row) /\ bucket'.row \in Outs /\ row[bucket'.row].file = o
      /\ bucket.file # None => \A g \in Files : ~Names(g, bucket.file)
  BY <1>u, <1>o, <1>b DEF BucketNamed, Names
<1>d. \A e \in Engines : e # "live" => /\ pc'[e] = pc[e] /\ out'[e] = out[e]
                                       /\ batch'[e] = batch[e]
  BY <1>u DEF TypeEngine
<1>l. pc'["live"] = "idle" /\ out'["live"] = None
  BY <1>u DEF TypeEngine
<1>h. \A f \in Files : HasRow(f)' = HasRow(f)
  BY <1>u DEF HasRow
<1>1. OwnSamples'
  BY <1>u DEF OwnSamples
<1>f. \A f \in Files : HasRow(f) => row[f].file \in disk'
  <2> SUFFICES ASSUME NEW f \in Files, HasRow(f) PROVE row[f].file \in disk'
    OBVIOUS
  <2>1. row[f].file \in disk /\ row[f].file \in Files
    BY DEF RowsReadable, TypeStore
  <2>2. row[f].file \notin batch["live"]
    BY <1>o DEF RowsKnown
  <2>3. row[f].file # bucket.file
    BY <2>1, <1>n DEF Names
  <2> QED BY <2>1, <2>2, <2>3, <1>u
<1>2. RowsReadable'
  BY <1>u, <1>h, <1>f DEF RowsReadable, Names
<1>3. OutputsReady'
  <2> SUFFICES ASSUME NEW d \in Engines, d # "live", pc[d] = "commit"
               PROVE  /\ out[d] \in disk' /\ ~HasRow(out[d])
                      /\ \A g \in Files : ~(HasRow(g) /\ row[g].file = out[d])
                      /\ \A s \in batch[d] : content[out[d]][s] > 0
    <3>1. \A d \in Engines : pc'[d] = "commit" => d # "live" /\ pc[d] = "commit" /\ out'[d] = out[d]
      BY <1>d, <1>l
    <3>2. \A d \in Engines : out'[d] = out[d] => HasRow(out[d])' = HasRow(out[d])
      BY <1>u DEF HasRow
    <3> QED BY <3>1, <3>2, <1>u, <1>d, <1>h DEF OutputsReady, Names
  <2>1. out[d] \in disk /\ out[d] \in Files /\ out[d] \notin Segs /\ out[d] # bucket.file
    BY DEF OutputsReady, OutputsApart, EnginesKnown, TypeStore
  <2>2. out[d] \in disk'
    BY <2>1, <1>u, <1>o
  <2> QED BY <2>2 DEF OutputsReady, Names
<1>4. OutputsApart'
  BY <1>b, <1>d, <1>l, <1>o DEF OutputsApart
<1>5. BucketNamed'
  <2>1. HasRow(bucket.row)'
    BY <1>n, <1>u DEF HasRow
  <2> QED BY <1>b, <1>n, <1>l, <1>o, <1>u, <2>1 DEF BucketNamed
<1>6. AllReached'
  BY <1>u, <1>h, <1>f DEF AllReached, Reaches
<1> QED BY <1>1, <1>2, <1>3, <1>4, <1>5, <1>6

\* A client's deletion takes footage with it.
LEMMA DeletionErases ==
    ASSUME IInv, KInv, NEW f \in Files, DeleteRow(f)
    PROVE  erased' # {}
BY DEF DeleteRow, KInv, RowsReadable

LEMMA KeptInit == Init => Kept
<1> SUFFICES ASSUME Init PROVE KInv
  BY DEF Kept
<1> USE Consts DEF Init, NoRow, NoBucket, None, HasRow, Names
<1>1. OwnSamples /\ RowsReadable
  BY DEF OwnSamples, RowsReadable
<1>2. OutputsReady /\ OutputsApart /\ BucketNamed
  BY DEF OutputsReady, OutputsApart, BucketNamed
<1>3. AllReached
  BY DEF AllReached
<1> QED BY <1>1, <1>2, <1>3 DEF KInv

LEMMA KeptNext == IInv /\ Kept /\ [Next]_vars => Kept'
<1> SUFFICES ASSUME IInv, Kept, [Next]_vars, ~AppendBucket', erased' = {}
             PROVE  KInv'
  BY DEF Kept
<1>s. setup' = setup /\ ~AppendBucket
  BY DEF Next, vars, AppendBucket
<1>e. erased = {}
  <2>1. CASE \E f \in Files : DeleteRow(f)
    BY <2>1 DEF DeleteRow
  <2>2. CASE UNCHANGED vars
    BY <2>2 DEF vars, moving, client
  <2>3. CASE Outside /\ ~(\E f \in Files : DeleteRow(f))
    BY <2>3 DEF Outside, Record, Age, DeleteFile, TaskLands, TaskEnds, SweepOrphan, client
  <2>4. CASE Live
    BY <2>4 DEF Live, LiveDispatch, LiveGivesUp, LiveClassify, LiveMerge, LiveMergeFails,
         LiveCommit, LiveCommitFails, LiveQuery, LiveDelete, LiveRenameFails, client
  <2>5. CASE Backfill
    BY <2>5 DEF Backfill, BackSweep, BackSingle, BackLock, BackEnds, BackParse, BackMerge,
         BackMergeFails, BackCommit, BackCommitFails, BackQuery, BackDelete, BackReset, client
  <2>6. CASE LegacyPass \/ Crash
    BY <2>6 DEF LegacyPass, LegacyList, LegacySingle, LegacyParse, LegacyMerge, LegacyCommit,
         LegacyCommitFails, LegacyDelete, Crash, client
  <2> QED BY <2>1, <2>2, <2>3, <2>4, <2>5, <2>6 DEF Next
<1>k. KInv
  BY <1>s, <1>e DEF Kept
<1>f. Frame => KInv'
  BY <1>k, FrameKeeps
<1>1. CASE Outside
  <2>1. ASSUME NEW f \in Files, DeleteRow(f) PROVE FALSE
    BY <2>1, <1>k, DeletionErases
  <2> QED BY <1>1, <1>k, <1>f, <2>1, RecordKeepsFootage, OutsideFrames DEF Outside
<1>2. CASE Live
  <2>1. ~LiveRenameFails
    BY <1>s DEF LiveRenameFails
  <2> QED BY <1>2, <1>s, <1>k, <1>f, <2>1, LiveFrames, MergesKeepFootage, CommitsKeepFootage,
             LiveDeleteKeepsFootage DEF Live
<1>3. CASE Backfill
  BY <1>3, <1>s, <1>k, <1>f, BackFrames, MergesKeepFootage, CommitsKeepFootage DEF Backfill
<1>4. CASE LegacyPass \/ Crash
  BY <1>4, <1>s, <1>k, <1>f, LegacyFrames, MergesKeepFootage, CommitsKeepFootage DEF LegacyPass
<1>5. CASE UNCHANGED vars
  <2>1. Frame
    BY <1>5, <1>k, Removable DEF Frame, vars, moving, store, rolling, engine, client, KInv,
         OwnSamples, HasRow
  <2> QED BY <2>1, <1>f
<1> QED BY <1>1, <1>2, <1>3, <1>4, <1>5 DEF Next

\* No footage is lost by merging, with every engine at work, whatever fails or
\* crashes, as long as nothing is appended in place and clients delete nothing.
THEOREM FootageIsKept == Spec => []FootageKept
<1>1. IInv /\ Kept => FootageKept
  BY DEF Kept, KInv, AllReached, FootageKept
<1>2. Spec => []Kept
  BY KeptInit, KeptNext, InvHolds, PTL DEF Spec
<1> QED BY <1>1, <1>2, InvHolds, PTL

-----------------------------------------------------------------------------
\* The rolling engines keep the inputs of tasks.

\* Segments that may be folded: no task will come any more, nor is one running.
Settled(S) == \A s \in S : s \notin Active /\ (Transcode => s <= aged)

TasksKnown ==
    /\ setup \in Setups
    /\ \A s \in Segs : task[s] # "none" => Transcode /\ s <= recorded

Rolling == {"live", "backfill"}

HandsSettled == Settled(free) /\ \A e \in Rolling : Settled(batch[e])

TInv == TasksKnown /\ (HoldComplete => HandsSettled)

LEMMA AllHeld ==
    ASSUME IInv, TasksKnown, HoldComplete
    PROVE  Held = Active /\ \A S : S \subseteq Segs => Settled(Free(S))
<1> DEFINE T == {s \in Segs : task[s] # "none"}
<1>1. T \in SUBSET Segs /\ IsFiniteSet(T)
  BY Consts, FS_Interval, FS_Subset DEF Segs
<1>2. Cardinality(T) <= HoldLimit /\ HoldLimit \in Nat /\ Cardinality(T) \in Nat
  BY <1>1, SegsFinite, RollingMergeAssumption DEF HoldComplete, TasksKnown, HoldLimit
<1>3. ASSUME NEW s \in Active
      PROVE  Cardinality({t \in Active : t > s}) < HoldLimit
  <2> DEFINE U == {t \in Active : t > s}
  <2>1. U \in SUBSET T /\ s \in T /\ s \notin U
    BY Consts DEF Active
  <2> HIDE DEF U, T
  <2>2. Cardinality(U) <= Cardinality(T) /\ Cardinality(U) # Cardinality(T)
    BY <1>1, <2>1, FS_Subset
  <2>3. Cardinality(U) \in Nat
    BY <1>1, <2>1, SegsFinite
  <2>4. Cardinality(U) < HoldLimit
    BY <1>2, <2>2, <2>3
  <2> QED BY <2>4 DEF U
<1>4. Held = Active
  BY <1>3 DEF Held
<1>5. Active = {} \/ Transcode
  BY DEF Active, TasksKnown
<1> QED BY <1>4, <1>5 DEF Free, Settled

\* Tasks come, and do not go: the hold stays complete only if it was.
LEMMA HoldGrows ==
    ASSUME IInv, TasksKnown, UNCHANGED setup, HoldComplete', task' \in [Segs -> {"none", "active", "done"}],
           \A s \in Segs : task[s] # "none" => task'[s] # "none"
    PROVE  HoldComplete
<1> DEFINE T == {s \in Segs : task[s] # "none"}
           U == {s \in Segs : task'[s] # "none"}
<1>1. T \in SUBSET U /\ U \in SUBSET Segs /\ IsFiniteSet(U)
  BY Consts, FS_Interval, FS_Subset DEF Segs
<1>2. Cardinality(T) <= Cardinality(U) /\ Cardinality(T) \in Nat /\ Cardinality(U) \in Nat
  BY <1>1, FS_Subset, SegsFinite
<1>3. Cardinality(U) <= HoldLimit /\ HoldLimit \in Nat
  BY RollingMergeAssumption DEF HoldComplete, HoldLimit, TasksKnown
<1>4. Cardinality(T) <= HoldLimit
  BY <1>2, <1>3
<1> QED BY <1>4 DEF HoldComplete

\* A step that takes nothing new in hand.
TFrame ==
    /\ UNCHANGED <<setup, task>> /\ recorded <= recorded' /\ recorded' \in Nat
    /\ aged <= aged' /\ aged' \in Nat
    /\ free' \subseteq free
    /\ \A e \in Rolling : batch'[e] \subseteq batch[e] \cup free

LEMMA TFrameKeeps ==
    ASSUME IInv, TInv, TFrame
    PROVE  TInv'
<1> USE DEF IInv, TInv
<1>1. HoldLimit' = HoldLimit /\ Transcode' = Transcode /\ Active' = Active /\ HoldComplete' = HoldComplete
  BY DEF TFrame, HoldLimit, Transcode, Active, HoldComplete
<1>2. TasksKnown'
  <2>1. ASSUME NEW s \in Segs, s <= recorded PROVE s <= recorded'
    <3>1. s \in Nat /\ recorded \in Nat /\ recorded' \in Nat /\ recorded <= recorded'
      BY Consts DEF TFrame, TypeStore
    <3> QED BY <2>1, <3>1
  <2> QED BY <1>1, <2>1 DEF TFrame, TasksKnown
<1>3. ASSUME HandsSettled PROVE HandsSettled'
  <2>1. free \subseteq Segs /\ \A e \in Rolling : batch[e] \subseteq Segs
    BY DEF TypeEngine, Rolling, Engines
  <2>2. \A S \in SUBSET Segs : Settled(S) => Settled(S)'
    BY <1>1, Consts DEF TFrame, Settled, TypeStore
  <2> QED BY <1>1, <1>3, <2>1, <2>2, Consts DEF TFrame, HandsSettled, Settled, TypeStore
<1> QED BY <1>1, <1>2, <1>3

LEMMA OutsideTFrames ==
    ASSUME IInv, TInv, UNCHANGED setup
    PROVE  /\ Record \/ Age \/ DeleteFile => TFrame
           /\ \A f \in Files : DeleteRow(f) \/ SweepOrphan(f) => TFrame
<1> USE Consts DEF TFrame, IInv, TypeStore, store, clock, rolling, engine, client
<1>1. Record => TFrame
  BY DEF Record
<1>2. Age => TFrame
  BY DEF Age
<1>3. DeleteFile => TFrame
  BY DEF DeleteFile
<1>4. ASSUME NEW f \in Files PROVE DeleteRow(f) \/ SweepOrphan(f) => TFrame
  BY DEF DeleteRow, SweepOrphan
<1> QED BY <1>1, <1>2, <1>3, <1>4

LEMMA LiveTFrames ==
    ASSUME IInv, TInv, UNCHANGED setup
    PROVE  LiveGivesUp \/ LiveClassify \/ LiveMerge \/ LiveMergeFails \/ LiveCommit \/ LiveCommitFails
               \/ LiveQuery \/ LiveDelete \/ LiveRenameFails => TFrame
<1> USE Consts, Parts DEF TFrame, Rolling, Engines, IInv, TypeStore, TypeEngine, store, clock, rolling,
        engine, client, Goto, Take, Return, LiveUnlock
<1>1. LiveGivesUp => TFrame
  BY DEF LiveGivesUp
<1>2. LiveClassify => TFrame
  <2>1. SUFFICES ASSUME LiveClassify PROVE \A e \in Rolling : batch'[e] \subseteq batch[e]
    BY DEF LiveClassify
  <2>2. \A T \in Unheld(batch["live"] \cap disk) : T \subseteq batch["live"] \cap disk
    BY Zenon DEF Unheld
  <2>3. PICK run \in Unheld(batch["live"] \cap disk) :
               batch' = [batch EXCEPT !["live"] = run] \/ batch' = [batch EXCEPT !["live"] = {}]
    BY <2>1 DEF LiveClassify
  <2>4. run \subseteq batch["live"] /\ batch \in [Engines -> SUBSET Segs]
    BY <2>2, <2>3
  <2> QED BY <2>3, <2>4
<1>3. LiveMerge \/ LiveCommit => TFrame
  BY DEF LiveMerge, LiveCommit
<1>4. LiveMergeFails => TFrame
  BY DEF LiveMergeFails
<1>5. LiveCommitFails => TFrame
  BY DEF LiveCommitFails
<1>6. LiveQuery => TFrame
  BY DEF LiveQuery
<1>7. LiveDelete => TFrame
  BY DEF LiveDelete
<1>8. LiveRenameFails => TFrame
  BY DEF LiveRenameFails
<1> QED BY <1>1, <1>2, <1>3, <1>4, <1>5, <1>6, <1>7, <1>8

LEMMA BackTFrames ==
    ASSUME IInv, TInv, UNCHANGED setup
    PROVE  BackSingle \/ BackLock \/ BackEnds \/ BackParse \/ BackMerge \/ BackMergeFails
               \/ BackCommit \/ BackCommitFails \/ BackQuery \/ BackDelete \/ BackReset => TFrame
<1> USE Consts, Parts DEF TFrame, Rolling, Engines, IInv, TypeStore, TypeEngine, store, clock, rolling,
        engine, client, Goto, Take, BackUnlock
<1>1. BackSingle => TFrame
  BY DEF BackSingle
<1>2. BackLock => TFrame
  <2>1. Valid \subseteq free
    BY DEF Valid
  <2>2. BackLock => batch' = batch \/ batch' = [batch EXCEPT !["backfill"] = Valid]
    BY DEF BackLock
  <2>3. BackLock => UNCHANGED <<recorded, task, aged, free>>
    BY DEF BackLock
  <2>4. BackLock => \A e \in Rolling : batch'[e] \subseteq batch[e] \cup free
    BY <2>1, <2>2
  <2> QED BY <2>3, <2>4
<1>3. BackEnds => TFrame
  BY DEF BackEnds
<1>4. BackParse => TFrame
  <2>1. BackParse => \E S \in SUBSET batch["backfill"] : batch' = [batch EXCEPT !["backfill"] = S]
    <3> SUFFICES ASSUME BackParse
                 PROVE  \E S \in SUBSET batch["backfill"] : batch' = [batch EXCEPT !["backfill"] = S]
      OBVIOUS
    <3>1. PICK kept \in Unheld(batch["backfill"]) :
                  \/ batch' = [batch EXCEPT !["backfill"] = {}]
                  \/ batch' = [batch EXCEPT !["backfill"] = kept \cap disk]
      BY DEF BackParse
    <3>2. kept \subseteq batch["backfill"]
      BY Parts
    <3> QED BY <3>1, <3>2
  <2>2. BackParse => UNCHANGED <<recorded, task, aged, free>>
    BY DEF BackParse
  <2> QED BY <2>1, <2>2
<1>5. BackMerge => TFrame
  <2>1. BackMerge => \E S \in SUBSET batch["backfill"] : batch' = [batch EXCEPT !["backfill"] = S]
    BY DEF BackMerge
  <2>2. BackMerge => UNCHANGED <<recorded, task, aged, free>>
    BY DEF BackMerge
  <2> QED BY <2>1, <2>2
<1>6. BackMergeFails => TFrame
  BY DEF BackMergeFails
<1>7. BackCommit \/ BackCommitFails => TFrame
  BY DEF BackCommit, BackCommitFails
<1>8. BackQuery => TFrame
  BY DEF BackQuery
<1>9. BackDelete => TFrame
  BY DEF BackDelete
<1>10. BackReset => TFrame
  BY DEF BackReset
<1> QED BY <1>1, <1>2, <1>3, <1>4, <1>5, <1>6, <1>7, <1>8, <1>9, <1>10

LEMMA LegacyTFrames ==
    ASSUME IInv, TInv, UNCHANGED setup
    PROVE  LegacyPass \/ Crash => TFrame
<1>1. aged \in Nat /\ recorded \in Nat
  BY Consts DEF IInv, TypeStore
<1>2. CASE LegacyPass
  <2>1. UNCHANGED <<recorded, task, aged, free>>
    BY <1>2 DEF LegacyPass, LegacyList, LegacySingle, LegacyParse, LegacyMerge, LegacyCommit,
       LegacyCommitFails, LegacyDelete, clock, engine
  <2>2. batch' = batch \/ \E S : batch' = [batch EXCEPT !["legacy"] = S]
    BY <1>2 DEF LegacyPass, LegacyList, LegacySingle, LegacyParse, LegacyMerge, LegacyCommit,
       LegacyCommitFails, LegacyDelete, engine, Take, Return
  <2>3. "live" # "legacy" /\ "backfill" # "legacy"
    OBVIOUS
  <2>4. \A e \in Rolling : batch'[e] = batch[e]
    BY <2>2, <2>3 DEF Rolling, Engines, IInv, TypeEngine
  <2> QED BY <1>1, <2>1, <2>4 DEF TFrame
<1>3. CASE Crash
  <2>1. UNCHANGED <<recorded, task, aged>> /\ free' = {} /\ batch' = [e \in Engines |-> {}]
    BY <1>3 DEF Crash, clock
  <2> QED BY <1>1, <2>1 DEF TFrame, Rolling, Engines
<1> QED BY <1>2, <1>3

\* A task lands on a young segment, which nobody has in hand.
LEMMA TaskLandsKeepsTasks ==
    ASSUME IInv, TInv, UNCHANGED setup, NEW t \in Segs, TaskLands(t)
    PROVE  TInv'
<1> USE Consts DEF IInv, TInv
<1>1. /\ UNCHANGED <<recorded, aged, batch, free>>
      /\ Transcode /\ t <= recorded /\ t > aged /\ task' = [task EXCEPT ![t] = "active"]
      /\ task' \in [Segs -> {"none", "active", "done"}]
  BY DEF TaskLands, clock, engine, TypeStore
<1>2. Transcode' = Transcode /\ Active' = Active \cup {t}
  BY <1>1 DEF Transcode, Active, TypeStore
<1>3. \A s \in Segs : task'[s] # "none" <=> task[s] # "none" \/ s = t
  BY <1>1 DEF TypeStore
<1>4. TasksKnown'
  BY <1>1, <1>2, <1>3 DEF TasksKnown
<1>5. HoldComplete' => HoldComplete
  BY <1>1, <1>3, HoldGrows
<1>6. HandsSettled => HandsSettled'
  <2>1. free \subseteq Segs /\ \A e \in Rolling : batch[e] \subseteq Segs
    BY DEF TypeEngine, Rolling, Engines
  <2>2. ASSUME NEW S \in SUBSET Segs, Settled(S) PROVE Settled(S)'
    <3>1. t \notin S
      BY <2>2, <1>1 DEF Settled, TypeStore
    <3> QED BY <2>2, <3>1, <1>1, <1>2 DEF Settled
  <2>3. ASSUME HandsSettled PROVE Settled(free)'
    <3>1. \A s \in free : s # t
      BY <2>1, <2>3, <1>1 DEF HandsSettled, Settled, TypeStore
    <3> QED BY <2>3, <3>1, <1>1, <1>2 DEF HandsSettled, Settled
  <2>4. ASSUME HandsSettled, NEW e \in Rolling PROVE Settled(batch[e])'
    <3>1. \A s \in batch[e] : s # t
      BY <2>1, <2>4, <1>1 DEF HandsSettled, Settled, TypeStore
    <3> QED BY <2>4, <3>1, <1>1, <1>2 DEF HandsSettled, Settled
  <2> QED BY <2>3, <2>4 DEF HandsSettled
<1> QED BY <1>4, <1>5, <1>6

LEMMA TaskEndsKeepsTasks ==
    ASSUME IInv, TInv, UNCHANGED setup, NEW t \in Segs, TaskEnds(t)
    PROVE  TInv'
<1> USE Consts DEF IInv, TInv
<1>1. /\ UNCHANGED <<recorded, aged, batch, free>>
      /\ task[t] = "active" /\ task' = [task EXCEPT ![t] = "done"]
      /\ task' \in [Segs -> {"none", "active", "done"}]
  BY DEF TaskEnds, clock, engine, TypeStore
<1>2. Transcode' = Transcode /\ Active' \subseteq Active
  BY <1>1 DEF Transcode, Active, TypeStore
<1>3. \A s \in Segs : task'[s] # "none" <=> task[s] # "none"
  BY <1>1 DEF TypeStore
<1>4. TasksKnown'
  BY <1>1, <1>2, <1>3 DEF TasksKnown
<1>5. HoldComplete' => HoldComplete
  BY <1>1, <1>3, HoldGrows
<1>6. HandsSettled => HandsSettled'
  BY <1>1, <1>2 DEF HandsSettled, Settled
<1> QED BY <1>4, <1>5, <1>6

\* Only free segments are taken.
LEMMA TakingKeepsTasks ==
    ASSUME IInv, TInv, UNCHANGED setup, LiveDispatch \/ BackSweep
    PROVE  TInv'
<1> USE Consts DEF IInv, TInv
<1>1. UNCHANGED <<recorded, aged, task>>
  BY DEF LiveDispatch, BackSweep, clock
<1>2. /\ Transcode' = Transcode /\ Active' = Active
      /\ HoldComplete' = HoldComplete
  BY <1>1 DEF Transcode, Active, HoldComplete, HoldLimit
<1>3. TasksKnown'
  BY <1>1, <1>2 DEF TasksKnown
<1>4. ASSUME HandsSettled, HoldComplete PROVE HandsSettled'
  <2>1. CASE LiveDispatch
    <3>1. PICK S \in SUBSET Segs : batch' = [batch EXCEPT !["live"] = Free(S)]
      BY <2>1 DEF LiveDispatch, Take, TypeEngine
    <3>2. Settled(Free(S))
      BY <1>4, AllHeld
    <3>3. free' = free /\ \A e \in Rolling : Settled(batch'[e])
      BY <2>1, <3>1, <3>2, <1>4 DEF LiveDispatch, TypeEngine, HandsSettled, Rolling, Engines
    <3> QED BY <3>3, <1>1, <1>2, <1>4 DEF HandsSettled, Settled
  <2>2. CASE BackSweep
    <3>1. Settled(free') /\ batch' = batch
      BY <2>2, <1>4, AllHeld, Parts DEF BackSweep
    <3> QED BY <3>1, <1>1, <1>2, <1>4 DEF HandsSettled, Settled
  <2> QED BY <2>1, <2>2
<1> QED BY <1>2, <1>3, <1>4

LEMMA TasksInit == Init => TInv
<1> SUFFICES ASSUME Init PROVE TInv
  OBVIOUS
<1> USE Consts DEF Init
<1>1. TasksKnown
  BY DEF TasksKnown
<1>2. HandsSettled
  BY DEF HandsSettled, Settled, Rolling, Engines
<1> QED BY <1>1, <1>2 DEF TInv

LEMMA TasksNext == IInv /\ TInv /\ [Next]_vars => TInv'
<1> SUFFICES ASSUME IInv, TInv, [Next]_vars PROVE TInv'
  OBVIOUS
<1>s. UNCHANGED setup
  BY DEF Next, vars
<1>f. TFrame => TInv'
  BY TFrameKeeps
<1>1. CASE Outside
  BY <1>1, <1>s, <1>f, OutsideTFrames, TaskLandsKeepsTasks, TaskEndsKeepsTasks DEF Outside
<1>2. CASE Live
  BY <1>2, <1>s, <1>f, LiveTFrames, TakingKeepsTasks DEF Live
<1>3. CASE Backfill
  BY <1>3, <1>s, <1>f, BackTFrames, TakingKeepsTasks DEF Backfill
<1>4. CASE LegacyPass \/ Crash
  BY <1>4, <1>s, <1>f, LegacyTFrames
<1>5. CASE UNCHANGED vars
  BY <1>5, <1>f, Consts DEF vars, moving, clock, engine, TFrame, IInv, TypeStore
<1> QED BY <1>1, <1>2, <1>3, <1>4, <1>5 DEF Next

\* What the engines delete: their own output, the bucket's file and what they
\* have in hand.
LEMMA RollingDeletes ==
    ASSUME IInv, Live \/ Backfill, NEW s \in Segs, s \in disk, s \notin disk'
    PROVE  \E e \in Rolling : s \in batch[e]
<1> USE Consts DEF IInv, Rolling, Engines, store
<1>1. s # bucket.file /\ s # out["live"] /\ s # out["backfill"]
  BY DEF ListsKnown, EnginesKnown
<1>2. CASE Live
  BY <1>1, <1>2 DEF Live, LiveDispatch, LiveGivesUp, LiveClassify, LiveMerge, LiveMergeFails,
     LiveCommit, LiveCommitFails, LiveQuery, LiveDelete, LiveRenameFails
<1>3. CASE Backfill
  BY <1>1, <1>3 DEF Backfill, BackSweep, BackSingle, BackLock, BackEnds, BackParse, BackMerge,
     BackMergeFails, BackCommit, BackCommitFails, BackQuery, BackDelete, BackReset
<1> QED BY <1>2, <1>3

\* The rolling engines never delete the input of a queued or running transcode,
\* however tasks come and go, as long as the hold query returns every task
\* (deleteRunSources, rolling_bucket.go).
THEOREM TaskInputsKept == Spec => TaskInputKept
<1>1. IInv /\ TInv /\ [Next]_vars =>
        [(Live \/ Backfill) /\ HoldComplete => Active \cap disk \subseteq disk']_vars
  <2> SUFFICES ASSUME IInv, TInv, Live \/ Backfill, HoldComplete, NEW s \in Active, s \in disk,
                      s \notin disk'
               PROVE  FALSE
    OBVIOUS
  <2>1. s \in Segs
    BY DEF Active
  <2>2. PICK e \in Rolling : s \in batch[e]
    BY <2>1, RollingDeletes
  <2> QED BY <2>2 DEF TInv, HandsSettled, Settled
<1>2. Spec => []TInv
  BY TasksInit, TasksNext, InvHolds, PTL DEF Spec
<1> QED BY <1>1, <1>2, InvHolds, PTL DEF Spec, TaskInputKept

-----------------------------------------------------------------------------
\* The bucket's row is no longer than it says, in place or not.

Done == pc["live"] \in {"query", "delete"}

\* Row f lies within the bucket, and its duration is no less than its span.
WithinBucket(f) ==
    HasRow(f) => /\ bucket.start <= row[f].start /\ row[f].end <= bucket.end
                 /\ row[f].wall >= row[f].end - row[f].start

Walls ==
    /\ bucket.row # None <=> bucket.file # None
    /\ bucket.wall >= bucket.end - bucket.start
    /\ bucket.row # None => WithinBucket(bucket.row)
    /\ bucket.file = None /\ pc["live"] = "commit" =>
           bucket.start = Min(batch["live"]) - 1 /\ bucket.end = Max(batch["live"])
    /\ bucket.file = None /\ Done => WithinBucket(out["live"])

WInv == OutputsApart /\ Walls

WFrame ==
    /\ \A e \in Engines : out'[e] \in {out[e], None}
    /\ \A f \in Outs : HasRow(f)' => /\ HasRow(f) /\ row'[f].start = row[f].start
                                     /\ row'[f].end = row[f].end /\ row'[f].wall = row[f].wall
    /\ pc'["live"] = "commit" => pc["live"] = "commit" /\ batch'["live"] = batch["live"]
    /\ Done' => Done /\ out'["live"] = out["live"]
    /\ UNCHANGED bucket \/ (bucket' = NoBucket /\ ~Done' /\ pc'["live"] # "commit")

LEMMA WFrameKeeps ==
    ASSUME IInv, WInv, WFrame
    PROVE  WInv'
<1> USE Consts DEF IInv, WInv
<1>o. \A e \in Engines : out[e] \in Files \cup {None} /\ out'[e] \in {out[e], None}
  BY DEF TypeEngine, WFrame
<1>1. OutputsApart'
  BY <1>o DEF WFrame, OutputsApart, NoBucket, None
<1>2. CASE UNCHANGED bucket
  <2>1. bucket.row # None => bucket.row \in Outs
    BY DEF TypeEngine, BucketType, ListsKnown
  <2>2. \A f \in Outs : WithinBucket(f) => WithinBucket(f)'
    BY <1>2 DEF WFrame, WithinBucket
  <2>3. ASSUME bucket.row # None PROVE WithinBucket(bucket.row)'
    <3>1. PICK r \in Outs : r = bucket.row /\ r = bucket'.row
      BY <1>2, <2>1, <2>3
    <3>2. WithinBucket(r)'
      BY <2>2, <2>3, <3>1 DEF Walls
    <3> QED BY <3>1, <3>2 DEF WithinBucket, HasRow
  <2>4. ASSUME bucket.file = None, Done' PROVE WithinBucket(out["live"])'
    <3>1. PICK o \in Outs : o = out["live"] /\ o = out'["live"]
      BY <2>4 DEF WFrame, EnginesKnown, Done
    <3>2. WithinBucket(o)'
      BY <2>2, <2>4, <3>1 DEF Walls, WFrame
    <3> QED BY <3>1, <3>2 DEF WithinBucket, HasRow
  <2> QED BY <1>1, <1>2, <2>3, <2>4 DEF Walls, WFrame
<1>3. CASE bucket' = NoBucket /\ ~Done' /\ pc'["live"] # "commit"
  BY <1>1, <1>3 DEF Walls, NoBucket, None
<1> QED BY <1>2, <1>3 DEF WFrame

LEMMA OutsideWFrames ==
    ASSUME IInv, WInv, Outside
    PROVE  WFrame
<1> USE Consts DEF IInv, TypeStore, TypeEngine, WFrame, Done, store, clock, rolling, engine, client, HasRow
<1>1. CASE Record
  <2>1. recorded + 1 \notin Outs /\ \A f \in Outs : row'[f] = row[f]
    BY <1>1 DEF Record, Segs
  <2> QED BY <1>1, <2>1 DEF Record
<1>2. CASE Age
  BY <1>2 DEF Age
<1>3. CASE DeleteFile
  BY <1>3 DEF DeleteFile
<1>4. ASSUME NEW s \in Segs, TaskLands(s) \/ TaskEnds(s) PROVE WFrame
  BY <1>4 DEF TaskLands, TaskEnds
<1>5. ASSUME NEW f \in Files, DeleteRow(f) PROVE WFrame
  BY <1>5 DEF DeleteRow, NoRow
<1>6. ASSUME NEW f \in Files, SweepOrphan(f) PROVE WFrame
  BY <1>6 DEF SweepOrphan
<1> QED BY <1>1, <1>2, <1>3, <1>4, <1>5, <1>6 DEF Outside

LEMMA LiveWFrames ==
    ASSUME IInv, WInv
    PROVE  LiveDispatch \/ LiveGivesUp \/ LiveClassify \/ LiveMergeFails \/ LiveCommitFails
               \/ LiveQuery \/ LiveRenameFails => WFrame
<1> USE Consts DEF IInv, TypeEngine, WFrame, Done, store, clock, rolling, engine, HasRow,
        Goto, Take, Return, LiveUnlock
<1>1. LiveDispatch => WFrame
  BY DEF LiveDispatch
<1>2. LiveGivesUp => WFrame
  BY DEF LiveGivesUp
<1>3. LiveClassify => WFrame
  BY DEF LiveClassify
<1>4. LiveMergeFails => WFrame
  BY DEF LiveMergeFails
<1>5. LiveCommitFails => WFrame
  BY DEF LiveCommitFails
<1>6. LiveQuery => WFrame
  BY DEF LiveQuery
<1>7. LiveRenameFails => WFrame
  BY DEF LiveRenameFails
<1> QED BY <1>1, <1>2, <1>3, <1>4, <1>5, <1>6, <1>7

\* Marking a row leaves its times alone.
LEMMA MarkTimes ==
    ASSUME TypeStore, NEW S, NEW status \in {"merged", "incompatible", "failed"},
           Mark(S, status)
    PROVE  \A f \in Files : /\ HasRow(f)' = HasRow(f) /\ row'[f].start = row[f].start
                            /\ row'[f].end = row[f].end /\ row'[f].wall = row[f].wall
                            /\ row'[f].file = row[f].file
BY DEF TypeStore, Mark, HasRow, RowType

LEMMA LegacyParseTimes ==
    ASSUME TypeStore, LegacyParse
    PROVE  \A f \in Files : /\ HasRow(f)' = HasRow(f) /\ row'[f].start = row[f].start
                            /\ row'[f].end = row[f].end /\ row'[f].wall = row[f].wall
                            /\ row'[f].file = row[f].file
BY DEF TypeStore, LegacyParse, HasRow, RowType

LEMMA BackWFrames ==
    ASSUME IInv, WInv
    PROVE  BackSweep \/ BackSingle \/ BackLock \/ BackEnds \/ BackParse \/ BackMergeFails
               \/ BackCommitFails \/ BackQuery \/ BackDelete \/ BackReset => WFrame
<1> USE Consts DEF IInv, TypeEngine, WFrame, Done, store, clock, rolling, engine, HasRow,
        Goto, Take, BackUnlock
<1>m. ASSUME NEW S, NEW status \in {"merged", "incompatible", "failed"}, Mark(S, status)
      PROVE  \A f \in Outs : /\ HasRow(f)' = HasRow(f) /\ row'[f].start = row[f].start
                             /\ row'[f].end = row[f].end /\ row'[f].wall = row[f].wall
  BY <1>m, MarkTimes
<1>1. BackSweep => WFrame
  BY DEF BackSweep
<1>2. BackSingle => WFrame
  BY <1>m DEF BackSingle
<1>3. BackLock => WFrame
  BY DEF BackLock
<1>4. BackEnds => WFrame
  BY DEF BackEnds
<1>5. BackParse => WFrame
  BY <1>m DEF BackParse
<1>6. BackMergeFails => WFrame
  BY <1>m DEF BackMergeFails
<1>7. BackCommitFails => WFrame
  BY DEF BackCommitFails
<1>8. BackQuery => WFrame
  BY DEF BackQuery
<1>9. BackDelete => WFrame
  BY DEF BackDelete
<1>10. BackReset => WFrame
  BY DEF BackReset
<1> QED BY <1>1, <1>2, <1>3, <1>4, <1>5, <1>6, <1>7, <1>8, <1>9, <1>10

LEMMA LegacyWFrames ==
    ASSUME IInv, WInv
    PROVE  LegacyList \/ LegacySingle \/ LegacyParse \/ LegacyCommitFails \/ LegacyDelete
               \/ Crash => WFrame
<1> USE Consts DEF IInv, TypeEngine, WFrame, Done, store, clock, rolling, engine, HasRow,
        Goto, Take, Return
<1>1. LegacyList => WFrame
  BY DEF LegacyList
<1>2. LegacySingle => WFrame
  BY MarkTimes DEF LegacySingle
<1>3. ASSUME LegacyParse PROVE WFrame
  <2>1. \A f \in Outs : /\ HasRow(f)' = HasRow(f) /\ row'[f].start = row[f].start
                        /\ row'[f].end = row[f].end /\ row'[f].wall = row[f].wall
    BY <1>3, LegacyParseTimes
  <2>2. /\ \A e \in Engines : out'[e] \in {out[e], None}
        /\ UNCHANGED bucket /\ pc'["live"] = pc["live"] /\ batch'["live"] = batch["live"]
        /\ out'["live"] = out["live"]
    BY <1>3 DEF LegacyParse
  <2> QED BY <2>1, <2>2
<1>4. LegacyCommitFails => WFrame
  BY DEF LegacyCommitFails
<1>5. LegacyDelete => WFrame
  BY DEF LegacyDelete
<1>6. Crash => WFrame
  BY DEF Crash
<1> QED BY <1>1, <1>2, <1>3, <1>4, <1>5, <1>6

\* What Advance does to the times.
LEMMA AdvanceCovers ==
    ASSUME NEW b \in BucketType, NEW S \in SUBSET Segs, S # {}
    PROVE  /\ Advance(b, S).wall >= Advance(b, S).end - Advance(b, S).start
           /\ b.file = None => /\ Advance(b, S).start = Min(S) - 1
                              /\ Advance(b, S).end = Max(S)
           /\ b.file # None => /\ Advance(b, S).start <= b.start
                              /\ b.end <= Advance(b, S).end
           /\ \A s \in S : Advance(b, S).start < s /\ s <= Advance(b, S).end
<1>1. /\ Min(S) \in Nat /\ Max(S) \in Nat /\ 1 <= Min(S) /\ Min(S) <= Max(S)
      /\ \A s \in S : Min(S) <= s /\ s <= Max(S) /\ s \in Nat
  <2>1. S \subseteq Nat /\ S \subseteq Int /\ NumSegs \in Int /\ \A y \in S : y <= NumSegs
    BY Consts
  <2>2. \A s \in S : Min(S) <= s
    BY <2>1, MinIn
  <2>3. \A s \in S : s <= Max(S)
    BY <2>1, MaxIn
  <2> QED BY <2>1, <2>2, <2>3, SegsEnds, Consts
<1>2. b.start \in Nat /\ b.end \in Nat /\ b.wall \in Nat
  BY DEF BucketType
<1>3. CASE b.file = None
  <2>1. Advance(b, S) = [b EXCEPT !.start = Min(S) - 1, !.end = Max(S),
                                  !.wall = Max(S) - Min(S) + 1]
    BY <1>3, Zenon DEF Advance
  <2>2. /\ Advance(b, S).start = Min(S) - 1 /\ Advance(b, S).end = Max(S)
        /\ Advance(b, S).wall = Max(S) - Min(S) + 1
    BY <2>1 DEF BucketType
  <2> QED BY <1>1, <1>3, <2>2
<1>4. CASE b.file # None
  <2> DEFINE gap == IF Max(S) > b.end THEN Max(S) - b.end ELSE 0
             delta == Max({Cardinality(S), gap, Max(S) - Min(S) + 1})
  <2>1. PICK start, end, wall :
               /\ start = Min({b.start, Min(S) - 1}) /\ end = Max({b.end, Max(S)})
               /\ wall = Max({b.wall + delta, end - start})
    OBVIOUS
  <2>2. Advance(b, S) = [b EXCEPT !.start = start, !.end = end, !.wall = wall]
    BY <1>4, <2>1, Zenon DEF Advance
  <2>3. Advance(b, S).start = start /\ Advance(b, S).end = end /\ Advance(b, S).wall = wall
    BY <2>2 DEF BucketType
  <2>4. start \in Nat /\ start <= b.start /\ start <= Min(S) - 1
    <3>1. {b.start, Min(S) - 1} \subseteq Nat
      BY <1>1, <1>2
    <3>2. /\ Min({b.start, Min(S) - 1}) \in {b.start, Min(S) - 1}
          /\ \A y \in {b.start, Min(S) - 1} : Min({b.start, Min(S) - 1}) <= y
      BY <3>1, MinIn
    <3> QED BY <2>1, <3>1, <3>2
  <2>5. end \in Nat /\ b.end <= end /\ Max(S) <= end
    <3>1. PICK w \in Int, z \in Int : w = b.end /\ z = Max(S)
      BY <1>1, <1>2
    <3>2. Max({w, z}) \in {w, z} /\ w <= Max({w, z}) /\ z <= Max({w, z})
      BY ONLY <3>1, TwoOf
    <3> QED BY <1>1, <1>2, <2>1, <3>1, <3>2
  <2>6. delta \in Int
    <3>1. PICK n \in Nat, g \in Nat, m \in Nat :
                 n = Cardinality(S) /\ g = gap /\ m = Max(S) - Min(S) + 1
      BY <1>1, <1>2, SegsFinite
    <3>2. PICK k \in Int : k = n + g + m
      OBVIOUS
    <3>3. {n, g, m} \subseteq Int /\ {n, g, m} # {} /\ \A y \in {n, g, m} : y <= k
      BY <3>2
    <3>4. Max({n, g, m}) \in {n, g, m}
      BY <3>3, MaxIn
    <3> QED BY <3>1, <3>4
  <2> HIDE DEF delta
  <2>7. end - start <= wall
    <3>1. PICK w \in Int, z \in Int : w = b.wall + delta /\ z = end - start
      BY <1>2, <2>4, <2>5, <2>6
    <3>2. z <= Max({w, z})
      BY ONLY <3>1, TwoOf
    <3> QED BY <2>1, <3>1, <3>2
  <2>8. wall \in Int
    BY <2>3, AdvanceType DEF BucketType
  <2> QED BY <1>1, <1>4, <2>3, <2>4, <2>5, <2>7, <2>8
<1> QED BY <1>3, <1>4

\* An engine takes a new output, the live engine an advanced bucket too.
LEMMA MergesKeepWalls ==
    ASSUME IInv, WInv
    PROVE  LiveMerge \/ BackMerge \/ LegacyMerge => WInv'
<1> USE Consts DEF IInv, WInv
<1>o. ASSUME NEW e \in Engines, NEW o \in FreeOuts, out' = [out EXCEPT ![e] = o],
             bucket'.file = bucket.file, bucket'.row = bucket.row
      PROVE  OutputsApart'
  BY <1>o DEF OutputsApart, FreeOuts, TypeEngine, None
<1>1. ASSUME LiveMerge PROVE WInv'
  <2> DEFINE S == batch["live"]
             b == Advance(bucket, S)
  <2>1. S \in SUBSET Segs /\ S # {} /\ bucket \in BucketType
    BY <1>1 DEF LiveMerge, TypeEngine, EnginesKnown
  <2>2. /\ bucket' = b /\ b.file = bucket.file /\ b.row = bucket.row /\ b \in BucketType
        /\ UNCHANGED <<row, batch>> /\ pc'["live"] = "commit"
    BY <1>1, <2>1, AdvanceType DEF LiveMerge, TypeEngine, Goto
  <2>3. /\ b.wall >= b.end - b.start
        /\ bucket.file = None => b.start = Min(S) - 1 /\ b.end = Max(S)
        /\ bucket.file # None => b.start <= bucket.start /\ bucket.end <= b.end
    BY <2>1, AdvanceCovers
  <2>4. OutputsApart'
    <3>1. CASE InPlace
      <4>1. out' = [out EXCEPT !["live"] = bucket.file] /\ bucket.file # None
        BY <1>1, <3>1 DEF LiveMerge, InPlace
      <4> QED BY <4>1, <2>2 DEF OutputsApart, TypeEngine
    <3>2. CASE ~InPlace
      BY <1>1, <1>o, <2>2, <3>2, NewOutFree DEF LiveMerge
    <3> QED BY <3>1, <3>2
  <2>5. ASSUME bucket'.row # None PROVE WithinBucket(bucket.row)'
    <3>1. PICK r \in Outs : r = bucket.row /\ r = bucket'.row
      BY <2>2, <2>5 DEF TypeEngine, BucketType, ListsKnown
    <3>2. /\ bucket.file # None /\ WithinBucket(r) /\ row[r] \in RowType
          /\ HasRow(bucket.row)' = HasRow(r)
      BY <3>1, <2>2, <2>5 DEF Walls, TypeStore, HasRow
    <3>3. HasRow(r) => /\ b.start <= row[r].start /\ row[r].end <= b.end
                       /\ row[r].wall >= row[r].end - row[r].start
      BY <3>2, <2>1, <2>2, <2>3 DEF WithinBucket, RowType, BucketType
    <3> HIDE DEF b
    <3> QED BY <3>1, <3>2, <3>3, <2>2 DEF WithinBucket
  <2> HIDE DEF S, b
  <2>6. pc'["live"] = "commit" /\ bucket'.file = None =>
              bucket'.start = Min(batch'["live"]) - 1 /\ bucket'.end = Max(batch'["live"])
    BY <2>2, <2>3 DEF S
  <2>7. Walls'
    BY <2>2, <2>3, <2>5, <2>6 DEF Walls, Done
  <2> QED BY <2>4, <2>7
<1>b. ASSUME UNCHANGED <<bucket, row>>, pc'["live"] = pc["live"], batch'["live"] = batch["live"],
             out'["live"] = out["live"]
      PROVE  Walls'
  <2>1. WithinBucket(bucket.row)' <=> WithinBucket(bucket.row)
    BY <1>b DEF WithinBucket, HasRow
  <2>2. WithinBucket(out["live"])' <=> WithinBucket(out["live"])
    BY <1>b DEF WithinBucket, HasRow
  <2> QED BY <1>b, <2>1, <2>2 DEF Walls, Done
<1>2. ASSUME BackMerge PROVE WInv'
  <2>1. /\ UNCHANGED <<bucket, row>> /\ pc'["live"] = pc["live"]
        /\ batch'["live"] = batch["live"] /\ out'["live"] = out["live"]
    BY <1>2 DEF BackMerge, rolling, BackUnlock, Goto, Take, TypeEngine
  <2>2. CASE Cardinality(batch["backfill"] \cap disk) < 2
    <3>1. WFrame
      BY <1>2, <2>1, <2>2 DEF BackMerge, WFrame, Done, HasRow, BackUnlock, TypeEngine
    <3> QED BY <3>1, WFrameKeeps
  <2>3. CASE ~(Cardinality(batch["backfill"] \cap disk) < 2)
    <3>1. FreeOuts # {} /\ out' = [out EXCEPT !["backfill"] = Min(FreeOuts)]
      BY <1>2, <2>3 DEF BackMerge
    <3> QED BY <1>o, <1>b, <2>1, <3>1, NewOutFree
  <2> QED BY <2>2, <2>3
<1>3. ASSUME LegacyMerge PROVE WInv'
  <2>1. /\ UNCHANGED <<bucket, row>> /\ pc'["live"] = pc["live"]
        /\ batch'["live"] = batch["live"] /\ out'["live"] = out["live"]
    BY <1>3 DEF LegacyMerge, rolling, Return, Goto, TypeEngine
  <2>2. CASE ~(batch["legacy"] \subseteq disk /\ FreeOuts # {})
    <3>1. WFrame
      BY <1>3, <2>1, <2>2 DEF LegacyMerge, WFrame, Done, HasRow, Return, TypeEngine
    <3> QED BY <3>1, WFrameKeeps
  <2>3. CASE batch["legacy"] \subseteq disk /\ FreeOuts # {}
    <3>1. out' = [out EXCEPT !["legacy"] = Min(FreeOuts)]
      BY <1>3, <2>3 DEF LegacyMerge
    <3> QED BY <1>o, <1>b, <2>1, <2>3, <3>1, NewOutFree
  <2> QED BY <2>2, <2>3
<1> QED BY <1>1, <1>2, <1>3

\* The live engine's row takes the bucket's times; the others' rows are apart.
LEMMA CommitsKeepWalls ==
    ASSUME IInv, WInv
    PROVE  LiveCommit \/ BackCommit \/ LegacyCommit => WInv'
<1> USE Consts DEF IInv, WInv
<1>o. UNCHANGED <<out, bucket>> => OutputsApart'
  BY DEF OutputsApart
<1>1. ASSUME LiveCommit PROVE WInv'
  <2>1. /\ UNCHANGED <<out, bucket, batch>> /\ pc["live"] = "commit" /\ pc'["live"] = "query"
        /\ bucket \in BucketType /\ batch["live"] \in SUBSET Segs /\ batch["live"] # {}
        /\ batch'["live"] = batch["live"] /\ out'["live"] = out["live"]
    BY <1>1 DEF LiveCommit, rolling, Goto, TypeEngine, EnginesKnown
  <2>2. CASE bucket.file = None
    <3>1. PICK o \in Outs, S \in SUBSET Segs : o = out["live"] /\ S = batch["live"] /\ S # {}
      BY <1>1, <2>1 DEF LiveCommit, EnginesKnown
    <3>2. row' = [f \in Files |-> IF f = o THEN Span(o, S) ELSE IF f \in S THEN NoRow ELSE row[f]]
      BY <1>1, <2>2, <3>1 DEF LiveCommit, Replace
    <3>3. row'[o] = Span(o, S)
      BY <3>2
    <3>4. /\ Span(o, S).start = bucket.start /\ Span(o, S).end = bucket.end
          /\ Span(o, S).wall = bucket.end - bucket.start
      BY <2>1, <2>2, <3>1, SegsEnds DEF Span, Walls
    <3>5. bucket.start \in Nat /\ bucket.end \in Nat
      BY <2>1 DEF BucketType
    <3>6. WithinBucket(out["live"])'
      BY <2>1, <3>1, <3>3, <3>4, <3>5 DEF WithinBucket
    <3>7. Walls'
      BY <2>1, <2>2, <3>6 DEF Walls, Done
    <3> QED BY <1>o, <2>1, <3>7
  <2>3. CASE bucket.file # None
    <3>1. PICK r \in Outs : r = bucket.row /\ r = bucket'.row
      BY <2>1, <2>3 DEF Walls, ListsKnown, BucketType
    <3>2. CASE ~HasRow(r)
      <4>1. ~HasRow(r)'
        BY <1>1, <2>3, <3>1, <3>2 DEF LiveCommit, HasRow, NoRow
      <4>2. WithinBucket(bucket.row)'
        BY <3>1, <4>1 DEF WithinBucket, HasRow
      <4> QED BY <1>o, <2>1, <2>3, <4>2 DEF Walls, Done
    <3>3. CASE HasRow(r)
      <4>1. row' = [f \in Files |-> IF f \in batch["live"] THEN NoRow ELSE IF f = r /\ HasRow(r)
                  THEN [row[r] EXCEPT !.file = out["live"], !.start = Min({@, bucket.start}),
                               !.end = Max({@, bucket.end}), !.wall = bucket.wall] ELSE row[f]]
        BY <1>1, <2>3, <3>1 DEF LiveCommit
      <4>2. row'[r] = [row[r] EXCEPT !.file = out["live"], !.start = Min({@, bucket.start}),
                               !.end = Max({@, bucket.end}), !.wall = bucket.wall]
        BY <2>1, <3>3, <4>1
      <4>3. row[r] \in RowType
        BY DEF TypeStore
      <4>4. /\ row'[r].start = Min({row[r].start, bucket.start})
            /\ row'[r].end = Max({row[r].end, bucket.end}) /\ row'[r].wall = bucket.wall
        BY <4>2, <4>3 DEF RowType
      <4>5. /\ bucket.start <= row[r].start /\ row[r].end <= bucket.end
            /\ bucket.wall >= bucket.end - bucket.start
        BY <2>3, <3>1, <3>3 DEF Walls, WithinBucket
      <4>6. row'[r].start = bucket.start /\ row'[r].end = bucket.end
        <5>1. PICK a \in Nat, b \in Nat, c \in Nat, d \in Nat :
                     a = row[r].start /\ b = bucket.start /\ c = row[r].end /\ d = bucket.end
          BY <2>1, <4>3 DEF RowType, BucketType
        <5>2. /\ {a, b} \subseteq Nat /\ {a, b} # {} /\ c \in Int /\ d \in Int
          OBVIOUS
        <5>3. Min({a, b}) \in {a, b} /\ \A y \in {a, b} : Min({a, b}) <= y
          BY <5>2, MinIn
        <5>4. Max({c, d}) \in {c, d} /\ d <= Max({c, d}) /\ c <= Max({c, d})
          BY ONLY <5>2, TwoOf
        <5> QED BY <5>1, <5>3, <5>4, <4>4, <4>5
      <4>7. WithinBucket(bucket.row)'
        <5>1. bucket.start \in Nat /\ bucket.end \in Nat /\ bucket.wall \in Nat
          BY <2>1 DEF BucketType
        <5> QED BY <5>1, <2>1, <3>1, <4>4, <4>5, <4>6 DEF WithinBucket
      <4> QED BY <1>o, <2>1, <2>3, <4>7 DEF Walls, Done
    <3> QED BY <3>2, <3>3
  <2> QED BY <2>2, <2>3
<1>2. ASSUME NEW e \in Engines, e # "live", pc[e] = "commit", NEW r, Replace(out[e], r, batch[e]),
             UNCHANGED <<out, bucket, batch>>, pc'["live"] = pc["live"]
      PROVE  WInv'
  <2>1. \A f \in Outs : f # out[e] => row'[f] = row[f]
    BY <1>2 DEF Replace, TypeEngine
  <2>2. /\ \A f \in Outs : f = bucket.row \/ f = out["live"] => f # out[e]
        /\ batch'["live"] = batch["live"] /\ out'["live"] = out["live"]
    BY <1>2 DEF OutputsApart
  <2>3. ASSUME bucket.row # None PROVE WithinBucket(bucket.row)'
    <3>1. PICK f \in Outs : f = bucket.row /\ f = bucket'.row /\ row'[f] = row[f]
      BY <1>2, <2>1, <2>2, <2>3 DEF TypeEngine, BucketType, ListsKnown
    <3> QED BY <1>2, <2>3, <3>1 DEF Walls, WithinBucket, HasRow
  <2>4. ASSUME bucket.file = None, Done PROVE WithinBucket(out["live"])'
    <3>1. PICK f \in Outs : f = out["live"] /\ f = out'["live"] /\ row'[f] = row[f]
      BY <1>2, <2>1, <2>2, <2>4 DEF EnginesKnown, Done
    <3> QED BY <1>2, <2>4, <3>1 DEF Walls, WithinBucket, HasRow
  <2> QED BY <1>o, <1>2, <2>2, <2>3, <2>4 DEF Walls, Done
<1>3. ASSUME BackCommit PROVE WInv'
  <2>1. pc'["live"] = pc["live"]
    BY <1>3 DEF BackCommit, Goto, TypeEngine
  <2> QED BY <1>2, <1>3, <2>1 DEF BackCommit, rolling
<1>4. ASSUME LegacyCommit PROVE WInv'
  <2>1. pc'["live"] = pc["live"]
    BY <1>4 DEF LegacyCommit, Goto, TypeEngine
  <2> QED BY <1>2, <1>4, <2>1 DEF LegacyCommit, rolling
<1> QED BY <1>1, <1>3, <1>4

LEMMA LiveDeleteKeepsWalls ==
    ASSUME IInv, WInv, LiveDelete
    PROVE  WInv'
<1> USE Consts DEF IInv, WInv
<1>1. PICK o \in Outs : o = out["live"] /\ o # None
  BY DEF LiveDelete, EnginesKnown
<1>2. /\ bucket' = [bucket EXCEPT !.file = o, !.row = IF bucket.file = None THEN o ELSE @]
      /\ bucket \in BucketType /\ UNCHANGED row /\ out' = [out EXCEPT !["live"] = None]
      /\ pc'["live"] = "idle" /\ Done
  BY <1>1 DEF LiveDelete, LiveUnlock, Return, TypeEngine, Done
<1>3. /\ bucket'.file = o /\ bucket'.row = IF bucket.file = None THEN o ELSE bucket.row
      /\ bucket'.start = bucket.start /\ bucket'.end = bucket.end /\ bucket'.wall = bucket.wall
  BY <1>2 DEF BucketType
<1>4. OutputsApart'
  BY <1>1, <1>2, <1>3 DEF OutputsApart, TypeEngine
<1>5. WithinBucket(bucket.row)'
  <2>1. PICK f \in Files : f = bucket'.row /\ (f = IF bucket.file = None THEN o ELSE bucket.row)
    BY <1>1, <1>2, <1>3 DEF Walls, BucketType
  <2>2. WithinBucket(f)
    BY <1>1, <1>2, <2>1 DEF Walls
  <2> QED BY <1>2, <1>3, <2>1, <2>2 DEF WithinBucket, HasRow
<1>6. Walls'
  BY <1>1, <1>2, <1>3, <1>5 DEF Walls, Done
<1> QED BY <1>4, <1>6

LEMMA WallsInit == Init => WInv
BY Consts DEF Init, WInv, OutputsApart, Walls, Done, NoBucket, None

LEMMA WallsNext == IInv /\ WInv /\ [Next]_vars => WInv'
<1> SUFFICES ASSUME IInv, WInv, [Next]_vars PROVE WInv'
  OBVIOUS
<1>f. WFrame => WInv'
  BY WFrameKeeps
<1>1. CASE Outside
  BY <1>1, <1>f, OutsideWFrames
<1>2. CASE Live
  BY <1>2, <1>f, LiveWFrames, MergesKeepWalls, CommitsKeepWalls, LiveDeleteKeepsWalls DEF Live
<1>3. CASE Backfill
  BY <1>3, <1>f, BackWFrames, MergesKeepWalls, CommitsKeepWalls DEF Backfill
<1>4. CASE LegacyPass \/ Crash
  BY <1>4, <1>f, LegacyWFrames, MergesKeepWalls, CommitsKeepWalls DEF LegacyPass
<1>5. CASE UNCHANGED vars
  <2>1. WFrame
    BY <1>5 DEF vars, moving, store, rolling, engine, WFrame, Done, HasRow
  <2> QED BY <1>f, <2>1
<1> QED BY <1>1, <1>2, <1>3, <1>4, <1>5 DEF Next

LEMMA WallsHold == Spec => []WInv
BY WallsInit, WallsNext, InvHolds, PTL DEF Spec

-----------------------------------------------------------------------------
\* A row's times cover the footage of its file, if nothing is appended in place.

\* A row leads to a file that is there, that no other row leads to and that no
\* client is about to remove.
NamesOnce ==
    \A f \in Files : HasRow(f) =>
        /\ row[f].file \in disk /\ row[f].file # doomed
        /\ \A g \in Files : Names(g, row[f].file) => g = f

OutputsNew ==
    \A e \in Engines : pc[e] = "commit" =>
        /\ out[e] \in disk /\ out[e] # doomed /\ ~HasRow(out[e])
        /\ \A g \in Files : ~Names(g, out[e])
        /\ e = "live" => out[e] # bucket.file

\* Only the bucket's row may lead to the bucket's file, or, from the commit on,
\* to the output.
BucketOwned ==
    /\ bucket.file # None =>
          \A g \in Files : Names(g, bucket.file) => ~Done /\ g = bucket.row
    /\ Done => \A g \in Files : Names(g, out["live"]) =>
                  g = IF bucket.file = None THEN out["live"] ELSE bucket.row

Within(o, r) == \A s \in Segs : content[o][s] > 0 => r.start < s /\ s <= r.end

Spans ==
    /\ \A s, t \in Segs : content[s][t] > 0 <=> s = t
    /\ \A f \in Files : HasRow(f) => Within(row[f].file, row[f])
    /\ bucket.file # None => Within(bucket.file, bucket)
    /\ pc["live"] = "commit" \/ Done => Within(out["live"], bucket)
    /\ \A e \in Engines : pc[e] = "commit" /\ (e = "live" => bucket.file = None) =>
          \A s \in Segs : content[out[e]][s] > 0 => s \in batch[e]

BInv == NamesOnce /\ OutputsNew /\ BucketOwned /\ Spans

BFrame ==
    /\ UNCHANGED content
    /\ \A f \in Files : HasRow(f)' =>
          /\ HasRow(f) /\ row'[f].file = row[f].file
          /\ row'[f].start = row[f].start /\ row'[f].end = row[f].end
          /\ row[f].file \in disk' /\ row[f].file # doomed'
    /\ \A e \in Engines : pc'[e] = "commit" =>
          /\ pc[e] = "commit" /\ batch'[e] = batch[e] /\ out'[e] = out[e]
          /\ out[e] \in disk' /\ out[e] # doomed'
    /\ Done' => out'["live"] = out["live"]
    /\ \/ UNCHANGED bucket /\ (Done' <=> Done)
       \/ bucket' = NoBucket /\ ~Done' /\ pc'["live"] # "commit"

LEMMA BFrameKeeps ==
    ASSUME IInv, BInv, BFrame
    PROVE  BInv'
<1> USE Consts DEF IInv, BInv
<1>f. \A f \in Files : HasRow(f)' => /\ HasRow(f) /\ row'[f].file = row[f].file
                                     /\ row'[f].start = row[f].start /\ row'[f].end = row[f].end
                                     /\ row[f].file \in Files
  BY DEF BFrame, NamesOnce, TypeStore
<1>1. NamesOnce'
  BY <1>f DEF BFrame, NamesOnce, Names
<1>2. OutputsNew'
  <2> SUFFICES ASSUME NEW e \in Engines, pc'[e] = "commit"
               PROVE  /\ out'[e] \in disk' /\ out'[e] # doomed' /\ ~HasRow(out[e])'
                      /\ \A g \in Files : ~(HasRow(g)' /\ row'[g].file = out'[e])
                      /\ e = "live" => out'[e] # bucket'.file
    BY DEF OutputsNew, Names
  <2>1. /\ pc[e] = "commit" /\ out'[e] = out[e] /\ out[e] \in disk' /\ out[e] # doomed'
        /\ out[e] \in Files
    BY DEF BFrame, OutputsNew, TypeStore
  <2>2. ~HasRow(out[e])'
    BY <2>1, <1>f DEF OutputsNew, HasRow
  <2>3. e = "live" => bucket' = bucket
    BY DEF BFrame
  <2> QED BY <2>1, <2>2, <2>3, <1>f DEF OutputsNew, Names
<1>3. BucketOwned'
  BY <1>f DEF BFrame, BucketOwned, Names, NoBucket
<1>4. Spans'
  <2>1. \A f \in Files : HasRow(f)' => Within(row[f].file, row[f])'
    BY <1>f DEF BFrame, Spans, Within
  <2>2. CASE UNCHANGED bucket /\ (Done' <=> Done)
    BY <2>1, <2>2 DEF BFrame, Spans, Within, Done
  <2>3. CASE bucket' = NoBucket /\ ~Done' /\ pc'["live"] # "commit"
    BY <2>1, <2>3 DEF BFrame, Spans, NoBucket
  <2> QED BY <2>2, <2>3 DEF BFrame
<1> QED BY <1>1, <1>2, <1>3, <1>4

\* What a step may remove: segments without a row, an output that failed, and
\* the file a client is after.
LEMMA Spared ==
    ASSUME IInv, BInv, WInv
    PROVE  /\ \A f \in Files : HasRow(f) =>
                 /\ row[f].file \in disk /\ row[f].file # doomed /\ row[f].file # None
                 /\ \A e \in Engines : \A s \in batch[e] : ~HasRow(s) => row[f].file # s
                 /\ \A e \in Engines : pc[e] = "commit" => row[f].file # out[e]
           /\ \A e \in Engines : pc[e] = "commit" =>
                 out[e] \in disk /\ out[e] # doomed /\ out[e] \notin Segs /\ out[e] # None
           /\ \A e, d \in Engines : d # e /\ pc[e] = "commit" => out[d] # out[e]
<1> USE Consts DEF IInv, BInv, WInv
<1>1. ASSUME NEW f \in Files, HasRow(f), NEW e \in Engines, NEW s \in batch[e], ~HasRow(s)
      PROVE  row[f].file # s
  BY <1>1 DEF RowsKnown, TypeEngine
<1>2. ASSUME NEW f \in Files, HasRow(f)
      PROVE  /\ row[f].file \in disk /\ row[f].file # doomed /\ row[f].file # None
             /\ \A e \in Engines : pc[e] = "commit" => row[f].file # out[e]
  BY <1>2 DEF NamesOnce, OutputsNew, Names, TypeStore, None
<1>3. ASSUME NEW e \in Engines, pc[e] = "commit"
      PROVE  /\ out[e] \in disk /\ out[e] # doomed /\ out[e] \notin Segs /\ out[e] # None
             /\ \A d \in Engines : d # e => out[d] # out[e]
  BY <1>3 DEF OutputsNew, OutputsApart, EnginesKnown, TypeStore, None
<1> QED BY <1>1, <1>2, <1>3

LEMMA OutsideBFrames ==
    ASSUME IInv, BInv, WInv
    PROVE  /\ Age \/ DeleteFile => BFrame
           /\ \A s \in Segs : TaskLands(s) \/ TaskEnds(s) => BFrame
           /\ \A f \in Files : DeleteRow(f) \/ SweepOrphan(f) => BFrame
<1> USE Consts, Spared DEF BFrame, Done, store, clock, rolling, engine, client, HasRow, None
<1>1. Age => BFrame
  BY DEF Age
<1>2. DeleteFile => BFrame
  BY DEF DeleteFile
<1>3. ASSUME NEW s \in Segs PROVE TaskLands(s) \/ TaskEnds(s) => BFrame
  BY DEF TaskLands, TaskEnds
<1>4. ASSUME NEW f \in Files PROVE SweepOrphan(f) => BFrame
  BY DEF SweepOrphan
<1>5. ASSUME NEW f \in Files, DeleteRow(f) PROVE BFrame
  <2>1. ASSUME NEW g \in Files, HasRow(g)' PROVE g # f /\ row'[g] = row[g] /\ HasRow(g)
    <3>1. row' = [row EXCEPT ![f] = NoRow] /\ NoRow.status = "none"
      BY <1>5 DEF DeleteRow, NoRow
    <3>2. row \in [Files -> RowType]
      BY DEF IInv, TypeStore
    <3>3. g # f
      BY <2>1, <3>1, <3>2
    <3>4. row'[g] = row[g]
      BY ONLY <3>1, <3>2, <3>3
    <3>5. HasRow(g)
      BY <2>1, <3>4
    <3> QED BY <3>3, <3>4, <3>5
  <2>2. \A g \in Files : HasRow(g) /\ g # f => row[g].file # row[f].file
    BY <1>5 DEF BInv, NamesOnce, Names, DeleteRow
  <2>3. \A e \in Engines : pc[e] = "commit" => out[e] # row[f].file
    BY <1>5 DEF DeleteRow
  <2>4. doomed' = row[f].file /\ UNCHANGED <<content, disk, pc, batch, out, bucket>>
    BY <1>5 DEF DeleteRow
  <2> HIDE DEF HasRow
  <2> QED BY <2>1, <2>2, <2>3, <2>4
<1> QED BY <1>1, <1>2, <1>3, <1>4, <1>5

LEMMA LiveBFrames ==
    ASSUME IInv, BInv, WInv
    PROVE  LiveDispatch \/ LiveGivesUp \/ LiveClassify \/ LiveMergeFails \/ LiveCommitFails
               \/ LiveQuery => BFrame
<1> USE Consts, Spared DEF IInv, TypeEngine, BFrame, Done, store, clock, rolling, engine, client,
        HasRow, None, Goto, Take, Return, LiveUnlock
<1>1. LiveDispatch => BFrame
  BY DEF LiveDispatch
<1>2. LiveGivesUp => BFrame
  BY DEF LiveGivesUp
<1>3. LiveClassify => BFrame
  BY DEF LiveClassify
<1>4. LiveMergeFails => BFrame
  BY DEF LiveMergeFails
<1>5. LiveCommitFails => BFrame
  BY DEF LiveCommitFails
<1>6. LiveQuery => BFrame
  BY DEF LiveQuery
<1> QED BY <1>1, <1>2, <1>3, <1>4, <1>5, <1>6

LEMMA BackBFrames ==
    ASSUME IInv, BInv, WInv
    PROVE  BackSweep \/ BackSingle \/ BackLock \/ BackEnds \/ BackParse \/ BackMergeFails
               \/ BackCommitFails \/ BackQuery \/ BackDelete \/ BackReset => BFrame
<1> USE Consts, Spared DEF IInv, TypeEngine, BFrame, Done, store, clock, rolling, engine, client,
        HasRow, None, Goto, Take, BackUnlock
<1>m. ASSUME NEW S, NEW status \in {"merged", "incompatible", "failed"}, Mark(S, status)
      PROVE  \A f \in Files : /\ HasRow(f)' = HasRow(f) /\ row'[f].start = row[f].start
                             /\ row'[f].end = row[f].end /\ row'[f].file = row[f].file
  BY <1>m, MarkTimes
<1>1. BackSweep => BFrame
  BY DEF BackSweep
<1>2. BackSingle => BFrame
  BY <1>m DEF BackSingle
<1>3. BackLock => BFrame
  BY DEF BackLock
<1>4. BackEnds => BFrame
  BY DEF BackEnds
<1>5. BackParse => BFrame
  BY <1>m DEF BackParse
<1>6. BackMergeFails => BFrame
  BY <1>m DEF BackMergeFails
<1>7. BackCommitFails => BFrame
  BY DEF BackCommitFails
<1>8. BackQuery => BFrame
  BY DEF BackQuery
<1>9. BackDelete => BFrame
  BY DEF BackDelete, EnginesKnown
<1>10. BackReset => BFrame
  BY DEF BackReset
<1> QED BY <1>1, <1>2, <1>3, <1>4, <1>5, <1>6, <1>7, <1>8, <1>9, <1>10

LEMMA LegacyBFrames ==
    ASSUME IInv, BInv, WInv
    PROVE  LegacyList \/ LegacySingle \/ LegacyParse \/ LegacyCommitFails \/ LegacyDelete
               \/ Crash => BFrame
<1> USE Consts, Spared DEF IInv, TypeEngine, BFrame, Done, store, clock, rolling, engine, client,
        HasRow, None, Goto, Take, Return
<1>1. LegacyList => BFrame
  BY DEF LegacyList
<1>2. LegacySingle => BFrame
  BY MarkTimes DEF LegacySingle
<1>3. ASSUME LegacyParse PROVE BFrame
  <2>1. \A f \in Files : /\ HasRow(f)' = HasRow(f) /\ row'[f].start = row[f].start
                        /\ row'[f].end = row[f].end /\ row'[f].file = row[f].file
    BY <1>3, LegacyParseTimes
  <2>2. /\ \A e \in Engines : e # "legacy" =>
              pc'[e] = pc[e] /\ out'[e] = out[e] /\ batch'[e] = batch[e]
        /\ UNCHANGED <<bucket, content, disk, doomed>> /\ pc'["legacy"] # "commit"
    BY <1>3 DEF LegacyParse
  <2> QED BY <2>1, <2>2
<1>4. LegacyCommitFails => BFrame
  BY DEF LegacyCommitFails
<1>5. LegacyDelete => BFrame
  BY DEF LegacyDelete, EnginesKnown
<1>6. Crash => BFrame
  BY DEF Crash
<1> QED BY <1>1, <1>2, <1>3, <1>4, <1>5, <1>6

LEMMA RecordKeepsBooks ==
    ASSUME IInv, BInv, Record
    PROVE  BInv'
<1> USE Consts DEF IInv, BInv
<1>n. PICK n \in Segs : n = recorded + 1
  BY DEF Record, TypeStore
<1>1. /\ recorded' = n /\ disk' = disk \cup {n} /\ ~(n <= recorded)
      /\ \A f \in Files : row'[f] = IF f = n THEN [status |-> "pending", file |-> n,
                                     start |-> recorded, end |-> n, wall |-> 1] ELSE row[f]
      /\ UNCHANGED <<content, bucket, pc, out, batch, doomed>>
  BY <1>n DEF Record, TypeStore, rolling, engine, client
<1>2. ~HasRow(n) /\ HasRow(n)' /\ row'[n].file = n /\ n # doomed
  BY <1>1 DEF HasRow, RowsKnown, ListsKnown
<1>3. \A f \in Files : f # n => /\ row'[f] = row[f] /\ HasRow(f)' = HasRow(f)
                                /\ (HasRow(f) => row[f].file # n)
  BY <1>1, <1>2 DEF HasRow, RowsKnown
<1>4. NamesOnce'
  BY <1>1, <1>2, <1>3 DEF NamesOnce, Names
<1>5. \A e \in Engines : out[e] # n
  BY <1>1 DEF EnginesKnown
<1>6. OutputsNew'
  <2> SUFFICES ASSUME NEW e \in Engines, pc[e] = "commit"
               PROVE  /\ out[e] \in disk' /\ out[e] # doomed /\ ~HasRow(out[e])'
                      /\ \A g \in Files : ~(HasRow(g)' /\ row'[g].file = out[e])
                      /\ e = "live" => out[e] # bucket.file
    BY <1>1 DEF OutputsNew, Names, HasRow
  <2>1. out[e] \in Files /\ out[e] # n
    BY <1>5 DEF OutputsNew, TypeStore
  <2>2. ~HasRow(out[e])'
    BY <2>1, <1>1, <1>3 DEF OutputsNew, HasRow
  <2> QED BY <2>1, <2>2, <1>1, <1>2, <1>3 DEF OutputsNew, Names
<1>7. BucketOwned'
  <2>1. bucket.file # n /\ (Done => out["live"] # n)
    BY <1>1, <1>5 DEF ListsKnown, EnginesKnown, Done
  <2> QED BY <1>1, <1>2, <1>3, <2>1 DEF BucketOwned, Names, Done
<1>8. Spans'
  <2>1. \A f \in Files : HasRow(f)' => Within(row[f].file, row[f])'
    <3>1. row'[n].start < n /\ n <= row'[n].end
      BY <1>n, <1>1 DEF TypeStore
    <3>2. \A s \in Segs : content[n][s] > 0 => s = n
      BY DEF Spans
    <3> QED BY <1>1, <1>2, <1>3, <3>1, <3>2 DEF Spans, Within
  <2> QED BY <2>1, <1>1 DEF Spans, Within, Done
<1> QED BY <1>4, <1>6, <1>7, <1>8

\* Engine e writes its output o, with samples c.
LEMMA WriteKeepsBooks ==
    ASSUME IInv, BInv, WInv, NEW e \in Engines, NEW o \in FreeOuts, NEW c \in [Segs -> Nat],
           pc[e] = "merge", UNCHANGED <<recorded, row, doomed>>, disk' = disk \cup {o},
           content' = [content EXCEPT ![o] = c],
           pc' = [pc EXCEPT ![e] = "commit"], out' = [out EXCEPT ![e] = o],
           bucket'.file = bucket.file, bucket'.row = bucket.row,
           \A d \in Engines \ {e} : batch'[d] = batch[d],
           e = "live" => /\ bucket.file # None => /\ bucket'.start <= bucket.start
                                                 /\ bucket.end <= bucket'.end
                         /\ \A s \in Segs : c[s] > 0 => bucket'.start < s /\ s <= bucket'.end,
           e # "live" => UNCHANGED bucket,
           bucket' \in BucketType,
           e = "live" /\ bucket.file = None =>
               \A s \in Segs : c[s] > 0 => s \in batch'[e],
           e # "live" => \A s \in Segs : c[s] > 0 => s \in batch'[e]
    PROVE  BInv'
<1> USE Consts DEF IInv, BInv
<1>o. /\ o \in Outs /\ o \notin Segs /\ o \in Files /\ o # None /\ ~HasRow(o) /\ o \notin disk
      /\ o # bucket.file /\ o # bucket.row /\ o # doomed /\ \A d \in Engines : out[d] # o
  BY DEF FreeOuts
<1>c. content'[o] = c /\ \A f \in Files : f # o => content'[f] = content[f]
  BY <1>o DEF TypeStore
<1>h. \A f \in Files : HasRow(f)' = HasRow(f) /\ row'[f] = row[f]
  BY DEF HasRow
<1>1. \A f \in Files : HasRow(f) => row[f].file \in disk /\ row[f].file # o /\ row[f].file \in Files
  BY <1>o DEF NamesOnce, TypeStore
<1>p. pc'[e] = "commit" /\ \A d \in Engines : d # e => pc'[d] = pc[d]
  BY DEF TypeEngine
<1>q. out'[e] = o /\ \A d \in Engines : d # e => out'[d] = out[d]
  BY DEF TypeEngine
<1>f. bucket.file \in Files \cup {None}
  BY DEF TypeEngine, BucketType
<1>2. NamesOnce'
  BY <1>h, <1>1 DEF NamesOnce, Names
<1>3. OutputsNew'
  <2> SUFFICES ASSUME NEW d \in Engines, pc'[d] = "commit"
               PROVE  /\ out'[d] \in disk' /\ out'[d] # doomed /\ ~HasRow(out[d])'
                      /\ \A g \in Files : ~(HasRow(g)' /\ row'[g].file = out'[d])
                      /\ d = "live" => out'[d] # bucket.file
    BY DEF OutputsNew, Names
  <2>1. CASE d = e
    <3>1. ~HasRow(out[d])'
      BY <2>1, <1>q, <1>o DEF HasRow
    <3> QED BY <2>1, <3>1, <1>o, <1>h, <1>1, <1>q
  <2>2. CASE d # e
    <3>1. pc[d] = "commit" /\ out'[d] = out[d]
      BY <2>2, <1>p, <1>q
    <3>2. ~HasRow(out[d])'
      BY <3>1 DEF OutputsNew, HasRow
    <3> QED BY <3>1, <3>2, <1>h DEF OutputsNew, Names
  <2> QED BY <2>1, <2>2
<1>4. BucketOwned'
  <2>1. Done' <=> Done /\ e # "live"
    BY <1>p DEF Done
  <2>2. e = "live" => ~Done
    BY DEF Done
  <2>3. e # "live" => out'["live"] = out["live"]
    BY <1>q
  <2> QED BY <1>h, <2>1, <2>2, <2>3 DEF BucketOwned, Names
<1>5. Spans'
  <2>1. \A s, t \in Segs : content'[s][t] > 0 <=> s = t
    BY <1>o, <1>c DEF Spans
  <2>2. \A f \in Files : HasRow(f) => content'[row[f].file] = content[row[f].file]
    BY <1>1, <1>c
  <2>3. \A f \in Files : HasRow(f)' => Within(row[f].file, row[f])'
    BY <1>h, <2>2 DEF Spans, Within
  <2>4. ASSUME bucket'.file # None PROVE Within(bucket.file, bucket)'
    <3>1. content'[bucket'.file] = content[bucket.file]
      BY <2>4, <1>f, <1>o, <1>c
    <3>2. \A s \in Segs : content[bucket.file][s] > 0 => bucket.start < s /\ s <= bucket.end
      BY <2>4 DEF Spans, Within
    <3>3. /\ bucket.start \in Nat /\ bucket.end \in Nat /\ bucket'.start \in Nat
          /\ bucket'.end \in Nat
      BY DEF TypeEngine, BucketType
    <3>4. bucket'.start <= bucket.start /\ bucket.end <= bucket'.end
      BY <2>4, <3>3
    <3> QED BY <3>1, <3>2, <3>3, <3>4 DEF Within
  <2>5. ASSUME (pc["live"] = "commit" \/ Done)' PROVE Within(out["live"], bucket)'
    <3>1. CASE e = "live"
      BY <3>1, <1>c, <1>q DEF Within
    <3>2. CASE e # "live"
      <4>1. (pc["live"] = "commit" \/ Done) /\ out'["live"] = out["live"] /\ bucket' = bucket
        BY <2>5, <3>2, <1>p, <1>q DEF Done
      <4>2. out["live"] \in Files /\ out["live"] # o
        BY <4>1, <1>o DEF EnginesKnown, Done
      <4>3. content'[out'["live"]] = content[out["live"]]
        BY <4>1, <4>2, <1>c
      <4>4. Within(out["live"], bucket)
        BY <4>1 DEF Spans
      <4> QED BY <4>1, <4>3, <4>4 DEF Within
    <3> QED BY <3>1, <3>2
  <2>6. ASSUME NEW d \in Engines, pc'[d] = "commit", d = "live" => bucket'.file = None,
               NEW s \in Segs, content'[out'[d]][s] > 0
        PROVE  s \in batch'[d]
    <3>1. CASE d = e
      BY <2>6, <3>1, <1>c, <1>q
    <3>2. CASE d # e
      <4>1. pc[d] = "commit" /\ out'[d] = out[d] /\ batch'[d] = batch[d]
        BY <2>6, <3>2, <1>p, <1>q
      <4>2. out[d] \in Files /\ out[d] # o
        BY <4>1, <1>o DEF OutputsNew, TypeStore
      <4>3. content'[out'[d]] = content[out[d]]
        BY <4>1, <4>2, <1>c
      <4> QED BY <2>6, <4>1, <4>3 DEF Spans
    <3> QED BY <3>1, <3>2
  <2> QED BY <2>1, <2>3, <2>4, <2>5, <2>6 DEF Spans
<1> QED BY <1>2, <1>3, <1>4, <1>5

LEMMA MergesKeepBooks ==
    ASSUME IInv, BInv, WInv, ~AppendBucket
    PROVE  LiveMerge \/ BackMerge \/ LegacyMerge => BInv'
<1> USE Consts
<1>s. \A S \in SUBSET Segs : /\ Samples(S) \in [Segs -> Nat]
                             /\ \A s \in Segs : Samples(S)[s] > 0 <=> s \in S
  BY DEF Samples
<1>b. /\ \A e \in Engines : batch[e] \subseteq Segs
      /\ bucket \in BucketType
  BY DEF IInv, TypeEngine
<1>1. ASSUME LiveMerge PROVE BInv'
  <2> DEFINE o == Min(FreeOuts)
             S == batch["live"]
             c == IF bucket.file = None THEN Samples(S) ELSE Joined(bucket.file, S)
             b == Advance(bucket, S)
  <2>1. /\ pc["live"] = "merge" /\ UNCHANGED <<recorded, row, doomed, batch>>
        /\ o \in FreeOuts /\ content' = [content EXCEPT ![o] = c]
        /\ disk' = disk \cup {o} /\ out' = [out EXCEPT !["live"] = o]
        /\ pc' = [pc EXCEPT !["live"] = "commit"] /\ bucket' = b
    BY <1>1, NewOutFree DEF LiveMerge, InPlace, client, clock, Goto
  <2>s. S \in SUBSET Segs /\ S # {}
    BY <2>1, <1>b DEF IInv, EnginesKnown
  <2>2. bucket'.file = bucket.file /\ bucket'.row = bucket.row /\ bucket' \in BucketType
    BY <2>1, <2>s, <1>b, AdvanceType
  <2>3. /\ bucket.file # None => b.start <= bucket.start /\ bucket.end <= b.end
        /\ \A s \in S : b.start < s /\ s <= b.end
    BY <1>b, <2>s, AdvanceCovers
  <2>4. /\ c \in [Segs -> Nat]
        /\ bucket.file = None => \A s \in Segs : c[s] > 0 => s \in S
        /\ bucket.file # None =>
               \A s \in Segs : c[s] > 0 => s \in S \/ content[bucket.file][s] > 0
    <3>1. CASE bucket.file = None
      BY <3>1, <2>s, <1>s
    <3>2. CASE bucket.file # None
      <4>1. bucket.file \in Files /\ content \in [Files -> [Segs -> Nat]]
        BY <3>2, <1>b DEF IInv, TypeStore, BucketType
      <4>2. \A s \in Segs : c[s] = content[bucket.file][s] + Samples(S)[s]
        BY <3>2 DEF Joined
      <4>3. c \in [Segs -> Nat]
        BY <3>2, <4>1, <2>s, JoinedType DEF IInv
      <4>4. content[bucket.file] \in [Segs -> Nat] /\ Samples(S) \in [Segs -> Nat]
        BY <4>1, <1>s, <2>s
      <4> HIDE DEF c, S
      <4> QED BY <3>2, <4>2, <4>3, <4>4, <1>s, <2>s
    <3> QED BY <3>1, <3>2
  <2>5. \A s \in Segs : c[s] > 0 => b.start < s /\ s <= b.end
    <3> SUFFICES ASSUME NEW s \in Segs, c[s] > 0 PROVE b.start < s /\ s <= b.end
      OBVIOUS
    <3>1. CASE s \in S
      BY <3>1, <2>3
    <3>2. CASE bucket.file # None /\ content[bucket.file][s] > 0
      <4>1. bucket.start < s /\ s <= bucket.end
        BY <3>2 DEF BInv, Spans, Within
      <4>2. b.start <= bucket.start /\ bucket.end <= b.end
        BY <3>2, <2>3
      <4>3. b.start \in Nat /\ b.end \in Nat /\ bucket.start \in Nat /\ bucket.end \in Nat /\ s \in Nat
        BY <1>b, <2>1, <2>2 DEF BucketType
      <4> HIDE DEF b
      <4> QED BY ONLY <4>1, <4>2, <4>3
    <3> HIDE DEF c, S, b
    <3> QED BY <3>1, <3>2, <2>4
  <2>6. \A d \in Engines : batch'[d] = batch[d]
    BY <2>1
  <2>7. batch'["live"] = S
    BY <2>6
  <2> HIDE DEF o, c, S, b
  <2> QED BY <2>1, <2>2, <2>3, <2>4, <2>5, <2>6, <2>7, WriteKeepsBooks
<1>2. ASSUME BackMerge PROVE BInv'
  <2> DEFINE S == batch["backfill"] \cap disk
             o == Min(FreeOuts)
  <2>1. CASE Cardinality(S) < 2
    <3>1. /\ UNCHANGED <<content, disk, row, bucket, doomed>>
          /\ pc' = [pc EXCEPT !["backfill"] = "reset"]
          /\ batch' = [batch EXCEPT !["backfill"] = {}]
          /\ out' = [out EXCEPT !["backfill"] = None]
      BY <1>2, <2>1 DEF BackMerge, rolling, client, BackUnlock, Take, Goto
    <3>2. BFrame
      BY <3>1, Spared DEF BFrame, HasRow, Done, IInv, TypeEngine
    <3> QED BY <3>2, BFrameKeeps
  <2>2. CASE ~(Cardinality(S) < 2)
    <3>1. /\ pc["backfill"] = "merge" /\ UNCHANGED <<recorded, row, doomed, bucket>>
          /\ o \in FreeOuts /\ content' = [content EXCEPT ![o] = Samples(S)]
          /\ disk' = disk \cup {o} /\ out' = [out EXCEPT !["backfill"] = o]
          /\ pc' = [pc EXCEPT !["backfill"] = "commit"]
          /\ batch' = [batch EXCEPT !["backfill"] = S]
      BY <1>2, <2>2, NewOutFree DEF BackMerge, rolling, client, Goto, Take
    <3>2. batch'["backfill"] = S /\ \A d \in Engines \ {"backfill"} : batch'[d] = batch[d]
      BY <3>1 DEF IInv, TypeEngine
    <3>3. PICK c \in [Segs -> Nat] : c = Samples(S) /\ \A s \in Segs : c[s] > 0 => s \in S
      BY <1>b, <1>s
    <3>4. \A s \in Segs : c[s] > 0 => s \in batch'["backfill"]
      BY <3>2, <3>3
    <3> HIDE DEF S, o
    <3> QED BY <3>1, <3>2, <3>3, <3>4, <1>b, WriteKeepsBooks
  <2> QED BY <2>1, <2>2
<1>3. ASSUME LegacyMerge PROVE BInv'
  <2> DEFINE S == batch["legacy"]
             o == Min(FreeOuts)
  <2>1. CASE ~(S \subseteq disk /\ FreeOuts # {})
    <3>1. /\ UNCHANGED <<content, disk, row, bucket, doomed>>
          /\ pc' = [pc EXCEPT !["legacy"] = "idle"]
          /\ batch' = [batch EXCEPT !["legacy"] = {}]
          /\ out' = [out EXCEPT !["legacy"] = None]
      BY <1>3, <2>1 DEF LegacyMerge, rolling, client, Return
    <3>2. BFrame
      BY <3>1, Spared DEF BFrame, HasRow, Done, IInv, TypeEngine
    <3> QED BY <3>2, BFrameKeeps
  <2>2. CASE S \subseteq disk /\ FreeOuts # {}
    <3>1. /\ pc["legacy"] = "merge" /\ UNCHANGED <<recorded, row, doomed, bucket, batch>>
          /\ o \in FreeOuts /\ content' = [content EXCEPT ![o] = Samples(S)]
          /\ disk' = disk \cup {o} /\ out' = [out EXCEPT !["legacy"] = o]
          /\ pc' = [pc EXCEPT !["legacy"] = "commit"]
      BY <1>3, <2>2, NewOutFree DEF LegacyMerge, rolling, client, Goto
    <3>2. PICK c \in [Segs -> Nat] : c = Samples(S) /\ \A s \in Segs : c[s] > 0 => s \in S
      BY <1>b, <1>s
    <3>3. \A d \in Engines : batch'[d] = batch[d]
      BY <3>1
    <3>4. \A s \in Segs : c[s] > 0 => s \in batch'["legacy"]
      BY <3>2, <3>3
    <3> HIDE DEF S, o
    <3> QED BY <3>1, <3>2, <3>3, <3>4, <1>b, WriteKeepsBooks
  <2> QED BY <2>1, <2>2
<1> QED BY <1>1, <1>2, <1>3

\* Engine e's row at its output replaces those of its batch.
LEMMA InsertKeepsBooks ==
    ASSUME IInv, BInv, WInv, NEW e \in Engines, pc[e] = "commit", e = "live" => bucket.file = None,
           NEW r, r.file = out[e], r.status # "none",
           \A s \in batch[e] : r.start < s /\ s <= r.end,
           Replace(out[e], r, batch[e]),
           UNCHANGED <<recorded, content, disk, doomed, bucket, out, batch>>,
           NEW p \in {"query", "delete"}, pc' = [pc EXCEPT ![e] = p]
    PROVE  BInv'
<1> USE Consts DEF IInv, BInv
<1> DEFINE o == out[e]
<1>o. /\ o \in Outs /\ o \notin Segs /\ o \in Files /\ o # None /\ ~HasRow(o) /\ o \in disk
      /\ o # doomed /\ \A g \in Files : ~Names(g, o)
      /\ \A d \in Engines : d # e => out[d] # o
      /\ e # "live" => o # bucket.file
      /\ batch[e] \subseteq Segs
  BY DEF OutputsNew, OutputsApart, EnginesKnown, TypeStore, TypeEngine, WInv
<1>r. /\ row'[o] = r /\ row'[o].file = o /\ HasRow(o)'
      /\ \A f \in Files : f # o => /\ row'[f] = IF f \in batch[e] THEN NoRow ELSE row[f]
                                   /\ HasRow(f)' <=> HasRow(f) /\ f \notin batch[e]
  BY <1>o DEF Replace, HasRow, NoRow
<1>n. \A f \in Files : HasRow(f)' => f = o \/ (HasRow(f) /\ row'[f] = row[f])
  BY <1>r
<1>p. pc'[e] = p /\ \A d \in Engines : d # e => pc'[d] = pc[d]
  BY DEF TypeEngine
<1>2. NamesOnce'
  BY <1>o, <1>r, <1>n DEF NamesOnce, Names
<1>3. OutputsNew'
  <2> SUFFICES ASSUME NEW d \in Engines, pc'[d] = "commit"
               PROVE  /\ out[d] \in disk /\ out[d] # doomed /\ ~HasRow(out[d])'
                      /\ \A g \in Files : ~(HasRow(g)' /\ row'[g].file = out[d])
                      /\ d = "live" => out[d] # bucket.file
    BY DEF OutputsNew, Names
  <2>1. d # e /\ pc[d] = "commit"
    BY <1>p
  <2>2. out[d] # o /\ out[d] \in Files
    BY <2>1, <1>o DEF OutputsNew, TypeStore
  <2>3. ~HasRow(out[d])'
    BY <2>1, <2>2, <1>r DEF OutputsNew, HasRow
  <2> QED BY <2>1, <2>2, <2>3, <1>r, <1>n, <1>o DEF OutputsNew, Names
<1>4. BucketOwned'
  <2>1. CASE e = "live"
    <3>1. bucket.file = None /\ Done' /\ out'["live"] = o
      BY <2>1, <1>p DEF Done
    <3> QED BY <3>1, <1>n, <1>r, <1>o DEF BucketOwned, Names
  <2>2. CASE e # "live"
    <3>1. Done' = Done /\ out'["live"] = out["live"] /\ o # bucket.file
      BY <2>2, <1>p, <1>o DEF Done
    <3>2. out["live"] # o
      BY <2>2, <1>o
    <3> QED BY <3>1, <3>2, <1>n, <1>r DEF BucketOwned, Names
  <2> QED BY <2>1, <2>2
<1>5. Spans'
  <2>1. ASSUME NEW f \in Files, HasRow(f)' PROVE Within(row[f].file, row[f])'
    <3>1. CASE f = o
      <4>1. \A s \in Segs : content[o][s] > 0 => s \in batch[e]
        BY DEF Spans
      <4>2. \A s \in Segs : content[o][s] > 0 => r.start < s /\ s <= r.end
        BY <4>1
      <4> QED BY <3>1, <4>2, <1>r DEF Within
    <3>2. CASE f # o
      BY <2>1, <3>2, <1>r, <1>n DEF Spans, Within
    <3> QED BY <3>1, <3>2
  <2>2. pc'["live"] = "commit" \/ Done' => pc["live"] = "commit" \/ Done
    BY <1>p DEF Done
  <2>3. \A d \in Engines : pc'[d] = "commit" => pc[d] = "commit"
    BY <1>p
  <2> QED BY <2>1, <2>2, <2>3 DEF Spans, Within
<1> QED BY <1>2, <1>3, <1>4, <1>5

\* The bucket's row, if it is there, moves on to the output.
LEMMA UpdateKeepsBooks ==
    ASSUME IInv, BInv, WInv, LiveCommit, bucket.file # None
    PROVE  BInv'
<1> USE Consts DEF IInv, BInv
<1>v. PICK o \in Outs, r \in Outs, S \in SUBSET Segs :
                o = out["live"] /\ r = bucket.row /\ S = batch["live"]
  BY DEF LiveCommit, EnginesKnown, TypeEngine, BucketType, ListsKnown, WInv, Walls
<1>u. /\ pc["live"] = "commit" /\ pc' = [pc EXCEPT !["live"] = "query"]
      /\ UNCHANGED <<recorded, content, disk, doomed, bucket, out, batch>>
  BY DEF LiveCommit, rolling, client, Goto
<1>o. /\ o \in Outs /\ o \notin Segs /\ o \in Files /\ o # None /\ ~HasRow(o) /\ o \in disk
      /\ o # doomed /\ o # bucket.file /\ \A g \in Files : ~Names(g, o)
      /\ \A d \in Engines : d # "live" => out[d] # o /\ out[d] # r
  BY <1>u, <1>v DEF OutputsNew, OutputsApart, WInv, TypeEngine, None
<1>r. /\ \A f \in Files : HasRow(f)' => HasRow(f)
      /\ \A f \in Files : HasRow(f)' /\ f # r => row'[f] = row[f]
      /\ HasRow(r)' => /\ row'[r].file = o
                       /\ row'[r].start <= bucket.start /\ bucket.end <= row'[r].end
                       /\ row'[r].start \in Nat /\ row'[r].end \in Nat
  <2>1. \A f \in Files : row'[f] = IF f \in S THEN NoRow ELSE IF f = r /\ HasRow(r)
                          THEN [row[r] EXCEPT !.file = o, !.start = Min({@, bucket.start}),
                                     !.end = Max({@, bucket.end}), !.wall = bucket.wall]
                          ELSE row[f]
    BY <1>v DEF LiveCommit
  <2>2. row[r] \in RowType /\ bucket \in BucketType /\ NoRow.status = "none"
    BY DEF TypeStore, TypeEngine, NoRow
  <2>3. \A f \in Files : f # r => row'[f] = IF f \in S THEN NoRow ELSE row[f]
    BY <2>1
  <2>4. ASSUME NEW f \in Files, f # r, HasRow(f)' PROVE HasRow(f) /\ row'[f] = row[f]
    BY <2>2, <2>3, <2>4 DEF HasRow
  <2>5. CASE ~HasRow(r)
    <3>1. r \notin S /\ row'[r] = row[r]
      BY <2>1, <2>5
    <3> QED BY <2>4, <2>5, <3>1 DEF HasRow
  <2>6. CASE HasRow(r)
    <3>1. row'[r] = [row[r] EXCEPT !.file = o, !.start = Min({@, bucket.start}),
                                     !.end = Max({@, bucket.end}), !.wall = bucket.wall]
      BY <2>1, <2>6
    <3>2. /\ row'[r].file = o /\ row'[r].start = Min({row[r].start, bucket.start})
          /\ row'[r].end = Max({row[r].end, bucket.end})
      BY <2>2, <3>1 DEF RowType
    <3>3. PICK a \in Nat, b \in Nat, c \in Nat, d \in Nat :
                 a = row[r].start /\ b = bucket.start /\ c = row[r].end /\ d = bucket.end
      BY <2>2 DEF RowType, BucketType
    <3>4. /\ {a, b} \subseteq Nat /\ {a, b} # {} /\ c \in Int /\ d \in Int
      OBVIOUS
    <3>5. Min({a, b}) \in {a, b} /\ \A y \in {a, b} : Min({a, b}) <= y
      BY <3>4, MinIn
    <3>6. Max({c, d}) \in {c, d} /\ d <= Max({c, d}) /\ c <= Max({c, d})
      BY ONLY <3>4, TwoOf
    <3>7. /\ row'[r].start <= bucket.start /\ bucket.end <= row'[r].end
          /\ row'[r].start \in Nat /\ row'[r].end \in Nat
      BY <3>2, <3>3, <3>5, <3>6
    <3> QED BY <2>4, <2>6, <3>2, <3>7
  <2> QED BY <2>5, <2>6
<1>p. \A d \in Engines : pc'[d] = "commit" => d # "live" /\ pc[d] = "commit"
  BY <1>u DEF TypeEngine
<1>q. Done' /\ ~Done /\ out'["live"] = o /\ bucket'.row = r
  BY <1>u, <1>v DEF TypeEngine, Done
<1>1. NamesOnce'
  BY <1>u, <1>o, <1>r DEF NamesOnce, Names
<1>2. OutputsNew'
  <2> SUFFICES ASSUME NEW d \in Engines, pc'[d] = "commit"
               PROVE  /\ out[d] \in disk /\ out[d] # doomed /\ ~HasRow(out[d])'
                      /\ \A g \in Files : ~(HasRow(g)' /\ row'[g].file = out[d])
    BY <1>u, <1>p DEF OutputsNew, Names
  <2>1. d # "live" /\ pc[d] = "commit"
    BY <1>p
  <2>2. out[d] # o /\ out[d] \in Files /\ ~HasRow(out[d])
    BY <2>1, <1>o DEF OutputsNew, TypeStore
  <2>3. ~HasRow(out[d])'
    BY <2>2, <1>r, <1>u DEF HasRow
  <2> QED BY <2>1, <2>2, <2>3, <1>r, <1>o DEF OutputsNew, Names
<1>3. BucketOwned'
  <2>1. \A g \in Files : HasRow(g)' /\ g # r => row'[g].file # bucket.file /\ row'[g].file # o
    BY <1>r, <1>o, <1>v DEF BucketOwned, Names
  <2>2. HasRow(r)' => row'[r].file = o
    BY <1>r
  <2> QED BY <1>u, <1>q, <1>o, <2>1, <2>2 DEF BucketOwned, Names
<1>4. Spans'
  <2>1. ASSUME NEW f \in Files, HasRow(f)' PROVE Within(row[f].file, row[f])'
    <3>1. CASE f = r
      <4>1. Within(o, bucket)
        BY <1>u, <1>v DEF Spans
      <4>2. /\ row'[r].file = o /\ row'[r].start <= bucket.start /\ bucket.end <= row'[r].end
            /\ row'[r].start \in Nat /\ row'[r].end \in Nat
        BY <2>1, <3>1, <1>r
      <4>3. bucket.start \in Nat /\ bucket.end \in Nat /\ \A s \in Segs : s \in Nat
        BY DEF TypeEngine, BucketType
      <4>4. \A s \in Segs : content[o][s] > 0 => row'[r].start < s /\ s <= row'[r].end
        BY <4>1, <4>2, <4>3 DEF Within
      <4> QED BY <3>1, <4>2, <4>4, <1>u DEF Within
    <3>2. CASE f # r
      BY <2>1, <3>2, <1>r, <1>u DEF Spans, Within
    <3> QED BY <3>1, <3>2
  <2> QED BY <2>1, <1>u, <1>p, <1>q DEF Spans, Within
<1> QED BY <1>1, <1>2, <1>3, <1>4

LEMMA CommitsKeepBooks ==
    ASSUME IInv, BInv, WInv
    PROVE  LiveCommit \/ BackCommit \/ LegacyCommit => BInv'
<1> USE Consts
<1>b. ASSUME NEW o, NEW S \in SUBSET Segs, S # {}
      PROVE  /\ BatchRow(o, S).file = o /\ BatchRow(o, S).status # "none"
             /\ Span(o, S).file = o /\ Span(o, S).status # "none"
             /\ \A s \in S : /\ BatchRow(o, S).start < s /\ s <= BatchRow(o, S).end
                            /\ Span(o, S).start < s /\ s <= Span(o, S).end
  <2>1. S \subseteq Nat /\ S \subseteq Int /\ NumSegs \in Int /\ \A y \in S : y <= NumSegs
    BY <1>b
  <2>2. \A s \in S : Min(S) <= s
    BY <1>b, <2>1, MinIn
  <2>3. \A s \in S : s <= Max(S)
    BY <1>b, <2>1, MaxIn
  <2>4. Min(S) \in Nat /\ Max(S) \in Nat
    BY <1>b, SegsEnds
  <2>5. /\ Span(o, S).file = o /\ Span(o, S).status = "merged"
        /\ Span(o, S).start = Min(S) - 1 /\ Span(o, S).end = Max(S)
    BY DEF Span
  <2>6. /\ BatchRow(o, S).file = o /\ BatchRow(o, S).status = "merged"
        /\ BatchRow(o, S).start = Min(S) - 1 /\ BatchRow(o, S).end = Max(S)
    BY DEF Span, BatchRow
  <2> QED BY <2>1, <2>2, <2>3, <2>4, <2>5, <2>6
<1>e. \A e \in Engines : pc[e] = "commit" => batch[e] \in SUBSET Segs /\ batch[e] # {}
  BY DEF IInv, TypeEngine, EnginesKnown
<1>1. ASSUME LiveCommit PROVE BInv'
  <2>1. CASE bucket.file # None
    BY <1>1, <2>1, UpdateKeepsBooks
  <2>2. CASE bucket.file = None
    <3> DEFINE r == Span(out["live"], batch["live"])
    <3>1. /\ pc["live"] = "commit" /\ Replace(out["live"], r, batch["live"])
          /\ UNCHANGED <<recorded, content, disk, doomed, bucket, out, batch>>
          /\ pc' = [pc EXCEPT !["live"] = "query"]
      BY <1>1, <2>2 DEF LiveCommit, rolling, client, Goto
    <3>2. /\ r.file = out["live"] /\ r.status # "none"
          /\ \A s \in batch["live"] : r.start < s /\ s <= r.end
      BY <3>1, <1>b, <1>e
    <3> HIDE DEF r
    <3> QED BY <2>2, <3>1, <3>2, InsertKeepsBooks
  <2> QED BY <2>1, <2>2
<1>2. ASSUME BackCommit PROVE BInv'
  <2> DEFINE r == BatchRow(out["backfill"], batch["backfill"])
  <2>1. /\ pc["backfill"] = "commit" /\ Replace(out["backfill"], r, batch["backfill"])
        /\ UNCHANGED <<recorded, content, disk, doomed, bucket, out, batch>>
        /\ pc' = [pc EXCEPT !["backfill"] = "query"]
    BY <1>2 DEF BackCommit, rolling, client, Goto
  <2>2. /\ r.file = out["backfill"] /\ r.status # "none"
        /\ \A s \in batch["backfill"] : r.start < s /\ s <= r.end
    BY <2>1, <1>b, <1>e
  <2> HIDE DEF r
  <2> QED BY <2>1, <2>2, InsertKeepsBooks
<1>3. ASSUME LegacyCommit PROVE BInv'
  <2> DEFINE r == BatchRow(out["legacy"], batch["legacy"])
  <2>1. /\ pc["legacy"] = "commit" /\ Replace(out["legacy"], r, batch["legacy"])
        /\ UNCHANGED <<recorded, content, disk, doomed, bucket, out, batch>>
        /\ pc' = [pc EXCEPT !["legacy"] = "delete"]
    BY <1>3 DEF LegacyCommit, rolling, client, Goto
  <2>2. /\ r.file = out["legacy"] /\ r.status # "none"
        /\ \A s \in batch["legacy"] : r.start < s /\ s <= r.end
    BY <2>1, <1>b, <1>e
  <2> HIDE DEF r
  <2> QED BY <2>1, <2>2, InsertKeepsBooks
<1> QED BY <1>1, <1>2, <1>3

LEMMA LiveDeleteKeepsBooks ==
    ASSUME IInv, BInv, WInv, ~AppendBucket, LiveDelete
    PROVE  BInv'
<1> USE Consts DEF IInv, BInv
<1>v. PICK o \in Outs, S \in SUBSET Segs : o = out["live"] /\ S = batch["live"]
  BY DEF LiveDelete, EnginesKnown, TypeEngine
<1>u. /\ pc["live"] = "delete" /\ UNCHANGED <<recorded, content, row, doomed>>
      /\ pc' = [pc EXCEPT !["live"] = "idle"] /\ batch' = [batch EXCEPT !["live"] = {}]
      /\ out' = [out EXCEPT !["live"] = None]
      /\ disk' = disk \ (S \cup (IF bucket.file = o THEN {} ELSE {bucket.file}))
      /\ bucket' = [bucket EXCEPT !.file = o, !.row = IF bucket.file = None THEN o ELSE @]
  BY <1>v DEF LiveDelete, LiveUnlock, Return, client, clock
<1>o. o \in Files /\ o # None /\ Done /\ \A s \in S : ~HasRow(s)
  BY <1>u, <1>v DEF EnginesKnown, Done
<1>b. /\ bucket'.file = o /\ bucket'.start = bucket.start /\ bucket'.end = bucket.end
      /\ bucket'.row = IF bucket.file = None THEN o ELSE bucket.row
  BY <1>u DEF TypeEngine, BucketType
<1>n. /\ \A g \in Files : Names(g, o) => g = bucket'.row
      /\ bucket.file # None => \A g \in Files : ~Names(g, bucket.file)
  BY <1>v, <1>o, <1>b DEF BucketOwned
<1>d. \A e \in Engines : e # "live" => /\ pc'[e] = pc[e] /\ out'[e] = out[e]
                                       /\ batch'[e] = batch[e]
  BY <1>u DEF TypeEngine
<1>l. pc'["live"] = "idle" /\ out'["live"] = None /\ ~Done'
  BY <1>u DEF TypeEngine, Done
<1>h. \A f \in Files : HasRow(f)' = HasRow(f)
  BY <1>u DEF HasRow
<1>f. ASSUME NEW f \in Files, HasRow(f) PROVE row[f].file \in disk'
  <2>1. row[f].file \in disk /\ row[f].file \in Files
    BY <1>f DEF NamesOnce, TypeStore
  <2>2. row[f].file \notin S
    BY <1>f, <1>o DEF RowsKnown
  <2>3. row[f].file # bucket.file
    BY <1>f, <2>1, <1>n DEF Names
  <2> QED BY <2>1, <2>2, <2>3, <1>u
<1>1. NamesOnce'
  BY <1>u, <1>h, <1>f DEF NamesOnce, Names
<1>2. OutputsNew'
  <2> SUFFICES ASSUME NEW d \in Engines, d # "live", pc[d] = "commit"
               PROVE  /\ out[d] \in disk' /\ out[d] # doomed /\ ~HasRow(out[d])
                      /\ \A g \in Files : ~(HasRow(g) /\ row[g].file = out[d])
    <3>1. \A d \in Engines : pc'[d] = "commit" => d # "live" /\ pc[d] = "commit" /\ out'[d] = out[d]
      BY <1>d, <1>l
    <3>2. \A d \in Engines : out'[d] = out[d] => HasRow(out[d])' = HasRow(out[d])
      BY <1>u DEF HasRow
    <3> QED BY <3>1, <3>2, <1>u, <1>d, <1>h DEF OutputsNew, Names
  <2>1. out[d] \in disk /\ out[d] \in Files /\ out[d] \notin Segs /\ out[d] # bucket.file
    BY DEF OutputsNew, OutputsApart, WInv, EnginesKnown, TypeStore
  <2>2. out[d] \in disk'
    BY <2>1, <1>u
  <2> QED BY <2>2 DEF OutputsNew, Names
<1>3. BucketOwned'
  BY <1>b, <1>n, <1>l, <1>u, <1>h DEF BucketOwned, Names
<1>4. Spans'
  <2>1. Within(bucket.file, bucket)'
    <3>1. Within(o, bucket)
      BY <1>v, <1>o DEF Spans
    <3> QED BY <3>1, <1>b, <1>u DEF Within
  <2>2. \A f \in Files : HasRow(f)' => Within(row[f].file, row[f])'
    BY <1>u, <1>h DEF Spans, Within
  <2> QED BY <2>1, <2>2, <1>d, <1>l, <1>u DEF Spans
<1> QED BY <1>1, <1>2, <1>3, <1>4

BooksInv == ~AppendBucket => BInv

LEMMA BooksInit == Init => BooksInv
<1> SUFFICES ASSUME Init PROVE BInv
  BY DEF BooksInv
<1> USE Consts DEF Init, NoRow, NoBucket, None, HasRow, Names, Done
<1>1. NamesOnce /\ OutputsNew /\ BucketOwned
  BY DEF NamesOnce, OutputsNew, BucketOwned
<1>2. Spans
  BY DEF Spans
<1> QED BY <1>1, <1>2 DEF BInv

LEMMA BooksNext == IInv /\ WInv /\ BooksInv /\ [Next]_vars => BooksInv'
<1> SUFFICES ASSUME IInv, WInv, BooksInv, [Next]_vars, ~AppendBucket' PROVE BInv'
  BY DEF BooksInv
<1>s. ~AppendBucket /\ BInv
  BY DEF Next, vars, AppendBucket, BooksInv
<1>f. BFrame => BInv'
  BY <1>s, BFrameKeeps
<1>1. CASE Outside
  BY <1>1, <1>s, <1>f, RecordKeepsBooks, OutsideBFrames DEF Outside
<1>2. CASE Live
  <2>1. ~LiveRenameFails
    BY <1>s DEF LiveRenameFails
  <2> QED BY <1>2, <1>s, <1>f, <2>1, LiveBFrames, MergesKeepBooks, CommitsKeepBooks,
             LiveDeleteKeepsBooks DEF Live
<1>3. CASE Backfill
  BY <1>3, <1>s, <1>f, BackBFrames, MergesKeepBooks, CommitsKeepBooks DEF Backfill
<1>4. CASE LegacyPass \/ Crash
  BY <1>4, <1>s, <1>f, LegacyBFrames, MergesKeepBooks, CommitsKeepBooks DEF LegacyPass
<1>5. CASE UNCHANGED vars
  <2>1. BFrame
    BY <1>5, <1>s, Spared DEF BFrame, vars, moving, store, rolling, engine, client, HasRow, Done
  <2> QED BY <2>1, <1>f
<1> QED BY <1>1, <1>2, <1>3, <1>4, <1>5 DEF Next

LEMMA BooksHold == Spec => []BooksInv
BY BooksInit, BooksNext, InvHolds, WallsHold, PTL DEF Spec

\* A row's times cover the segments of its file, with all engines at work,
\* whatever fails, crashes or is deleted, unless buckets are appended to in
\* place; the bucket's row is never shorter than the span of its times.
THEOREM RowsCover == Spec => []RowCovers
<1>1. IInv /\ WInv /\ BooksInv => RowCovers
  <2> SUFFICES ASSUME IInv, WInv, BooksInv PROVE RowCovers
    OBVIOUS
  <2>1. bucket.row # None /\ HasRow(bucket.row) =>
          row[bucket.row].wall >= row[bucket.row].end - row[bucket.row].start
    BY DEF WInv, Walls, WithinBucket
  <2>2. ~AppendBucket => \A f \in Files, s \in Segs :
                            Reaches(f, s) => row[f].start < s /\ s <= row[f].end
    BY DEF BooksInv, BInv, Spans, Within, Reaches
  <2> QED BY <2>1, <2>2 DEF RowCovers
<1> QED BY <1>1, InvHolds, WallsHold, BooksHold, PTL

-----------------------------------------------------------------------------
\* No footage is shown twice.

BackHolds == pc["backfill"] \in {"parse", "merge", "commit", "query", "delete"}

\* An engine has hands, and works, only with the lock.
LockKept ==
    /\ pc["live"] \in {"idle", "classify", "merge", "commit", "query", "delete"}
    /\ pc["backfill"] \in {"idle", "sweep", "reset"} \/ BackHolds
    /\ pc["live"] # "idle" <=> lock = "live"
    /\ BackHolds <=> lock = "backfill"
    /\ pc["live"] = "idle" => batch["live"] = {}
    /\ ~BackHolds => batch["backfill"] = {}
    /\ ~Legacy => pc["legacy"] = "idle" /\ batch["legacy"] = {}

LEMMA LiveKeepsLock ==
    ASSUME TypeEngine, LockKept, Live, UNCHANGED setup
    PROVE  LockKept'
<1> USE Consts DEF LockKept, BackHolds, TypeEngine, Legacy, engine, Goto, Take, Return, LiveUnlock
<1>1. CASE LiveDispatch
  BY <1>1 DEF LiveDispatch
<1>2. CASE LiveGivesUp
  BY <1>2 DEF LiveGivesUp
<1>3. CASE LiveClassify
  BY <1>3 DEF LiveClassify
<1>4. CASE LiveMerge
  BY <1>4 DEF LiveMerge
<1>5. CASE LiveMergeFails
  BY <1>5 DEF LiveMergeFails
<1>6. CASE LiveCommit
  BY <1>6 DEF LiveCommit
<1>7. CASE LiveCommitFails
  BY <1>7 DEF LiveCommitFails
<1>8. CASE LiveQuery
  BY <1>8 DEF LiveQuery
<1>9. CASE LiveDelete
  BY <1>9 DEF LiveDelete
<1>10. CASE LiveRenameFails
  BY <1>10 DEF LiveRenameFails
<1> QED BY <1>1, <1>2, <1>3, <1>4, <1>5, <1>6, <1>7, <1>8, <1>9, <1>10 DEF Live

LEMMA BackfillKeepsLock ==
    ASSUME TypeEngine, LockKept, Backfill, UNCHANGED setup
    PROVE  LockKept'
<1> USE Consts DEF LockKept, BackHolds, TypeEngine, Legacy, engine, Goto, Take, BackUnlock
<1>1. CASE BackSweep
  BY <1>1 DEF BackSweep
<1>2. CASE BackSingle
  BY <1>2 DEF BackSingle
<1>3. CASE BackLock
  BY <1>3 DEF BackLock
<1>4. CASE BackEnds
  BY <1>4 DEF BackEnds
<1>5. CASE BackParse
  BY <1>5 DEF BackParse
<1>6. CASE BackMerge
  BY <1>6 DEF BackMerge
<1>7. CASE BackMergeFails
  BY <1>7 DEF BackMergeFails
<1>8. CASE BackCommit
  BY <1>8 DEF BackCommit
<1>9. CASE BackCommitFails
  BY <1>9 DEF BackCommitFails
<1>10. CASE BackQuery
  BY <1>10 DEF BackQuery
<1>11. CASE BackDelete
  BY <1>11 DEF BackDelete
<1>12. CASE BackReset
  BY <1>12 DEF BackReset
<1> QED BY <1>1, <1>2, <1>3, <1>4, <1>5, <1>6, <1>7, <1>8, <1>9, <1>10, <1>11, <1>12 DEF Backfill

LEMMA LegacyKeepsLock ==
    ASSUME TypeEngine, LockKept, LegacyPass, UNCHANGED setup
    PROVE  LockKept'
<1> USE Consts DEF LockKept, BackHolds, TypeEngine, Legacy, engine, Goto, Take, Return
<1>1. CASE LegacyList
  BY <1>1 DEF LegacyList
<1>2. CASE LegacySingle
  BY <1>2 DEF LegacySingle
<1>3. CASE LegacyParse
  BY <1>3 DEF LegacyParse
<1>4. CASE LegacyMerge
  BY <1>4 DEF LegacyMerge
<1>5. CASE LegacyCommit
  BY <1>5 DEF LegacyCommit
<1>6. CASE LegacyCommitFails
  BY <1>6 DEF LegacyCommitFails
<1>7. CASE LegacyDelete
  BY <1>7 DEF LegacyDelete
<1> QED BY <1>1, <1>2, <1>3, <1>4, <1>5, <1>6, <1>7 DEF LegacyPass

LEMMA HolderNext == IInv /\ LockKept /\ [Next]_vars => LockKept'
<1> SUFFICES ASSUME IInv, LockKept, [Next]_vars PROVE LockKept'
  OBVIOUS
<1>s. UNCHANGED setup /\ TypeEngine
  BY DEF Next, vars, IInv
<1>1. CASE Outside \/ UNCHANGED vars
  <2>1. UNCHANGED <<lock, pc, batch>>
    BY <1>1 DEF Outside, Record, Age, DeleteFile, TaskLands, TaskEnds, DeleteRow, SweepOrphan,
         vars, moving, engine
  <2> QED BY <1>s, <2>1 DEF LockKept, BackHolds, Legacy
<1>2. CASE Crash
  BY <1>2, <1>s, Consts DEF Crash, LockKept, BackHolds, Legacy
<1>3. CASE Live \/ Backfill \/ LegacyPass
  BY <1>3, <1>s, LiveKeepsLock, BackfillKeepsLock, LegacyKeepsLock
<1> QED BY <1>1, <1>2, <1>3 DEF Next

LEMMA LockHolds == Spec => []LockKept
<1>1. Init => LockKept
  BY Consts DEF Init, LockKept, BackHolds
<1> QED BY <1>1, HolderNext, InvHolds, PTL DEF Spec

\* Outputs that count: the bucket's, one whose bucket or row is about to be
\* brought up to date, and those that rows lead to.
Used(f) == /\ f \in Outs
           /\ f = bucket.file \/ (Done /\ f = out["live"]) \/ \E g \in Files : Names(g, f)

Folded(s) == \E f \in Outs : Used(f) /\ content[f][s] > 0

\* Segments whose file their engine is about to remove,
Leaving(s) == \E e \in Engines : pc[e] \in {"query", "delete"} /\ s \in batch[e]

\* and segments an engine may still fold.
InHand(s) == s \in queue \/ s \in free \cap listed \/ \E e \in Engines : s \in batch[e]

\* What has been folded has no row any more; if it is still there and in hand,
\* it is on its way out.
FoldedGone ==
    \A s \in Segs : Folded(s) =>
        s <= recorded /\ ~HasRow(s) /\ (s \in disk /\ InHand(s) => Leaving(s))

\* A segment is in one output, but for the bucket's old and new one.
FoldedOnce ==
    \A s \in Segs, f, g \in Outs :
        Used(f) /\ Used(g) /\ content[f][s] > 0 /\ content[g][s] > 0 =>
            f = g \/ (Done /\ {f, g} = {bucket.file, out["live"]})

Counts == /\ \A s \in Segs : content[s][s] = 1
          /\ \A s \in Segs, f \in Outs : Used(f) => content[f][s] <= 1

\* An output ready for its commit adds nothing that has been folded before.
CommitsFresh ==
    \A e \in Engines : pc[e] = "commit" => \A s \in Segs :
        /\ s \in batch[e] => ~Folded(s)
        /\ content[out[e]][s] <= 1
        /\ content[out[e]][s] > 0 =>
              s \in batch[e] \/ (e = "live" /\ bucket.file # None /\ content[bucket.file][s] > 0)

CInv == FoldedGone /\ FoldedOnce /\ Counts /\ CommitsFresh

\* A step that brings no output into use and hands nobody what was folded.
CFrame ==
    /\ recorded <= recorded' /\ recorded' \in Nat
    /\ \A f \in Files : content'[f] = content[f]
    /\ \A f \in Outs : Used(f)' => Used(f)
    /\ \A s \in Segs : Folded(s) /\ HasRow(s)' => HasRow(s)
    /\ \A s \in Segs : Folded(s) /\ s \in disk' /\ InHand(s)' =>
          s \in disk /\ (InHand(s) \/ HasRow(s)) /\ (Leaving(s) => Leaving(s)')
    /\ \A e \in Engines : pc'[e] = "commit" =>
          pc[e] = "commit" /\ batch'[e] = batch[e] /\ out'[e] = out[e] /\ bucket' = bucket
    /\ IF Done' THEN Done /\ bucket' = bucket /\ out'["live"] = out["live"]
       ELSE Done => \A f \in Outs : f = bucket.file /\ f # out["live"] => ~Used(f)'

LEMMA CFrameKeeps ==
    ASSUME IInv, BInv, CInv, CFrame
    PROVE  CInv'
<1> USE Consts DEF CInv
<1>f. ASSUME NEW s \in Segs, Folded(s)' PROVE Folded(s)
  BY <1>f DEF Folded, CFrame
<1>1. FoldedGone'
  <2> SUFFICES ASSUME NEW s \in Segs, Folded(s)'
               PROVE  s <= recorded' /\ ~HasRow(s)' /\ (s \in disk' /\ InHand(s)' => Leaving(s)')
    BY DEF FoldedGone
  <2>1. Folded(s)
    BY <1>f
  <2>2. s <= recorded'
    BY <2>1 DEF FoldedGone, CFrame, IInv, TypeStore
  <2> QED BY <2>1, <2>2 DEF FoldedGone, CFrame
<1>2. FoldedOnce'
  <2> SUFFICES ASSUME NEW s \in Segs, NEW f \in Outs, NEW g \in Outs, Used(f)', Used(g)',
                      content'[f][s] > 0, content'[g][s] > 0, f # g
               PROVE  Done' /\ {f, g} = {bucket'.file, out'["live"]}
    BY DEF FoldedOnce
  <2>1. Done /\ {f, g} = {bucket.file, out["live"]}
    BY DEF FoldedOnce, CFrame
  <2>2. \A h \in Outs : h = bucket.file /\ h # out["live"] /\ Used(h)' => Done'
    BY <2>1 DEF CFrame
  <2>3. Done'
    BY <2>1, <2>2
  <2> QED BY <2>1, <2>3 DEF CFrame
<1>3. Counts'
  BY DEF Counts, CFrame
<1>4. CommitsFresh'
  <2> SUFFICES ASSUME NEW e \in Engines, pc'[e] = "commit", NEW s \in Segs
               PROVE  /\ s \in batch'[e] => ~Folded(s)'
                      /\ content'[out'[e]][s] <= 1
                      /\ content'[out'[e]][s] > 0 =>
                           s \in batch'[e] \/ (e = "live" /\ bucket'.file # None
                                                 /\ content'[bucket'.file][s] > 0)
    BY DEF CommitsFresh
  <2>1. pc[e] = "commit" /\ batch'[e] = batch[e] /\ out'[e] = out[e] /\ bucket' = bucket
    BY DEF CFrame
  <2>2. out[e] \in Files /\ (bucket.file # None => bucket.file \in Files)
    BY <2>1 DEF BInv, OutputsNew, IInv, TypeStore, TypeEngine, BucketType
  <2>3. content'[out[e]] = content[out[e]] /\ (bucket.file # None => content'[bucket.file] = content[bucket.file])
    BY <2>2 DEF CFrame
  <2> QED BY <2>1, <2>3, <1>f DEF CommitsFresh
<1> QED BY <1>1, <1>2, <1>3, <1>4

\* A step that takes nothing in hand that was not, or is not listed by its row.
HFrame ==
    /\ recorded' = recorded
    /\ \A s \in Segs : s \in disk' => s \in disk
    /\ \A s \in Segs : InHand(s)' => InHand(s) \/ HasRow(s)
    /\ \A e \in Engines : \A s \in batch[e] :
          pc[e] \in {"query", "delete"} /\ s \in disk' /\ InHand(s)' =>
              pc'[e] \in {"query", "delete"} /\ s \in batch'[e]
    /\ bucket' = bucket \/ \A e \in Engines : pc'[e] # "commit"

LEMMA HFrameSuffices ==
    ASSUME IInv, BInv, CInv, BFrame, HFrame
    PROVE  CFrame
<1> USE Consts
<1>f. \A g \in Files : HasRow(g)' => HasRow(g) /\ row'[g].file = row[g].file
  BY DEF BFrame
<1>1. recorded <= recorded' /\ recorded' \in Nat /\ \A f \in Files : content'[f] = content[f]
  BY DEF IInv, TypeStore, HFrame, BFrame
<1>2. ASSUME NEW f \in Outs, Used(f)' PROVE Used(f)
  <2>1. f # None
    OBVIOUS
  <2>2. CASE f = bucket'.file \/ (Done' /\ f = out'["live"])
    BY <2>1, <2>2 DEF BFrame, Used, NoBucket
  <2>3. CASE \E g \in Files : HasRow(g)' /\ row'[g].file = f
    BY <2>3, <1>f DEF Used, Names
  <2> QED BY <1>2, <2>2, <2>3 DEF Used, Names
<1>3. ASSUME NEW s \in Segs, s \in disk', InHand(s)'
      PROVE  s \in disk /\ (InHand(s) \/ HasRow(s)) /\ (Leaving(s) => Leaving(s)')
  BY <1>3 DEF HFrame, Leaving
<1>4. ASSUME NEW e \in Engines, pc'[e] = "commit"
      PROVE  pc[e] = "commit" /\ batch'[e] = batch[e] /\ out'[e] = out[e] /\ bucket' = bucket
  BY <1>4 DEF HFrame, BFrame
<1>5. IF Done' THEN Done /\ bucket' = bucket /\ out'["live"] = out["live"]
      ELSE Done => \A f \in Outs : f = bucket.file /\ f # out["live"] => ~Used(f)'
  <2>1. ASSUME ~Done', Done, NEW f \in Outs, f = bucket.file PROVE ~Used(f)'
    <3>1. bucket'.file = None
      BY <2>1 DEF BFrame, NoBucket
    <3>2. \A g \in Files : ~Names(g, f)
      BY <2>1 DEF BInv, BucketOwned
    <3>3. \A g \in Files : ~(HasRow(g)' /\ row'[g].file = f)
      BY <3>2, <1>f DEF Names
    <3> QED BY <2>1, <3>1, <3>3 DEF Used, Names
  <2> QED BY <2>1 DEF BFrame
<1> QED BY <1>1, <1>2, <1>3, <1>4, <1>5, <1>f DEF CFrame

LEMMA OutsideHFrames ==
    ASSUME IInv, BInv, WInv, LockKept, CInv
    PROVE  /\ Age \/ DeleteFile => CFrame
           /\ \A s \in Segs : TaskLands(s) \/ TaskEnds(s) => CFrame
           /\ \A f \in Files : DeleteRow(f) \/ SweepOrphan(f) => CFrame
<1>1. UNCHANGED <<recorded, queue, listed, free, batch, pc, bucket>> /\ disk' \subseteq disk => HFrame
  BY DEF HFrame, InHand
<1>2. Age \/ DeleteFile => HFrame
  BY <1>1 DEF Age, DeleteFile, store, rolling, engine
<1>3. ASSUME NEW s \in Segs PROVE TaskLands(s) \/ TaskEnds(s) => HFrame
  BY <1>1 DEF TaskLands, TaskEnds, store, rolling, engine
<1>4. ASSUME NEW f \in Files PROVE DeleteRow(f) \/ SweepOrphan(f) => HFrame
  BY <1>1 DEF DeleteRow, SweepOrphan, rolling, engine
<1> QED BY <1>2, <1>3, <1>4, HFrameSuffices, OutsideBFrames

\* With a complete hold, nothing in hand is held.
LEMMA QueryKeepsAll ==
    ASSUME IInv, TInv, HoldComplete, ~HoldFails, NEW e \in Rolling,
           NEW S \in Unheld(batch[e])
    PROVE  S = batch[e]
<1>1. S = batch[e] \ Held
  BY DEF Unheld
<1>2. \A s \in batch[e] : s \notin Held
  BY DEF TInv, HandsSettled, Settled, Held
<1> QED BY <1>1, <1>2

\* Who holds the lock is alone.
LEMMA Alone ==
    ASSUME LockKept, ~Legacy
    PROVE  /\ pc["live"] # "idle" => ~BackHolds /\ batch["backfill"] = {}
           /\ lock = "free" => pc["live"] = "idle" /\ ~BackHolds
           /\ BackHolds => pc["live"] = "idle" /\ batch["live"] = {}
           /\ pc["legacy"] = "idle" /\ batch["legacy"] = {}
BY DEF LockKept

\* The live engine works: nobody else leaves or commits, hands are what matters.
LEMMA LiveAlone ==
    ASSUME TypeEngine, LockKept, ~Legacy,
           pc["live"] \notin {"query", "delete"}, pc["live"] # "idle" \/ lock = "free",
           UNCHANGED <<recorded, listed, free>>, disk' \cap Segs \subseteq disk,
           queue' \subseteq queue, batch'["live"] \subseteq batch["live"] \cup queue,
           \A e \in Engines : e # "live" => batch'[e] = batch[e] /\ pc'[e] = pc[e],
           pc'["live"] # "commit" \/ bucket' = bucket
    PROVE  HFrame
<1> USE Consts
<1>1. \A e \in Engines : pc[e] \notin {"query", "delete"}
  BY Alone DEF BackHolds
<1>2. \A e \in Engines : e # "live" => pc[e] # "commit"
  BY Alone DEF BackHolds
<1>3. \A s \in Segs : InHand(s)' => InHand(s)
  BY DEF InHand
<1>4. bucket' = bucket \/ \A e \in Engines : pc'[e] # "commit"
  BY <1>2
<1> QED BY <1>1, <1>3, <1>4 DEF HFrame

LEMMA LiveHFrames ==
    ASSUME IInv, BInv, WInv, TInv, LockKept, CInv, ~Legacy, ~HoldFails, HoldComplete
    PROVE  LiveDispatch \/ LiveGivesUp \/ LiveClassify \/ LiveMergeFails \/ LiveCommitFails
               \/ LiveQuery => CFrame
<1> USE Consts DEF IInv
<1>1. ASSUME LiveDispatch PROVE HFrame
  <2>1. PICK S \in SUBSET queue : queue' = queue \ S /\ batch' = [batch EXCEPT !["live"] = Free(S)]
    BY <1>1 DEF LiveDispatch, Take
  <2>2. Free(S) \subseteq queue
    BY DEF Free
  <2>3. /\ pc["live"] = "idle" /\ lock = "free" /\ pc' = [pc EXCEPT !["live"] = "classify"]
        /\ UNCHANGED <<recorded, disk, listed, free, bucket>>
    BY <1>1 DEF LiveDispatch, Goto, store
  <2> QED BY <2>1, <2>2, <2>3, LiveAlone DEF TypeEngine
<1>2. ASSUME LiveGivesUp PROVE HFrame
  <2>1. /\ UNCHANGED <<recorded, disk, pc, batch, listed, free, bucket>> /\ queue' \subseteq queue
    BY <1>2 DEF LiveGivesUp, engine, store
  <2> QED BY <2>1 DEF HFrame, InHand
<1>3. ASSUME LiveClassify PROVE HFrame
  <2>1. PICK run \in SUBSET batch["live"] :
               \/ batch' = [batch EXCEPT !["live"] = run] /\ pc' = [pc EXCEPT !["live"] = "merge"]
               \/ batch' = [batch EXCEPT !["live"] = {}] /\ pc' = [pc EXCEPT !["live"] = "idle"]
    <3>1. PICK run \in Unheld(batch["live"] \cap disk) :
                 IF run = {} THEN LiveUnlock
                 ELSE Take("live", run) /\ Goto("live", "merge")
      BY <1>3 DEF LiveClassify
    <3>2. run \in SUBSET batch["live"]
      BY DEF Unheld
    <3> QED BY <3>1, <3>2 DEF LiveUnlock, Return, Take, Goto
  <2>2. /\ pc["live"] = "classify" /\ UNCHANGED <<recorded, disk, queue, listed, free>>
    BY <1>3 DEF LiveClassify, store
  <2> QED BY <2>1, <2>2, LiveAlone DEF TypeEngine
<1>4. ASSUME LiveMergeFails PROVE HFrame
  <2>1. /\ pc["live"] = "merge" /\ UNCHANGED <<recorded, disk, queue, listed, free, bucket>>
        /\ batch' = [batch EXCEPT !["live"] = {}] /\ pc' = [pc EXCEPT !["live"] = "idle"]
    BY <1>4 DEF LiveMergeFails, LiveUnlock, Return, store
  <2> QED BY <2>1, LiveAlone DEF TypeEngine
<1>5. ASSUME LiveCommitFails PROVE HFrame
  <2>1. /\ pc["live"] = "commit" /\ UNCHANGED <<recorded, queue, listed, free, bucket>>
        /\ disk' \subseteq disk
        /\ batch' = [batch EXCEPT !["live"] = {}] /\ pc' = [pc EXCEPT !["live"] = "idle"]
    BY <1>5 DEF LiveCommitFails, LiveUnlock, Return
  <2> QED BY <2>1, LiveAlone DEF TypeEngine
<1>6. ASSUME LiveQuery PROVE HFrame
  <2>1. PICK S \in Unheld(batch["live"]) : batch' = [batch EXCEPT !["live"] = S]
    BY <1>6 DEF LiveQuery, Take
  <2>2. S = batch["live"]
    BY QueryKeepsAll DEF Rolling
  <2>3. \A e \in Engines : batch'[e] = batch[e]
    BY <2>1, <2>2 DEF TypeEngine
  <2>4. /\ pc' = [pc EXCEPT !["live"] = "delete"]
        /\ UNCHANGED <<recorded, disk, queue, listed, free, bucket>>
    BY <1>6 DEF LiveQuery, Goto, store, rolling
  <2>5. \A e \in Engines : pc[e] \in {"query", "delete"} => pc'[e] \in {"query", "delete"}
    BY <2>4 DEF TypeEngine
  <2>6. \A s \in Segs : InHand(s)' => InHand(s)
    BY <2>3, <2>4 DEF InHand
  <2> QED BY <2>3, <2>4, <2>5, <2>6 DEF HFrame
<1> QED BY <1>1, <1>2, <1>3, <1>4, <1>5, <1>6, HFrameSuffices, LiveBFrames

LEMMA BackHFrames ==
    ASSUME IInv, BInv, WInv, TInv, LockKept, CInv, ~Legacy, ~HoldFails, HoldComplete
    PROVE  BackSweep \/ BackSingle \/ BackLock \/ BackEnds \/ BackParse \/ BackMergeFails
               \/ BackCommitFails \/ BackQuery \/ BackDelete \/ BackReset => CFrame
<1> USE Consts DEF IInv
<1>a. ASSUME UNCHANGED <<recorded, queue, bucket>>, disk' \subseteq disk,
             \A s \in Segs : s \in free' \cap listed' => s \in free \cap listed \/ HasRow(s),
             \A e \in Engines : e # "backfill" => batch'[e] = batch[e] /\ pc'[e] = pc[e],
             \A s \in batch'["backfill"] : s \in batch["backfill"] \/ s \in free \cap listed,
             pc["backfill"] \in {"query", "delete"} =>
                 \A s \in batch["backfill"] : s \in disk' =>
                    pc'["backfill"] \in {"query", "delete"} /\ s \in batch'["backfill"]
      PROVE  HFrame
  <2>1. \A s \in Segs : InHand(s)' => InHand(s) \/ HasRow(s)
    BY <1>a DEF InHand
  <2> QED BY <1>a, <2>1 DEF HFrame
<1>1. ASSUME BackSweep PROVE HFrame
  <2>1. /\ listed' = Pending /\ UNCHANGED <<recorded, queue, bucket, disk, batch>>
        /\ pc["backfill"] = "idle" /\ pc' = [pc EXCEPT !["backfill"] = "sweep"]
    BY <1>1 DEF BackSweep, store, rolling, Goto
  <2>2. \A s \in listed' : HasRow(s)
    BY <2>1 DEF Pending, HasRow
  <2> QED BY <1>a, <2>1, <2>2 DEF TypeEngine
<1>2. ASSUME BackSingle PROVE HFrame
  <2>1. UNCHANGED <<recorded, queue, bucket, disk, batch, pc, free>> /\ listed' \subseteq listed
    BY <1>2 DEF BackSingle, rolling
  <2> QED BY <1>a, <2>1
<1>3. ASSUME BackLock PROVE HFrame
  <2>1. /\ UNCHANGED <<recorded, queue, bucket, disk, free>> /\ listed' \subseteq listed
        /\ pc["backfill"] = "sweep"
        /\ \/ UNCHANGED <<batch, pc>>
           \/ batch' = [batch EXCEPT !["backfill"] = Valid] /\ pc' = [pc EXCEPT !["backfill"] = "parse"]
    BY <1>3 DEF BackLock, store, rolling, Take, Goto
  <2>2. Valid \subseteq free \cap listed
    BY DEF Valid, Chunk
  <2> QED BY <1>a, <2>1, <2>2 DEF TypeEngine
<1>4. ASSUME BackEnds PROVE HFrame
  <2>1. /\ UNCHANGED <<recorded, queue, bucket, disk, batch, listed>> /\ free' = {}
        /\ pc["backfill"] = "sweep" /\ pc' = [pc EXCEPT !["backfill"] = "idle"]
    BY <1>4 DEF BackEnds, store, rolling, Goto
  <2> QED BY <1>a, <2>1 DEF TypeEngine
<1>b. ASSUME UNCHANGED <<recorded, queue, bucket, listed, free>>, disk' \subseteq disk,
             pc["backfill"] \notin {"query", "delete"},
             NEW S \in SUBSET batch["backfill"], batch' = [batch EXCEPT !["backfill"] = S],
             NEW p, pc' = [pc EXCEPT !["backfill"] = p]
      PROVE  HFrame
  BY <1>a, <1>b DEF TypeEngine
<1>5. ASSUME BackParse PROVE HFrame
  <2>1. PICK kept \in Unheld(batch["backfill"]) :
               \/ batch' = [batch EXCEPT !["backfill"] = {}] /\ pc' = [pc EXCEPT !["backfill"] = "reset"]
               \/ /\ batch' = [batch EXCEPT !["backfill"] = kept \cap disk]
                  /\ pc' = [pc EXCEPT !["backfill"] = "merge"]
    BY <1>5 DEF BackParse, BackUnlock, Take, Goto
  <2>2. kept \cap disk \in SUBSET batch["backfill"] /\ {} \in SUBSET batch["backfill"]
    BY DEF Unheld
  <2>3. /\ UNCHANGED <<recorded, queue, bucket, listed, free, disk>> /\ pc["backfill"] = "parse"
    BY <1>5 DEF BackParse, rolling
  <2> QED BY <1>b, <2>1, <2>2, <2>3
<1>6. ASSUME BackMergeFails PROVE HFrame
  <2>1. /\ UNCHANGED <<recorded, queue, bucket, listed, free, disk>> /\ pc["backfill"] = "merge"
        /\ batch' = [batch EXCEPT !["backfill"] = {}] /\ pc' = [pc EXCEPT !["backfill"] = "reset"]
    BY <1>6 DEF BackMergeFails, BackUnlock, Take, Goto, rolling
  <2>2. {} \in SUBSET batch["backfill"]
    OBVIOUS
  <2> QED BY <1>b, <2>1, <2>2
<1>7. ASSUME BackCommitFails PROVE HFrame
  <2>1. /\ UNCHANGED <<recorded, queue, bucket, listed, free>> /\ disk' \subseteq disk
        /\ pc["backfill"] = "commit"
        /\ batch' = [batch EXCEPT !["backfill"] = {}] /\ pc' = [pc EXCEPT !["backfill"] = "reset"]
    BY <1>7 DEF BackCommitFails, BackUnlock, Take, Goto, rolling
  <2>2. {} \in SUBSET batch["backfill"]
    OBVIOUS
  <2> QED BY <1>b, <2>1, <2>2
<1>8. ASSUME BackQuery PROVE HFrame
  <2>1. PICK S \in Unheld(batch["backfill"]) : batch' = [batch EXCEPT !["backfill"] = S]
    BY <1>8 DEF BackQuery, Take
  <2>2. S = batch["backfill"]
    BY QueryKeepsAll DEF Rolling
  <2>3. \A e \in Engines : batch'[e] = batch[e]
    BY <2>1, <2>2 DEF TypeEngine
  <2>4. /\ pc' = [pc EXCEPT !["backfill"] = "delete"]
        /\ UNCHANGED <<recorded, disk, queue, listed, free, bucket>>
    BY <1>8 DEF BackQuery, Goto, store, rolling
  <2> QED BY <1>a, <2>3, <2>4 DEF TypeEngine
<1>9. ASSUME BackDelete PROVE HFrame
  <2>1. /\ UNCHANGED <<recorded, queue, bucket, listed, free>> /\ disk' = disk \ batch["backfill"]
        /\ batch' = [batch EXCEPT !["backfill"] = {}] /\ pc' = [pc EXCEPT !["backfill"] = "reset"]
    BY <1>9 DEF BackDelete, BackUnlock, Take, Goto, rolling
  <2> QED BY <1>a, <2>1 DEF TypeEngine
<1>10. ASSUME BackReset PROVE HFrame
  <2>1. /\ UNCHANGED <<recorded, queue, bucket, disk, batch, listed, free>>
        /\ pc["backfill"] = "reset" /\ pc' = [pc EXCEPT !["backfill"] = "sweep"]
    BY <1>10 DEF BackReset, store, Goto
  <2> QED BY <1>a, <2>1 DEF TypeEngine
<1> QED BY <1>1, <1>2, <1>3, <1>4, <1>5, <1>6, <1>7, <1>8, <1>9, <1>10, HFrameSuffices, BackBFrames

LEMMA CrashHFrames ==
    ASSUME IInv, BInv, WInv, CInv, Crash
    PROVE  CFrame
<1>1. HFrame
  BY Consts DEF Crash, HFrame, InHand, store
<1> QED BY <1>1, HFrameSuffices, LegacyBFrames

LEMMA RecordCFrames ==
    ASSUME IInv, BInv, CInv, Record
    PROVE  CFrame
<1> USE Consts DEF IInv
<1>n. PICK n \in Segs : n = recorded + 1
  BY DEF Record, TypeStore
<1>1. /\ recorded' = n /\ disk' = disk \cup {n} /\ ~(n <= recorded) /\ recorded <= n /\ n \in Nat
      /\ \A f \in Files : row'[f] = IF f = n THEN [status |-> "pending", file |-> n,
                                     start |-> recorded, end |-> n, wall |-> 1] ELSE row[f]
      /\ queue' \subseteq queue \cup {n}
      /\ UNCHANGED <<content, bucket, pc, out, batch, listed, free>>
  BY <1>n DEF Record, TypeStore, rolling, engine, client
<1>2. \A f \in Files : f # n => row'[f] = row[f] /\ HasRow(f)' = HasRow(f)
  BY <1>1 DEF HasRow
<1>3. row'[n].file = n
  BY <1>1
<1>4. ASSUME NEW f \in Outs, Used(f)' PROVE Used(f)
  BY <1>1, <1>2, <1>3, <1>4 DEF Used, Names, Done
<1>5. \A s \in Segs : Folded(s) => s # n
  BY <1>1 DEF CInv, FoldedGone
<1>6. \A s \in Segs : s # n /\ InHand(s)' => InHand(s)
  BY <1>1 DEF InHand
<1>7. \A s \in Segs : Leaving(s) => Leaving(s)'
  BY <1>1 DEF Leaving
<1> QED BY <1>1, <1>2, <1>4, <1>5, <1>6, <1>7 DEF CFrame, Done

LEMMA LiveDeleteCFrames ==
    ASSUME IInv, BInv, LockKept, ~AppendBucket, ~Legacy, LiveDelete
    PROVE  CFrame
<1> USE Consts DEF IInv
<1>1. PICK o \in Outs : o = out["live"]
  BY DEF LiveDelete, EnginesKnown
<1>2. /\ pc["live"] = "delete" /\ UNCHANGED <<recorded, content, row, queue, listed, free>>
      /\ pc' = [pc EXCEPT !["live"] = "idle"] /\ batch' = [batch EXCEPT !["live"] = {}]
      /\ disk' \subseteq disk \ batch["live"]
      /\ bucket' = [bucket EXCEPT !.file = o, !.row = IF bucket.file = None THEN o ELSE @]
  BY <1>1 DEF LiveDelete, LiveUnlock, Return
<1>3. bucket'.file = o /\ Done /\ ~Done'
  BY <1>2 DEF TypeEngine, BucketType, Done
<1>4. \A f \in Files : HasRow(f)' = HasRow(f)
  BY <1>2 DEF HasRow
<1>5. \A f \in Outs : Used(f)' => Used(f)
  BY <1>1, <1>2, <1>3, <1>4 DEF Used, Names
<1>6. \A f \in Outs : f = bucket.file /\ f # o => ~Used(f)'
  BY <1>2, <1>3, <1>4 DEF Used, Names, BInv, BucketOwned
<1>7. /\ \A e \in Engines : e # "live" => pc[e] \notin {"commit", "query", "delete"} /\ pc'[e] = pc[e]
      /\ pc'["live"] = "idle" /\ \A e \in Engines : batch'[e] \subseteq batch[e]
  BY <1>2, Alone DEF TypeEngine, BackHolds
<1>8. \A s \in Segs : /\ InHand(s)' => InHand(s)
                      /\ Leaving(s) => s \notin disk'
  BY <1>2, <1>7 DEF InHand, Leaving
<1>9. recorded <= recorded' /\ recorded' \in Nat /\ disk' \subseteq disk
  BY <1>2 DEF TypeStore
<1> QED BY <1>1, <1>2, <1>3, <1>4, <1>5, <1>6, <1>7, <1>8, <1>9 DEF CFrame

\* What is in hand for a merge has not been folded.
LEMMA FreshHands ==
    ASSUME TypeEngine, CInv, LockKept, ~Legacy, NEW e \in {"live", "backfill"}, pc[e] = "merge"
    PROVE  /\ \A s \in batch[e] \cap disk : ~Folded(s)
           /\ \A d \in Engines : pc[d] \notin {"query", "delete"}
           /\ \A d \in Engines : d # e => pc[d] # "commit"
<1> USE Consts
<1>1. \A d \in Engines : d # e => pc[d] \notin {"commit", "query", "delete"}
  BY Alone DEF BackHolds
<1>2. \A s \in Segs : ~Leaving(s)
  BY <1>1 DEF Leaving
<1>3. \A s \in batch[e] : s \in Segs /\ InHand(s)
  BY DEF InHand, TypeEngine
<1> QED BY <1>1, <1>2, <1>3 DEF CInv, FoldedGone

\* Engine e writes its output o, with samples c, none of them folded before.
LEMMA WriteKeepsCover ==
    ASSUME IInv, BInv, CInv, NEW e \in Engines, NEW o \in FreeOuts, NEW c \in [Segs -> Nat],
           pc[e] = "merge", UNCHANGED <<recorded, row, queue, listed, free>>,
           disk' = disk \cup {o}, content' = [content EXCEPT ![o] = c],
           pc' = [pc EXCEPT ![e] = "commit"], out' = [out EXCEPT ![e] = o],
           bucket'.file = bucket.file,
           \A d \in Engines : batch'[d] \subseteq batch[d],
           \A s \in batch'[e] : ~Folded(s),
           \A d \in Engines : pc[d] \notin {"query", "delete"},
           \A d \in Engines : d # e => pc[d] # "commit",
           \A s \in Segs : c[s] <= 1,
           \A s \in Segs : c[s] > 0 =>
               s \in batch'[e] \/ (e = "live" /\ bucket.file # None /\ content[bucket.file][s] > 0)
    PROVE  CInv'
<1> USE Consts DEF IInv, CInv
<1>o. /\ o \in Outs /\ o \notin Segs /\ o \in Files /\ o # None /\ o \notin disk /\ o # bucket.file
  BY DEF FreeOuts
<1>c. content'[o] = c /\ \A f \in Files : f # o => content'[f] = content[f]
  BY <1>o DEF TypeStore
<1>p. pc'[e] = "commit" /\ out'[e] = o /\ \A d \in Engines : d # e => pc'[d] = pc[d]
  BY DEF TypeEngine
<1>d. ~Done /\ ~Done'
  BY <1>p DEF Done
<1>h. \A f \in Files : HasRow(f)' = HasRow(f)
  BY DEF HasRow
<1>u. \A f \in Outs : Used(f)' <=> Used(f)
  BY <1>d, <1>h DEF Used, Names
<1>x. ~Used(o)
  <2>1. \A g \in Files : ~Names(g, o)
    BY <1>o DEF Names, BInv, NamesOnce
  <2> QED BY <2>1, <1>o, <1>d DEF Used
<1>f. \A s \in Segs : Folded(s)' <=> Folded(s)
  <2>1. \A f \in Outs : Used(f) => content'[f] = content[f]
    BY <1>x, <1>c
  <2> QED BY <2>1, <1>u DEF Folded
<1>1. FoldedGone'
  <2> SUFFICES ASSUME NEW s \in Segs, Folded(s)
               PROVE  s <= recorded /\ ~HasRow(s) /\ ~(s \in disk' /\ InHand(s)')
    BY <1>f, <1>h DEF FoldedGone
  <2>1. InHand(s)' => InHand(s)
    BY DEF InHand
  <2>2. ~Leaving(s)
    BY DEF Leaving
  <2> QED BY <2>1, <2>2, <1>o DEF FoldedGone
<1>2. FoldedOnce'
  <2>1. \A f \in Outs : Used(f)' => Used(f) /\ content'[f] = content[f]
    BY <1>u, <1>x, <1>c
  <2> QED BY <2>1, <1>d DEF FoldedOnce
<1>3. Counts'
  <2>1. \A f \in Outs : Used(f)' => Used(f) /\ content'[f] = content[f]
    BY <1>u, <1>x, <1>c
  <2> QED BY <2>1, <1>c, <1>o DEF Counts
<1>4. CommitsFresh'
  <2> SUFFICES ASSUME NEW d \in Engines, pc'[d] = "commit", NEW s \in Segs
               PROVE  /\ s \in batch'[d] => ~Folded(s)'
                      /\ content'[out'[d]][s] <= 1
                      /\ content'[out'[d]][s] > 0 =>
                           s \in batch'[d] \/ (d = "live" /\ bucket'.file # None
                                                 /\ content'[bucket'.file][s] > 0)
    BY DEF CommitsFresh
  <2>1. d = e
    BY <1>p
  <2>2. content'[out'[d]] = c /\ (s \in batch'[d] => ~Folded(s)')
    BY <2>1, <1>p, <1>c, <1>f
  <2>3. bucket.file # None => content'[bucket'.file] = content[bucket.file]
    BY <1>c, <1>o DEF TypeEngine, BucketType
  <2> QED BY <2>1, <2>2, <2>3
<1> QED BY <1>1, <1>2, <1>3, <1>4

\* Engine e commits its output: it comes into use for its row or the bucket's.
LEMMA CommitKeepsCover ==
    ASSUME IInv, BInv, CInv, NEW e \in Engines, NEW o \in Outs, o = out[e],
           pc[e] = "commit", NEW p \in {"query", "delete"}, pc' = [pc EXCEPT ![e] = p],
           UNCHANGED <<recorded, content, disk, bucket, out, batch, queue, listed, free>>,
           \A d \in Engines : d # e => pc[d] \notin {"commit", "query", "delete"},
           \A f \in Files : HasRow(f)' =>
               \/ HasRow(f) /\ row'[f].file = row[f].file /\ f \notin batch[e]
               \/ row'[f].file = o /\ f \in Outs
    PROVE  CInv'
<1> USE Consts DEF IInv, CInv
<1>p. pc'[e] = p /\ \A d \in Engines : d # e => pc'[d] = pc[d]
  BY DEF TypeEngine
<1>d. ~Done /\ (Done' <=> e = "live")
  BY <1>p DEF Done
<1>u. ASSUME NEW f \in Outs, Used(f)', f # o PROVE Used(f)
  <2>1. CASE f = bucket'.file
    BY <2>1 DEF Used
  <2>2. CASE Done' /\ f = out'["live"]
    BY <2>2, <1>u, <1>d
  <2>3. ASSUME NEW g \in Files, HasRow(g)', row'[g].file = f PROVE Used(f)
    BY <2>3, <1>u DEF Used, Names
  <2> QED BY <1>u, <2>1, <2>2, <2>3 DEF Used, Names
<1>c. ASSUME NEW s \in Segs, content[o][s] > 0
      PROVE  s \in batch[e] \/ (e = "live" /\ bucket.file \in Outs /\ Used(bucket.file)
                                 /\ content[bucket.file][s] > 0)
  <2>1. s \in batch[e] \/ (e = "live" /\ bucket.file # None /\ content[bucket.file][s] > 0)
    BY <1>c DEF CommitsFresh
  <2>2. bucket.file # None => bucket.file \in Outs
    BY DEF TypeEngine, BucketType, ListsKnown
  <2> QED BY <2>1, <2>2 DEF Used
<1>b. \A s \in batch[e] : s \in Segs /\ ~Folded(s) /\ s <= recorded
  BY DEF CommitsFresh, TypeEngine, EnginesKnown
<1>1. FoldedGone'
  <2> SUFFICES ASSUME NEW s \in Segs, Folded(s)'
               PROVE  s <= recorded /\ ~HasRow(s)' /\ (s \in disk /\ InHand(s)' => Leaving(s)')
    BY DEF FoldedGone
  <2>1. CASE s \in batch[e]
    <3>1. Leaving(s)'
      BY <2>1, <1>p DEF Leaving
    <3>2. ~HasRow(s)'
      BY <2>1
    <3> QED BY <2>1, <3>1, <3>2, <1>b
  <2>2. CASE s \notin batch[e]
    <3>1. PICK f \in Outs : Used(f)' /\ content[f][s] > 0
      BY DEF Folded
    <3>2. Folded(s)
      BY <2>2, <3>1, <1>u, <1>c DEF Folded
    <3>3. ~Leaving(s)
      BY DEF Leaving
    <3>4. InHand(s)' => InHand(s)
      BY DEF InHand
    <3> QED BY <3>2, <3>3, <3>4 DEF FoldedGone
  <2> QED BY <2>1, <2>2
<1>2. FoldedOnce'
  <2>o. ASSUME NEW s \in Segs, NEW g \in Outs, Used(g), g # o, content[o][s] > 0, content[g][s] > 0
        PROVE  e = "live" /\ g = bucket.file
    <3>1. Folded(s)
      BY <2>o DEF Folded
    <3>2. e = "live" /\ bucket.file \in Outs /\ Used(bucket.file) /\ content[bucket.file][s] > 0
      BY <2>o, <3>1, <1>b, <1>c
    <3> QED BY <2>o, <3>2, <1>d DEF FoldedOnce
  <2> SUFFICES ASSUME NEW s \in Segs, NEW f \in Outs, NEW g \in Outs, Used(f)', Used(g)',
                      content[f][s] > 0, content[g][s] > 0, f # g
               PROVE  Done' /\ {f, g} = {bucket.file, out["live"]}
    BY DEF FoldedOnce
  <2>1. CASE f = o
    BY <2>1, <2>o, <1>u, <1>d
  <2>2. CASE g = o
    BY <2>2, <2>o, <1>u, <1>d
  <2>3. CASE f # o /\ g # o
    BY <2>3, <1>u, <1>d DEF FoldedOnce
  <2> QED BY <2>1, <2>2, <2>3
<1>3. Counts'
  <2>1. \A s \in Segs : content[o][s] <= 1
    BY DEF CommitsFresh
  <2>2. \A f \in Outs : Used(f)' => Used(f) \/ f = o
    BY <1>u
  <2> QED BY <2>1, <2>2 DEF Counts
<1>4. CommitsFresh'
  BY <1>p DEF CommitsFresh
<1> QED BY <1>1, <1>2, <1>3, <1>4

LEMMA MergesKeepCover ==
    ASSUME IInv, BInv, CInv, LockKept, ~AppendBucket, ~Legacy
    PROVE  LiveMerge \/ BackMerge => CInv'
<1> USE Consts
<1>s. \A S \in SUBSET Segs : /\ Samples(S) \in [Segs -> Nat]
                             /\ \A s \in Segs : Samples(S)[s] = IF s \in S THEN 1 ELSE 0
  BY DEF Samples
<1>b. /\ \A e \in Engines : batch[e] \subseteq Segs
      /\ bucket \in BucketType /\ content \in [Files -> [Segs -> Nat]] /\ TypeEngine
  BY DEF IInv, TypeEngine, TypeStore
<1>1. ASSUME LiveMerge PROVE CInv'
  <2> DEFINE o == Min(FreeOuts)
             S == batch["live"]
             c == IF bucket.file = None THEN Samples(S) ELSE Joined(bucket.file, S)
  <2>1. /\ pc["live"] = "merge" /\ UNCHANGED <<recorded, row, queue, listed, free, batch>>
        /\ o \in FreeOuts /\ content' = [content EXCEPT ![o] = c]
        /\ disk' = disk \cup {o} /\ out' = [out EXCEPT !["live"] = o]
        /\ pc' = [pc EXCEPT !["live"] = "commit"] /\ bucket' = Advance(bucket, S)
        /\ S \subseteq disk
    BY <1>1, NewOutFree DEF LiveMerge, InPlace, Goto
  <2>s. S \in SUBSET Segs /\ S # {}
    BY <2>1, <1>b DEF IInv, EnginesKnown
  <2>2. bucket'.file = bucket.file
    BY <2>1, <2>s, <1>b, AdvanceType
  <2>3. /\ \A s \in S : ~Folded(s)
        /\ \A d \in Engines : pc[d] \notin {"query", "delete"}
        /\ \A d \in Engines : d # "live" => pc[d] # "commit"
    BY <2>1, <1>b, FreshHands
  <2>4. /\ c \in [Segs -> Nat] /\ \A s \in Segs : c[s] <= 1
        /\ \A s \in Segs : c[s] > 0 =>
               s \in S \/ (bucket.file # None /\ content[bucket.file][s] > 0)
    <3>1. CASE bucket.file = None
      BY <3>1, <2>s, <1>s
    <3>2. CASE bucket.file # None
      <4>1. bucket.file \in Files /\ bucket.file \in Outs
        BY <3>2, <1>b DEF BucketType, IInv, ListsKnown
      <4>2. Used(bucket.file)
        BY <4>1 DEF Used
      <4>3. \A s \in Segs : c[s] = content[bucket.file][s] + Samples(S)[s]
        BY <3>2 DEF Joined
      <4>4. c \in [Segs -> Nat]
        BY <3>2, <4>1, <2>s, JoinedType DEF IInv
      <4>5. ASSUME NEW s \in Segs
            PROVE  c[s] <= 1 /\ (c[s] > 0 => s \in S \/ content[bucket.file][s] > 0)
        <5>1. PICK n \in Nat : n = content[bucket.file][s]
          BY <1>b, <4>1
        <5>2. n <= 1
          BY <5>1, <4>1, <4>2 DEF CInv, Counts
        <5>3. s \in S => ~(n > 0)
          BY <5>1, <4>1, <4>2, <2>3 DEF Folded
        <5>4. c[s] = n + (IF s \in S THEN 1 ELSE 0)
          BY <4>3, <5>1, <1>s, <2>s
        <5> HIDE DEF c, S
        <5> QED BY <5>1, <5>2, <5>3, <5>4
      <4> HIDE DEF c, S
      <4> QED BY <3>2, <4>4, <4>5
    <3> QED BY <3>1, <3>2
  <2>5. \A d \in Engines : batch'[d] = batch[d]
    BY <2>1
  <2>6. batch'["live"] = S
    BY <2>5
  <2> HIDE DEF o, c, S
  <2> QED BY <2>1, <2>2, <2>3, <2>4, <2>5, <2>6, WriteKeepsCover
<1>2. ASSUME BackMerge PROVE CInv'
  <2> DEFINE S == batch["backfill"] \cap disk
             o == Min(FreeOuts)
  <2>p. pc["backfill"] = "merge" /\ UNCHANGED <<recorded, row, queue, listed, free, bucket>>
    BY <1>2 DEF BackMerge, rolling
  <2>f. /\ \A s \in S : ~Folded(s)
        /\ \A d \in Engines : pc[d] \notin {"query", "delete"}
        /\ \A d \in Engines : d # "backfill" => pc[d] # "commit"
    BY <2>p, <1>b, FreshHands
  <2>1. CASE Cardinality(S) < 2
    <3>1. /\ UNCHANGED <<content, disk>>
          /\ pc' = [pc EXCEPT !["backfill"] = "reset"]
          /\ batch' = [batch EXCEPT !["backfill"] = {}]
          /\ out' = [out EXCEPT !["backfill"] = None]
      BY <1>2, <2>1 DEF BackMerge, BackUnlock, Take, Goto
    <3>2. /\ \A d \in Engines : pc'[d] \notin {"commit", "query", "delete"}
          /\ \A d \in Engines : batch'[d] \subseteq batch[d]
      BY <3>1, <2>p, <2>f, <1>b DEF TypeEngine
    <3>3. ~Done /\ ~Done' /\ \A s \in Segs : ~Leaving(s)
      BY <2>f, <3>2 DEF Done, Leaving
    <3>4. \A f \in Files : HasRow(f)' = HasRow(f)
      BY <2>p DEF HasRow
    <3>5. \A f \in Outs : Used(f)' => Used(f)
      BY <2>p, <3>3, <3>4 DEF Used, Names
    <3>6. \A s \in Segs : InHand(s)' => InHand(s)
      BY <2>p, <3>2 DEF InHand
    <3>7. recorded <= recorded' /\ recorded' \in Nat
      BY <2>p DEF IInv, TypeStore
    <3>8. CFrame
      BY <3>1, <3>2, <3>3, <3>4, <3>5, <3>6, <3>7 DEF CFrame
    <3> QED BY <3>8, CFrameKeeps
  <2>2. CASE ~(Cardinality(S) < 2)
    <3>1. /\ o \in FreeOuts /\ content' = [content EXCEPT ![o] = Samples(S)]
          /\ disk' = disk \cup {o} /\ out' = [out EXCEPT !["backfill"] = o]
          /\ pc' = [pc EXCEPT !["backfill"] = "commit"]
          /\ batch' = [batch EXCEPT !["backfill"] = S]
      BY <1>2, <2>2, NewOutFree DEF BackMerge, Goto, Take
    <3>2. batch'["backfill"] = S /\ \A d \in Engines : batch'[d] \subseteq batch[d]
      BY <3>1, <1>b DEF TypeEngine
    <3>3. PICK c \in [Segs -> Nat] : c = Samples(S) /\ \A s \in Segs : c[s] = IF s \in S THEN 1 ELSE 0
      BY <1>b, <1>s
    <3>4. \A s \in Segs : c[s] <= 1 /\ (c[s] > 0 => s \in batch'["backfill"])
      BY <3>2, <3>3
    <3>5. \A s \in batch'["backfill"] : ~Folded(s)
      BY <3>2, <2>f
    <3> HIDE DEF S, o
    <3> QED BY <2>p, <2>f, <3>1, <3>2, <3>3, <3>4, <3>5, WriteKeepsCover
  <2> QED BY <2>1, <2>2
<1> QED BY <1>1, <1>2

LEMMA CommitsKeepCover ==
    ASSUME IInv, BInv, WInv, CInv, LockKept, ~Legacy
    PROVE  LiveCommit \/ BackCommit => CInv'
<1> USE Consts
<1>r. ASSUME NEW e \in Engines, NEW o \in Outs, NEW r, r.file = o, Replace(o, r, batch[e])
      PROVE  \A f \in Files : HasRow(f)' =>
               \/ HasRow(f) /\ row'[f].file = row[f].file /\ f \notin batch[e]
               \/ row'[f].file = o /\ f \in Outs
  BY <1>r DEF Replace, HasRow, NoRow
<1>1. ASSUME LiveCommit PROVE CInv'
  <2>1. /\ pc["live"] = "commit" /\ pc' = [pc EXCEPT !["live"] = "query"]
        /\ UNCHANGED <<recorded, content, disk, bucket, out, batch, queue, listed, free>>
    BY <1>1 DEF LiveCommit, rolling, Goto
  <2>2. PICK o \in Outs : o = out["live"]
    BY <2>1 DEF IInv, EnginesKnown
  <2>3. \A d \in Engines : d # "live" => pc[d] \notin {"commit", "query", "delete"}
    BY <2>1, Alone DEF BackHolds
  <2>4. ASSUME NEW f \in Files, HasRow(f)'
        PROVE  \/ HasRow(f) /\ row'[f].file = row[f].file /\ f \notin batch["live"]
               \/ row'[f].file = o /\ f \in Outs
    <3>1. CASE bucket.file = None
      <4>1. Span(o, batch["live"]).file = o
        BY DEF Span
      <4>2. Replace(o, Span(o, batch["live"]), batch["live"])
        BY <1>1, <2>2, <3>1 DEF LiveCommit
      <4> QED BY <2>4, <4>1, <4>2, <1>r
    <3>2. CASE bucket.file # None
      <4>1. bucket.row \in Outs
        BY <3>2 DEF IInv, TypeEngine, BucketType, ListsKnown, WInv, Walls
      <4>2. row'[f] = IF f \in batch["live"] THEN NoRow
                      ELSE IF f = bucket.row /\ HasRow(bucket.row)
                      THEN [row[bucket.row] EXCEPT !.file = o, !.start = Min({@, bucket.start}),
                                     !.end = Max({@, bucket.end}), !.wall = bucket.wall]
                      ELSE row[f]
        BY <1>1, <2>2, <3>2 DEF LiveCommit
      <4>3. row \in [Files -> RowType] /\ NoRow.status = "none"
        BY DEF IInv, TypeStore, NoRow
      <4>4. f \notin batch["live"]
        BY <2>4, <4>2, <4>3 DEF HasRow
      <4>5. CASE f = bucket.row /\ HasRow(bucket.row)
        BY <4>1, <4>2, <4>3, <4>4, <4>5 DEF RowType
      <4>6. CASE ~(f = bucket.row /\ HasRow(bucket.row))
        BY <2>4, <4>2, <4>4, <4>6 DEF HasRow
      <4> QED BY <4>5, <4>6
    <3> QED BY <3>1, <3>2
  <2> QED BY <2>1, <2>2, <2>3, <2>4, CommitKeepsCover
<1>2. ASSUME BackCommit PROVE CInv'
  <2>1. /\ pc["backfill"] = "commit" /\ pc' = [pc EXCEPT !["backfill"] = "query"]
        /\ UNCHANGED <<recorded, content, disk, bucket, out, batch, queue, listed, free>>
    BY <1>2 DEF BackCommit, rolling, Goto
  <2>2. PICK o \in Outs : o = out["backfill"]
    BY <2>1 DEF BInv, OutputsNew, IInv, EnginesKnown, TypeStore
  <2>3. \A d \in Engines : d # "backfill" => pc[d] \notin {"commit", "query", "delete"}
    BY <2>1, Alone DEF BackHolds
  <2>4. BatchRow(o, batch["backfill"]).file = o
    BY DEF BatchRow, Span
  <2>5. Replace(o, BatchRow(o, batch["backfill"]), batch["backfill"])
    BY <1>2, <2>2 DEF BackCommit
  <2>6. \A f \in Files : HasRow(f)' =>
               \/ HasRow(f) /\ row'[f].file = row[f].file /\ f \notin batch["backfill"]
               \/ row'[f].file = o /\ f \in Outs
    BY <2>4, <2>5, <1>r
  <2> QED BY <2>1, <2>2, <2>3, <2>6, CommitKeepsCover
<1> QED BY <1>1, <1>2

\* The conditions of CoveredOnce.
OneHold == ~AppendBucket /\ ~Legacy /\ ~HoldFails /\ HoldComplete

CoverInv == OneHold => CInv

LEMMA CoverInit == Init => CoverInv
<1> SUFFICES ASSUME Init PROVE CInv
  BY DEF CoverInv
<1> USE Consts DEF Init, NoRow, NoBucket, None, HasRow, Names, Done
<1>1. \A f \in Outs : ~Used(f)
  BY DEF Used
<1>2. \A s \in Segs : ~Folded(s)
  BY <1>1 DEF Folded
<1> QED BY <1>1, <1>2 DEF CInv, FoldedGone, FoldedOnce, Counts, CommitsFresh

LEMMA OneHoldGrows ==
    ASSUME IInv, TInv, IInv', [Next]_vars, OneHold'
    PROVE  OneHold
<1>1. UNCHANGED setup
  BY DEF Next, vars
<1>2. \A s \in Segs : task[s] # "none" => task'[s] # "none"
  <2>1. CASE UNCHANGED task
    BY <2>1
  <2>2. ASSUME NEW s \in Segs, TaskLands(s) \/ TaskEnds(s)
        PROVE  \A t \in Segs : task[t] # "none" => task'[t] # "none"
    BY <2>2 DEF TaskLands, TaskEnds, IInv, TypeStore
  <2>3. CASE Outside
    BY <2>1, <2>2, <2>3 DEF Outside, Record, Age, DeleteFile, DeleteRow, SweepOrphan
  <2>4. CASE Live
    BY <2>1, <2>4 DEF Live, LiveDispatch, LiveGivesUp, LiveClassify, LiveMerge, LiveMergeFails,
         LiveCommit, LiveCommitFails, LiveQuery, LiveDelete, LiveRenameFails
  <2>5. CASE Backfill
    BY <2>1, <2>5 DEF Backfill, BackSweep, BackSingle, BackLock, BackEnds, BackParse, BackMerge,
         BackMergeFails, BackCommit, BackCommitFails, BackQuery, BackDelete, BackReset
  <2>6. CASE LegacyPass \/ Crash
    BY <2>1, <2>6 DEF LegacyPass, LegacyList, LegacySingle, LegacyParse, LegacyMerge, LegacyCommit,
         LegacyCommitFails, LegacyDelete, Crash
  <2>7. CASE UNCHANGED vars
    BY <2>1, <2>7 DEF vars, moving
  <2> QED BY <2>3, <2>4, <2>5, <2>6, <2>7 DEF Next
<1>3. HoldComplete
  BY <1>1, <1>2, HoldGrows DEF OneHold, TInv, IInv, TypeStore
<1> QED BY <1>1, <1>3 DEF OneHold, AppendBucket, Legacy, HoldFails

LEMMA CoverNext ==
    IInv /\ IInv' /\ WInv /\ BooksInv /\ TInv /\ LockKept /\ CoverInv /\ [Next]_vars => CoverInv'
<1> SUFFICES ASSUME IInv, IInv', WInv, BooksInv, TInv, LockKept, CoverInv, [Next]_vars, OneHold'
             PROVE  CInv'
  BY DEF CoverInv
<1>s. OneHold /\ CInv /\ BInv
  BY OneHoldGrows DEF CoverInv, BooksInv, OneHold
<1>f. CFrame => CInv'
  BY <1>s, CFrameKeeps
<1>1. CASE Outside
  BY <1>1, <1>s, <1>f, RecordCFrames, OutsideHFrames DEF Outside
<1>2. CASE Live
  <2>1. ~LiveRenameFails
    BY <1>s DEF LiveRenameFails, OneHold
  <2> QED BY <1>2, <1>s, <1>f, <2>1, LiveHFrames, MergesKeepCover, CommitsKeepCover,
             LiveDeleteCFrames DEF Live, OneHold
<1>3. CASE Backfill
  BY <1>3, <1>s, <1>f, BackHFrames, MergesKeepCover, CommitsKeepCover DEF Backfill, OneHold
<1>4. CASE LegacyPass
  <2>1. pc["legacy"] = "idle" /\ ~Legacy
    BY <1>s, Alone DEF OneHold
  <2> QED BY <1>4, <2>1 DEF LegacyPass, LegacyList, LegacySingle, LegacyParse, LegacyMerge,
             LegacyCommit, LegacyCommitFails, LegacyDelete
<1>5. CASE Crash
  BY <1>5, <1>s, <1>f, CrashHFrames
<1>6. CASE UNCHANGED vars
  <2>1. BFrame
    BY <1>6, <1>s, Spared DEF BFrame, vars, moving, store, rolling, engine, client, HasRow, Done
  <2>2. HFrame
    BY <1>6 DEF HFrame, InHand, vars, moving, store, rolling, engine
  <2> QED BY <1>s, <1>f, <2>1, <2>2, HFrameSuffices
<1> QED BY <1>1, <1>2, <1>3, <1>4, <1>5, <1>6 DEF Next

\* No footage is shown twice: the two rolling engines never put a segment into
\* two recordings, nor twice into one, as long as the hold query returns every
\* task, whatever else fails, crashes or is deleted.
THEOREM SegmentsCoveredOnce == Spec => []CoveredOnce
<1>1. IInv /\ BooksInv /\ CoverInv => CoveredOnce
  <2> SUFFICES ASSUME IInv, BInv, CInv, NEW s \in Segs, NEW f \in Files, NEW g \in Files,
                      Reaches(f, s), Reaches(g, s)
               PROVE  f = g /\ content[row[f].file][s] = 1
    BY DEF BooksInv, CoverInv, OneHold, CoveredOnce
  <2> USE Consts
  <2>1. ASSUME NEW h \in Segs, Reaches(h, s)
        PROVE  h = s /\ row[h].file = s
    BY <2>1 DEF IInv, RowsKnown, Reaches, BInv, Spans
  <2>2. ASSUME NEW h \in Outs, Reaches(h, s)
        PROVE  row[h].file \in Outs /\ Used(row[h].file)
    <3>1. row[h].file \in Files /\ row[h].file \notin Segs
      BY <2>2 DEF IInv, RowsKnown, Reaches, TypeStore
    <3> QED BY <2>2, <3>1 DEF Used, Names, Reaches
  <2>3. CASE f \in Segs /\ g \in Segs
    BY <2>1, <2>3 DEF CInv, Counts
  <2>4. ASSUME NEW h \in Outs, NEW k \in Segs, Reaches(h, s), Reaches(k, s) PROVE FALSE
    <3>1. Folded(s)
      BY <2>4, <2>2 DEF Folded, Reaches
    <3> QED BY <2>4, <2>1, <3>1 DEF CInv, FoldedGone, Reaches
  <2>5. CASE f \in Outs /\ g \in Outs
    <3> DEFINE a == row[f].file
               b == row[g].file
    <3>1. /\ a \in Outs /\ b \in Outs /\ Used(a) /\ Used(b)
          /\ content[a][s] > 0 /\ content[b][s] > 0
      BY <2>2, <2>5 DEF Reaches
    <3>2. a = b
      <4>1. Done => ~(bucket.file # None /\ bucket.file \in {a, b})
        BY <2>5 DEF BInv, BucketOwned, Names, Reaches
      <4>2. a # None /\ b # None
        BY <3>1
      <4> QED BY <3>1, <4>1, <4>2 DEF CInv, FoldedOnce
    <3>3. f = g
      BY <3>2 DEF BInv, NamesOnce, Names, Reaches
    <3>4. content[a][s] \in Nat /\ content[a][s] <= 1
      BY <3>1 DEF CInv, Counts, IInv, TypeStore
    <3> QED BY <3>1, <3>3, <3>4
  <2> QED BY <2>3, <2>4, <2>5
<1>2. Spec => []TInv
  BY TasksInit, TasksNext, InvHolds, PTL DEF Spec
<1>3. Spec => []CoverInv
  BY <1>2, CoverInit, CoverNext, InvHolds, WallsHold, BooksHold, LockHolds, PTL DEF Spec
<1> QED BY <1>1, <1>3, InvHolds, BooksHold, PTL

-----------------------------------------------------------------------------
(* The cameras' merge locks *)

MineMade ==
    /\ entry # NoLock => entry <= made
    /\ \A l \in locked : l <= made
    /\ \A c \in Callers : mine[c] # NoLock => mine[c] <= made
    /\ \A c \in Callers : place[c] \in {"try", "merging"} => mine[c] # NoLock

OneEntry ==
    ~deleteOnRelease =>
        \A c \in Callers : /\ place[c] # "unlocked"
                           /\ place[c] \in {"try", "merging"} => mine[c] = entry

LockInv == LockTypeOK /\ MineMade /\ LockOwned /\ OneEntry

LEMMA LocksAre == NoLock \notin Locks /\ \A l \in Locks : l \in Nat
BY MergeLockAssumption DEF Locks

LEMMA LockInitHolds == LockInit => LockInv
BY LocksAre, MergeLockAssumption DEF LockInit, LockInv, LockTypeOK, MineMade, LockOwned, OneEntry

LEMMA LoadKeeps ==
    ASSUME LockInv, NEW c \in Callers, LoadOrStore(c), UNCHANGED deleteOnRelease
    PROVE  LockInv'
<1> USE LocksAre, MergeLockAssumption DEF LockInv, LoadOrStore
<1>1. LockTypeOK'
  BY DEF LockTypeOK, Locks, MineMade
<1>2. entry' # NoLock /\ entry' <= made' /\ made <= made'
  BY DEF LockTypeOK, Locks, MineMade
<1>3. MineMade'
  BY <1>2 DEF LockTypeOK, Locks, MineMade
<1>4. LockOwned'
  BY DEF LockTypeOK, LockOwned
<1>5. OneEntry'
  BY DEF LockTypeOK, MineMade, OneEntry
<1> QED BY <1>1, <1>3, <1>4, <1>5

LEMMA TryKeeps ==
    ASSUME LockInv, NEW c \in Callers, TryLock(c), UNCHANGED deleteOnRelease
    PROVE  LockInv'
<1> USE LocksAre DEF LockInv, TryLock
<1>1. LockTypeOK'
  BY DEF LockTypeOK, MineMade
<1>2. MineMade'
  BY DEF LockTypeOK, MineMade
<1>3. LockOwned'
  BY DEF LockTypeOK, LockOwned
<1>4. OneEntry'
  BY DEF LockTypeOK, OneEntry
<1> QED BY <1>1, <1>2, <1>3, <1>4

LEMMA UnlockKeeps ==
    ASSUME LockInv, NEW c \in Callers, Unlock(c), UNCHANGED deleteOnRelease
    PROVE  LockInv'
<1> USE LocksAre DEF LockInv, Unlock
<1>1. LockTypeOK'
  BY DEF LockTypeOK
<1>2. MineMade'
  BY DEF LockTypeOK, MineMade
<1>3. LockOwned'
  BY DEF LockTypeOK, LockOwned
<1>4. OneEntry'
  BY DEF LockTypeOK, OneEntry
<1> QED BY <1>1, <1>2, <1>3, <1>4

LEMMA DeleteKeeps ==
    ASSUME LockInv, NEW c \in Callers, Delete(c), UNCHANGED deleteOnRelease
    PROVE  LockInv'
<1> USE LocksAre DEF LockInv, Delete
<1>1. LockTypeOK'
  BY DEF LockTypeOK
<1>2. MineMade'
  BY DEF LockTypeOK, MineMade
<1>3. LockOwned'
  BY DEF LockTypeOK, LockOwned
<1>4. OneEntry'
  BY DEF LockTypeOK, OneEntry
<1> QED BY <1>1, <1>2, <1>3, <1>4

LEMMA LockInvHolds == LockSpec => []LockInv
<1>1. LockInv /\ [LockNext]_lockVars => LockInv'
  <2> SUFFICES ASSUME LockInv, [LockNext]_lockVars PROVE LockInv'
    OBVIOUS
  <2>1. CASE LockNext
    BY <2>1, LoadKeeps, TryKeeps, UnlockKeeps, DeleteKeeps DEF LockNext
  <2>2. CASE UNCHANGED lockVars
    BY <2>2 DEF lockVars, LockInv, LockTypeOK, MineMade, LockOwned, OneEntry
  <2> QED BY <2>1, <2>2
<1> QED BY <1>1, LockInitHolds, PTL DEF LockSpec

\* The variables keep their types.
THEOREM LockTypeCorrect == LockSpec => []LockTypeOK
BY LockInvHolds, PTL DEF LockInv

\* With either release a locked mutex has one owner, the caller that is merging
\* and will unlock it.
THEOREM LocksAreOwned == LockSpec => []LockOwned
BY LockInvHolds, PTL DEF LockInv

\* With the coordinator's release two callers never merge at the same time.
THEOREM MergersExcluded == LockSpec => []OneMerger
<1>1. LockInv => OneMerger
  BY DEF LockInv, OneEntry, LockOwned, OneMerger
<1> QED BY <1>1, LockInvHolds, PTL
=============================================================================
