--------------------------- MODULE Offload_proofs ---------------------------
(***************************************************************************)
(* Theorems about Offload: the outbox keeps its books, and no recording is *)
(* lost, for any number of recordings, workers, versions and faults; and   *)
(* about BlockProxy, at the end.                                           *)
(*                                                                         *)
(* Three facts carry the argument.  What a worker has in hand is uploading *)
(* or evicted, so that nobody claims it (Held).  A recording is uploaded a *)
(* second time only when it has grown since, so that a request never       *)
(* touches an object that still counts (Again).  And an evictor that has   *)
(* looked at an object may rely on it until it has removed the copy        *)
(* (Listed).  Kept is NothingLost, told by the outbox.                     *)
(***************************************************************************)
EXTENDS Offload, BlockProxy, TLAPS, WellFoundedInduction, FiniteSetTheorems

\* What recordings and late appends promise each other.
Recorded ==
    /\ \A r \in Recs : r > last =>
          row[r] = None /\ footage[r] = None /\ status[r] = "none" /\ grow[r].at = "no"
    /\ \A r \in Recs : row[r] \in {None, footage[r]}
    /\ \A r \in Recs : grow[r].at = "written" =>
          grow[r].to > footage[r] /\ (r \notin expired => grow[r].to \in disk[r])
    /\ \A r \in Recs : grow[r].at = "committed" => footage[r] = grow[r].to
    /\ \A f \in doomed : f[1] \in expired

\* The outbox names a file of the recording, and has its size or none.
Boxed ==
    /\ \A r \in Recs : status[r] # "none" => path[r] \in Versions /\ path[r] <= footage[r]
    /\ \A r \in Recs : status[r] = "none" => uploaded[r] = None
    /\ \A r \in Recs : uploaded[r] \in {None, path[r]}
    /\ \A r \in With({"uploaded", "evicted"}) : uploaded[r] # None

Scanned == \A c \in scan.todo : c[1] <= last /\ c[2] <= footage[c[1]]

\* What a worker has in hand nobody else takes up.
Held ==
    /\ \A w \in Workers : \A r \in hand[w] : status[r] \in {"uploading", "evicted"}
    /\ \A w \in Workers : at[w] = "idle" <=> hand[w] = {}
    /\ \A w \in Workers : at[w] \in {"open", "put", "head", "mark"} => size[w] = path[Item(w)]

\* Only what has grown since is uploaded a second time.
Again ==
    \A r \in Recs :
        uploaded[r] # None
            /\ (status[r] \in {"pending", "uploading"} \/ \E w \in Workers : r \in hand[w])
        => footage[r] > uploaded[r]

\* What was found in the store stays there, and is there before it is marked.
Stored ==
    gone = 0 =>
        \A r \in Recs : uploaded[r] # None /\ footage[r] <= uploaded[r] => remote[r] >= uploaded[r]
Verified ==
    gone = 0 => \A w \in Workers : at[w] = "mark" => remote[Item(w)] = size[w]

\* Evictors handle what has been uploaded, and have looked before they remove.
Listed ==
    \A e \in Evictors :
        /\ \A it \in evict[e].todo : it[2] # None /\ uploaded[it[1]] = it[2]
        /\ evict[e].at \in {"remove", "row", "mark"} =>
              LET it == evict[e].item IN
              /\ it[1] \in Recs /\ it[2] # None /\ uploaded[it[1]] = it[2]
              /\ remote[it[1]] >= footage[it[1]] \/ footage[it[1]] > uploaded[it[1]]

\* NothingLost, by what the outbox says of the recording.
Kept ==
    \A r \in 1..last \ expired :
        /\ uploaded[r] = None => row[r] = footage[r] /\ row[r] \in disk[r]
        /\ uploaded[r] = footage[r] =>
              (row[r] = footage[r] /\ row[r] \in disk[r]) \/ remote[r] >= footage[r]

\* Rows on their way for the first time, and the room the scan has left.
Fresh == {r \in With({"pending", "uploading"}) : uploaded[r] = None}
Capped ==
    /\ Cardinality(Fresh) <= BacklogLimit
    /\ scan.at \in {"list", "enqueue"} => Cardinality(Fresh) + scan.room <= BacklogLimit

\* TypeOK, by groups of variables that change together.
TypeRec ==
    /\ last \in 0..NumRecs
    /\ disk \in [Recs -> SUBSET Versions] /\ row \in [Recs -> Versions \cup {None}]
    /\ grow \in [Recs -> [at : {"no", "written", "committed"}, to : Versions \cup {None}]]
    /\ footage \in [Recs -> Versions \cup {None}]
    /\ expired \subseteq Recs /\ doomed \subseteq Recs \X Versions
TypeBox ==
    /\ id \in [Recs -> 0..NumRecs] /\ status \in [Recs -> Statuses]
    /\ path \in [Recs -> Versions \cup {None}] /\ uploaded \in [Recs -> Versions \cup {None}]
TypeRemote == remote \in [Recs -> Versions \cup {None}]
TypeScan ==
    scan \in [at : {"idle", "count", "list", "enqueue"},
              todo : SUBSET (Recs \X Versions), room : 0..BacklogLimit]
TypeWork ==
    /\ hand \in [Workers -> SUBSET Recs]
    /\ at \in [Workers -> {"idle", "stat", "open", "put", "head", "mark"}]
    /\ size \in [Workers -> Versions \cup {None}]
TypeEvict ==
    evict \in [Evictors -> [at : {"idle", "head", "remove", "row", "mark"},
                            item : Items \cup {NoItem}, todo : SUBSET Items]]
TypeCount ==
    /\ fails \in 0..setup.fails /\ dbFails \in 0..setup.dbFails /\ crashes \in 0..setup.crashes
    /\ gone \in 0..setup.gone

Types ==
    /\ setup \in Setups /\ TypeRec /\ TypeBox /\ TypeRemote /\ TypeScan
    /\ TypeWork /\ TypeEvict /\ TypeCount

IInv ==
    /\ Types /\ Recorded /\ Boxed /\ Scanned /\ Held /\ OneUploader /\ Again
    /\ Stored /\ Verified /\ Listed /\ Kept /\ SkippedIsGone /\ Capped

-----------------------------------------------------------------------------
LEMMA TypeParts == Types <=> TypeOK
BY DEF Types, TypeOK, TypeRec, TypeBox, TypeRemote, TypeScan, TypeWork, TypeEvict, TypeCount

\* What the constants and the setup are.
LEMMA SetupFacts ==
    ASSUME setup \in Setups
    PROVE  /\ NumRecs \in Nat /\ MaxVersion \in Nat \ {0} /\ ClaimBatch \in Nat \ {0}
           /\ Recs = 1..NumRecs /\ Versions = 1..MaxVersion /\ None = 0
           /\ setup.recs \in 0..NumRecs /\ BacklogLimit \in Nat \ {0} /\ setup.versions \in Versions
           /\ setup.fails \in Nat /\ setup.dbFails \in Nat /\ setup.crashes \in Nat
           /\ setup.gone \in Nat
BY OffloadAssumption DEF SetupType, Recs, Versions, None, BacklogLimit

LEMMA RecsFinite ==
    /\ IsFiniteSet(Recs) /\ Cardinality(Recs) = NumRecs
    /\ \A S, T : S \subseteq T /\ T \subseteq Recs =>
          /\ IsFiniteSet(S) /\ Cardinality(S) \in Nat /\ Cardinality(T) \in Nat
          /\ Cardinality(S) <= Cardinality(T)
<1>1. NumRecs \in Nat
  BY OffloadAssumption
<1>2. IsFiniteSet(Recs) /\ Cardinality(Recs) = NumRecs
  BY <1>1, FS_Interval DEF Recs
<1>3. ASSUME NEW S, NEW T, S \subseteq T, T \subseteq Recs
      PROVE  IsFiniteSet(S) /\ Cardinality(S) \in Nat /\ Cardinality(T) \in Nat
                /\ Cardinality(S) <= Cardinality(T)
  <2>1. IsFiniteSet(T)
    BY <1>2, <1>3, FS_Subset
  <2>2. IsFiniteSet(S) /\ Cardinality(S) <= Cardinality(T)
    BY <1>3, <2>1, FS_Subset
  <2> QED BY <2>1, <2>2, FS_CardinalityType
<1> QED BY <1>2, <1>3

\* The row at work is one in hand; it changes only with what is in hand.
LEMMA ItemIn ==
    ASSUME Types, NEW w \in Workers, hand[w] # {}
    PROVE  Item(w) \in hand[w] /\ Item(w) \in Recs
<1>1. hand[w] \subseteq Recs /\ \A r \in Recs : id[r] \in Nat
  BY SetupFacts DEF Types, TypeWork, TypeBox
<1> DEFINE ids == {id[r] : r \in hand[w]}
<1>2. ids \subseteq Nat /\ ids # {}
  BY <1>1
<1>3. PICK x \in ids : \A y \in ids : ~ (<<y, x>> \in OpToRel(<, Nat))
  BY <1>2, NatLessThanWellFounded, WFMin
<1>4. PICK r \in hand[w] : id[r] = x
  BY <1>3
<1>5. \A q \in hand[w] : ~ (id[q] < id[r])
  BY <1>1, <1>2, <1>3, <1>4 DEF OpToRel
<1>6. r \in Front(w)
  BY <1>1, <1>4, <1>5 DEF Front
<1>7. Item(w) \in Front(w)
  BY <1>6 DEF Item
<1> QED BY <1>1, <1>7 DEF Front

LEMMA SameItem ==
    ASSUME NEW w, hand'[w] = hand[w], \A q \in hand[w] : id'[q] = id[q]
    PROVE  Item(w)' = Item(w)
<1>1. Front(w)' = Front(w)
  BY DEF Front
<1> QED BY <1>1 DEF Item

\* A worker at work has a row in hand that no other has.
LEMMA AtWork ==
    ASSUME IInv, NEW w \in Workers, at[w] # "idle"
    PROVE  /\ Item(w) \in hand[w] /\ Item(w) \in Recs
           /\ status[Item(w)] \in {"uploading", "evicted"}
           /\ path[Item(w)] \in Versions /\ path[Item(w)] <= footage[Item(w)]
           /\ uploaded[Item(w)] # None => footage[Item(w)] > uploaded[Item(w)]
           /\ \A v \in Workers : v # w /\ hand[v] # {} => Item(v) # Item(w)
<1>1. Item(w) \in hand[w] /\ Item(w) \in Recs
  BY ItemIn DEF IInv, Held
<1>2. ASSUME NEW v \in Workers, v # w, hand[v] # {}
      PROVE  Item(v) # Item(w)
  BY <1>1, <1>2, ItemIn DEF IInv, OneUploader
<1> QED BY <1>1, <1>2 DEF IInv, Held, Boxed, Again

\* Everything counts in naturals, and no upload is larger than the recording.
LEMMA Numbers ==
    ASSUME IInv
    PROVE  /\ NumRecs \in Nat /\ Recs = 1..NumRecs /\ last \in 0..NumRecs /\ setup.recs \in 0..NumRecs
           /\ MaxVersion \in Nat \ {0} /\ Versions = 1..MaxVersion /\ None = 0
           /\ setup.versions \in Versions
           /\ footage \in [Recs -> Nat] /\ row \in [Recs -> Nat] /\ remote \in [Recs -> Nat]
           /\ path \in [Recs -> Nat] /\ uploaded \in [Recs -> Nat]
           /\ \A r \in Recs : None \notin disk[r]
           /\ \A r \in Recs : uploaded[r] <= footage[r]
<1>1. setup \in Setups /\ TypeRec /\ TypeBox /\ TypeRemote
  BY DEF IInv, Types
<1>2. /\ NumRecs \in Nat /\ Recs = 1..NumRecs /\ setup.recs \in 0..NumRecs
      /\ MaxVersion \in Nat \ {0} /\ Versions = 1..MaxVersion /\ None = 0
      /\ setup.versions \in Versions
  BY <1>1, SetupFacts
<1>3. Versions \cup {None} \subseteq Nat /\ None \notin Versions
  BY <1>2
<1>4. /\ footage \in [Recs -> Nat] /\ row \in [Recs -> Nat] /\ remote \in [Recs -> Nat]
      /\ path \in [Recs -> Nat] /\ uploaded \in [Recs -> Nat]
      /\ last \in 0..NumRecs /\ \A r \in Recs : None \notin disk[r]
  BY <1>1, <1>3 DEF TypeRec, TypeBox, TypeRemote
<1>5. \A r \in Recs : uploaded[r] <= footage[r]
  <2> SUFFICES ASSUME NEW r \in Recs
               PROVE  uploaded[r] <= footage[r]
    OBVIOUS
  <2>1. uploaded[r] \in {None, path[r]} /\ (status[r] = "none" => uploaded[r] = None)
           /\ (status[r] # "none" => path[r] <= footage[r])
    BY DEF IInv, Boxed
  <2> QED BY <1>2, <1>4, <2>1
<1> QED BY <1>2, <1>4, <1>5

\* Each part depends on some of the variables only.
LEMMA Frame ==
    ASSUME IInv, UNCHANGED setup
    PROVE  /\ UNCHANGED recVars => TypeRec'
           /\ UNCHANGED boxVars => TypeBox'
           /\ UNCHANGED remote => TypeRemote'
           /\ UNCHANGED scan => TypeScan'
           /\ UNCHANGED workVars => TypeWork'
           /\ UNCHANGED evict => TypeEvict'
           /\ UNCHANGED countVars => TypeCount'
           /\ UNCHANGED <<recVars, status>> => Recorded'
           /\ UNCHANGED <<boxVars, footage>> => Boxed'
           /\ UNCHANGED <<scan, last, footage>> => Scanned'
           /\ UNCHANGED <<workVars, boxVars>> => Held'
           /\ UNCHANGED workVars => OneUploader'
           /\ UNCHANGED <<boxVars, workVars, footage>> => Again'
           /\ UNCHANGED <<boxVars, footage, remote, gone>> => Stored'
           /\ UNCHANGED <<workVars, id, remote, gone>> => Verified'
           /\ UNCHANGED <<evict, uploaded, remote, footage>> => Listed'
           /\ UNCHANGED <<recVars, uploaded, remote>> => Kept'
           /\ UNCHANGED <<boxVars, row, disk>> => SkippedIsGone'
           /\ UNCHANGED <<boxVars, scan>> => Capped'
<1> USE DEF IInv, Types, recVars, boxVars, workVars, countVars
<1>1. UNCHANGED recVars => TypeRec'
  BY DEF TypeRec
<1>2. UNCHANGED boxVars => TypeBox'
  BY DEF TypeBox
<1>3. UNCHANGED remote => TypeRemote'
  BY DEF TypeRemote
<1>4. UNCHANGED scan => TypeScan'
  BY DEF TypeScan, BacklogLimit
<1>5. UNCHANGED workVars => TypeWork'
  BY DEF TypeWork, Workers
<1>6. UNCHANGED evict => TypeEvict'
  BY DEF TypeEvict, Evictors
<1>7. UNCHANGED countVars => TypeCount'
  BY DEF TypeCount
<1>8. UNCHANGED <<recVars, status>> => Recorded'
  BY DEF Recorded
<1>9. UNCHANGED <<boxVars, footage>> => Boxed'
  BY DEF Boxed, With
<1>10. UNCHANGED <<scan, last, footage>> => Scanned'
  BY DEF Scanned
<1>11. UNCHANGED <<workVars, boxVars>> => Held'
  <2> SUFFICES ASSUME UNCHANGED <<workVars, boxVars>>
               PROVE  Held'
    OBVIOUS
  <2>1. \A w \in Workers : Item(w)' = Item(w)
    BY SameItem
  <2> QED BY <2>1 DEF Held, Workers
<1>12. UNCHANGED workVars => OneUploader'
  BY DEF OneUploader, Workers
<1>13. UNCHANGED <<boxVars, workVars, footage>> => Again'
  BY DEF Again, Workers
<1>14. UNCHANGED <<boxVars, footage, remote, gone>> => Stored'
  BY DEF Stored
<1>15. UNCHANGED <<workVars, id, remote, gone>> => Verified'
  <2> SUFFICES ASSUME UNCHANGED <<workVars, id, remote, gone>>
               PROVE  Verified'
    OBVIOUS
  <2>1. \A w \in Workers : Item(w)' = Item(w)
    BY SameItem
  <2> QED BY <2>1 DEF Verified, Workers
<1>16. UNCHANGED <<evict, uploaded, remote, footage>> => Listed'
  BY DEF Listed, Evictors
<1>17. UNCHANGED <<recVars, uploaded, remote>> => Kept'
  BY DEF Kept
<1>18. UNCHANGED <<boxVars, row, disk>> => SkippedIsGone'
  BY DEF SkippedIsGone, With
<1>19. UNCHANGED <<boxVars, scan>> => Capped'
  BY DEF Capped, Fresh, With, BacklogLimit
<1> QED BY <1>1, <1>2, <1>3, <1>4, <1>5, <1>6, <1>7, <1>8, <1>9, <1>10, <1>11, <1>12, <1>13,
           <1>14, <1>15, <1>16, <1>17, <1>18, <1>19

-----------------------------------------------------------------------------
\* Recordings: the rolling merge and retention.
LEMMA MergedStep ==
    ASSUME IInv, Merged, UNCHANGED setup
    PROVE  IInv'
<1> DEFINE n == last + 1
<1>1. /\ last' = n /\ n \in Recs /\ 1 \in Versions /\ disk' = [disk EXCEPT ![n] = {1}]
      /\ row' = [row EXCEPT ![n] = 1] /\ footage' = [footage EXCEPT ![n] = 1]
      /\ UNCHANGED <<grow, expired, doomed, boxVars, remote, scan, workVars, evict, countVars>>
  <2>1. last' = n /\ n \in Recs /\ 1 \in Versions
    BY Numbers DEF Merged
  <2> QED BY <2>1 DEF Merged
<1>2. /\ row[n] = None /\ footage[n] = None /\ status[n] = "none" /\ grow[n].at = "no"
      /\ uploaded[n] = None /\ \A r \in 1..last' : r \in 1..last \/ r = n
  BY <1>1 DEF IInv, Types, TypeRec, Recorded, Boxed
<1>3. TypeBox' /\ TypeRemote' /\ TypeScan' /\ TypeWork' /\ TypeEvict' /\ TypeCount'
         /\ Held' /\ OneUploader' /\ Verified' /\ Capped'
  BY <1>1, Frame DEF boxVars, workVars, countVars
<1>4. TypeRec'
  <2>1. last' \in 0..NumRecs
    BY <1>1, Numbers
  <2> QED BY <1>1, <2>1 DEF IInv, Types, TypeRec
<1>5. Recorded'
  <2>1. \A r \in Recs : r > last' => r > last /\ r # n
    BY <1>1, Numbers
  <2>2. row' \in [Recs -> Versions \cup {None}] /\ \A r \in Recs : row'[r] \in {None, footage'[r]}
    BY <1>1, <1>4 DEF IInv, Types, TypeRec, Recorded
  <2>3. \A r \in Recs : r # n => footage'[r] = footage[r] /\ row'[r] = row[r] /\ disk'[r] = disk[r]
    BY <1>1 DEF IInv, Types, TypeRec
  <2> QED BY <1>1, <1>2, <2>1, <2>2, <2>3 DEF IInv, Recorded, boxVars
<1>6. Boxed'
  BY <1>1, <1>2, Numbers DEF IInv, Boxed, With, boxVars
<1>7. Scanned'
  <2>1. \A c \in scan.todo : c[1] \in Recs
    BY DEF IInv, Types, TypeScan
  <2>2. \A r \in Recs : r <= last => r <= last' /\ footage'[r] = footage[r]
    BY <1>1, Numbers, SMTT(40)
  <2> QED BY <1>1, <2>1, <2>2 DEF IInv, Scanned
<1>8. Again' /\ Stored'
  BY <1>1, <1>2, SetupFacts DEF IInv, Types, TypeRec, Again, Stored, Workers,
     boxVars, workVars, countVars
<1>9. Listed'
  <2>1. \A r \in Recs : r # n => footage'[r] = footage[r]
    BY <1>1, Numbers
  <2> QED BY <1>1, <1>2, <2>1 DEF IInv, Listed, Evictors, boxVars
<1>10. Kept'
  <2>1. \A r \in Recs : r # n => footage'[r] = footage[r] /\ row'[r] = row[r] /\ disk'[r] = disk[r]
    BY <1>1 DEF IInv, Types, TypeRec
  <2>2. row'[n] = 1 /\ footage'[n] = 1 /\ disk'[n] = {1}
    BY <1>1 DEF IInv, Types, TypeRec
  <2>3. 1..last' \subseteq Recs
    BY <1>1, Numbers
  <2> QED BY <1>1, <1>2, <2>1, <2>2, <2>3 DEF IInv, Kept, boxVars
<1>11. SkippedIsGone'
  BY <1>1, <1>2 DEF IInv, Types, TypeRec, SkippedIsGone, With, boxVars
<1> QED BY <1>3, <1>4, <1>5, <1>6, <1>7, <1>8, <1>9, <1>10, <1>11 DEF IInv, Types

LEMMA AppendWriteStep ==
    ASSUME IInv, NEW r \in Recs, AppendWrite(r), UNCHANGED setup
    PROVE  IInv'
<1> DEFINE n == row[r] + 1
<1>1. /\ grow[r].at = "no" /\ row[r] \in disk[r] /\ row[r] \in Versions /\ n \in Versions
      /\ row[r] = footage[r] /\ r <= last
      /\ grow' = [grow EXCEPT ![r] = [at |-> "written", to |-> n]]
      /\ disk' = [disk EXCEPT ![r] = @ \cup {n}]
      /\ UNCHANGED <<last, row, footage, expired, doomed, boxVars, remote, scan, workVars,
                     evict, countVars>>
  <2>1. row[r] \in Versions
    BY DEF AppendWrite, IInv, Types, TypeRec
  <2>2. n \in Versions /\ row[r] # None
    BY <2>1, Numbers DEF AppendWrite
  <2>3. row[r] = footage[r] /\ r <= last
    BY <2>2, Numbers DEF IInv, Recorded
  <2> QED BY <2>1, <2>2, <2>3 DEF AppendWrite
<1>2. TypeBox' /\ TypeRemote' /\ TypeScan' /\ TypeWork' /\ TypeEvict' /\ TypeCount'
         /\ Boxed' /\ Scanned' /\ Held' /\ OneUploader' /\ Again' /\ Stored' /\ Verified'
         /\ Listed' /\ Capped'
  BY <1>1, Frame DEF boxVars, workVars, countVars
<1>3. TypeRec'
  BY <1>1 DEF IInv, Types, TypeRec
<1>4. Recorded'
  BY <1>1, SetupFacts DEF IInv, Types, TypeRec, Recorded, boxVars
<1>5. Kept'
  BY <1>1, SetupFacts DEF IInv, Types, TypeRec, Kept, boxVars
<1>6. SkippedIsGone'
  BY <1>1, SetupFacts DEF IInv, Types, TypeRec, TypeBox, Boxed, SkippedIsGone, With, boxVars
<1> QED BY <1>2, <1>3, <1>4, <1>5, <1>6 DEF IInv, Types

LEMMA AppendCommitStep ==
    ASSUME IInv, NEW r \in Recs, AppendCommit(r), UNCHANGED setup
    PROVE  IInv'
<1> DEFINE n == grow[r].to
<1>1. /\ grow[r].at = "written" /\ n \in Versions /\ n > footage[r] /\ r <= last
      /\ r \notin expired => n \in disk[r]
      /\ grow' = [grow EXCEPT ![r].at = "committed"]
      /\ row' = [row EXCEPT ![r] = IF @ = None THEN None ELSE n]
      /\ footage' = [footage EXCEPT ![r] = n]
      /\ UNCHANGED <<last, disk, expired, doomed, boxVars, remote, scan, workVars, evict, countVars>>
  <2>1. /\ grow[r].at = "written" /\ n > footage[r]
        /\ r \notin expired => n \in disk[r]
    BY DEF AppendCommit, IInv, Recorded
  <2>2. n \in Versions \cup {None}
    BY DEF IInv, Types, TypeRec
  <2>3. n \in Versions
    BY <2>1, <2>2, Numbers
  <2>4. r > last => grow[r].at = "no"
    BY DEF IInv, Recorded
  <2>5. r <= last
    BY <2>1, <2>4, Numbers
  <2> QED BY <2>1, <2>3, <2>5 DEF AppendCommit
<1>2. /\ footage \in [Recs -> Nat] /\ footage' \in [Recs -> Nat] /\ uploaded \in [Recs -> Nat]
      /\ footage'[r] = n /\ \A q \in Recs : q # r => footage'[q] = footage[q]
      /\ \A q \in Recs : footage[q] <= footage'[q]
      /\ uploaded[r] < footage'[r]
  <2>1. footage \in [Recs -> Nat] /\ uploaded \in [Recs -> Nat] /\ n \in Nat /\ uploaded[r] <= footage[r]
    BY <1>1, Numbers
  <2> QED BY <1>1, <2>1
<1>3. TypeBox' /\ TypeRemote' /\ TypeScan' /\ TypeWork' /\ TypeEvict' /\ TypeCount'
         /\ Held' /\ OneUploader' /\ Verified' /\ Capped'
  BY <1>1, Frame DEF boxVars, workVars, countVars
<1>4. TypeRec'
  BY <1>1 DEF IInv, Types, TypeRec
<1>5. Recorded'
  BY <1>1, SetupFacts DEF IInv, Types, TypeRec, Recorded, boxVars
<1>6. Boxed'
  <2>1. \A q \in Recs : path[q] \in Nat
    BY Numbers
  <2> QED BY <1>1, <1>2, <2>1 DEF IInv, Boxed, With, boxVars
<1>7. Scanned'
  <2>1. \A c \in scan.todo : c[1] \in Recs /\ c[2] \in Versions
    BY DEF IInv, Types, TypeScan
  <2>2. Versions \subseteq Nat
    BY Numbers
  <2> QED BY <1>1, <1>2, <2>1, <2>2 DEF IInv, Scanned
<1>8. Again'
  BY <1>1, <1>2 DEF IInv, Again, Workers, boxVars, workVars
<1>9. Stored' /\ Listed'
  <2>1. uploaded' = uploaded /\ remote' = remote /\ gone' = gone /\ evict' = evict
    BY <1>1 DEF boxVars, countVars
  <2>2. ~(footage'[r] <= uploaded[r])
    BY <1>2
  <2>3. Stored'
    BY <1>2, <2>1, <2>2 DEF IInv, Stored
  <2>4. Listed'
    BY <1>2, <2>1 DEF IInv, Listed, Evictors
  <2> QED BY <2>3, <2>4
<1>10. Kept'
  <2>1. uploaded[r] # footage'[r]
    BY <1>2
  <2>2. uploaded[r] = None /\ r \notin expired => row[r] \in Versions
    <3>1. r \in 1..last
      BY <1>1, Numbers
    <3>2. uploaded[r] = None /\ r \notin expired => row[r] \in disk[r]
      BY <3>1 DEF IInv, Kept
    <3> QED BY <3>2, Numbers DEF IInv, Types, TypeRec
  <2>3. \A q \in Recs : q # r => footage'[q] = footage[q] /\ row'[q] = row[q]
    BY <1>1 DEF IInv, Types, TypeRec
  <2>4. footage'[r] = n /\ (row[r] \in Versions => row'[r] = n)
    BY <1>1, Numbers DEF IInv, Types, TypeRec
  <2>5. 1..last' \subseteq Recs
    BY <1>1, Numbers
  <2> QED BY <1>1, <2>1, <2>2, <2>3, <2>4, <2>5 DEF IInv, Kept, boxVars
<1>11. SkippedIsGone'
  <2>1. status[r] # "none" => path[r] <= footage[r]
    BY DEF IInv, Boxed
  <2>2. status[r] # "none" => path[r] < n
    BY <1>1, <2>1, Numbers
  <2>3. \A q \in Recs : q # r => row'[q] = row[q]
    BY <1>1 DEF IInv, Types, TypeRec
  <2>4. row'[r] \in {None, n} /\ None \notin disk[r]
    BY <1>1, Numbers DEF IInv, Types, TypeRec
  <2>5. status[r] = "skipped" => row'[r] \notin disk'[r] \/ row'[r] # path'[r]
    <3>1. row'[r] = n => row'[r] # path[r] \/ status[r] = "none"
      BY <2>2, Numbers
    <3> QED BY <1>1, <2>4, <3>1 DEF boxVars
  <2> QED BY <1>1, <2>3, <2>5 DEF IInv, SkippedIsGone, With, boxVars
<1> QED BY <1>3, <1>4, <1>5, <1>6, <1>7, <1>8, <1>9, <1>10, <1>11 DEF IInv, Types

LEMMA AppendRemoveStep ==
    ASSUME IInv, NEW r \in Recs, AppendRemove(r), UNCHANGED setup
    PROVE  IInv'
<1>1. /\ grow[r].at = "committed" /\ footage[r] = grow[r].to /\ row[r] \in {None, footage[r]}
      /\ grow' = [grow EXCEPT ![r] = NotGrowing]
      /\ disk' = [disk EXCEPT ![r] = @ \ {grow[r].to - 1}]
      /\ UNCHANGED <<last, row, footage, expired, doomed, boxVars, remote, scan, workVars,
                     evict, countVars>>
  BY DEF AppendRemove, IInv, Recorded
<1>2. TypeBox' /\ TypeRemote' /\ TypeScan' /\ TypeWork' /\ TypeEvict' /\ TypeCount'
         /\ Boxed' /\ Scanned' /\ Held' /\ OneUploader' /\ Again' /\ Stored' /\ Verified'
         /\ Listed' /\ Capped'
  BY <1>1, Frame DEF boxVars, workVars, countVars
<1>3. TypeRec' /\ Recorded'
  BY <1>1 DEF IInv, Types, TypeRec, Recorded, NotGrowing, boxVars
<1>4. Kept'
  <2>1. footage[r] \in Nat /\ footage[r] # footage[r] - 1
    BY SetupFacts DEF IInv, Types, TypeRec
  <2> QED BY <1>1, <2>1 DEF IInv, Types, TypeRec, Kept, boxVars
<1>5. SkippedIsGone'
  BY <1>1 DEF IInv, Types, TypeRec, SkippedIsGone, With, boxVars
<1> QED BY <1>2, <1>3, <1>4, <1>5 DEF IInv, Types

LEMMA RetentionRowStep ==
    ASSUME IInv, NEW r \in Recs, RetentionRow(r), UNCHANGED setup
    PROVE  IInv'
<1>1. /\ row[r] \in Versions
      /\ row' = [row EXCEPT ![r] = None] /\ expired' = expired \cup {r}
      /\ doomed' = doomed \cup {<<r, row[r]>>}
      /\ UNCHANGED <<last, disk, grow, footage, boxVars, remote, scan, workVars, evict, countVars>>
  BY DEF RetentionRow, IInv, Types, TypeRec
<1>2. TypeBox' /\ TypeRemote' /\ TypeScan' /\ TypeWork' /\ TypeEvict' /\ TypeCount'
         /\ Boxed' /\ Scanned' /\ Held' /\ OneUploader' /\ Again' /\ Stored' /\ Verified'
         /\ Listed' /\ Capped'
  BY <1>1, Frame DEF boxVars, workVars, countVars
<1>3. TypeRec' /\ Recorded'
  BY <1>1 DEF IInv, Types, TypeRec, Recorded, boxVars
<1>4. Kept'
  BY <1>1 DEF IInv, Types, TypeRec, Kept, boxVars
<1>5. SkippedIsGone'
  BY <1>1, SetupFacts DEF IInv, Types, TypeRec, SkippedIsGone, With, boxVars
<1> QED BY <1>2, <1>3, <1>4, <1>5 DEF IInv, Types

LEMMA RetentionFileStep ==
    ASSUME IInv, NEW f \in doomed, RetentionFile(f), UNCHANGED setup
    PROVE  IInv'
<1>1. /\ f[1] \in expired /\ f[1] \in Recs
      /\ doomed' = doomed \ {f} /\ disk' = [disk EXCEPT ![f[1]] = @ \ {f[2]}]
      /\ UNCHANGED <<last, row, grow, footage, expired, boxVars, remote, scan, workVars,
                     evict, countVars>>
  BY DEF RetentionFile, IInv, Types, TypeRec, Recorded
<1>2. TypeBox' /\ TypeRemote' /\ TypeScan' /\ TypeWork' /\ TypeEvict' /\ TypeCount'
         /\ Boxed' /\ Scanned' /\ Held' /\ OneUploader' /\ Again' /\ Stored' /\ Verified'
         /\ Listed' /\ Capped'
  BY <1>1, Frame DEF boxVars, workVars, countVars
<1>3. TypeRec'
  BY <1>1 DEF IInv, Types, TypeRec
<1>4. /\ \A q \in Recs : q # f[1] => disk'[q] = disk[q]
      /\ \A q \in Recs : disk'[q] \subseteq disk[q]
  BY <1>1 DEF IInv, Types, TypeRec
<1>5. Recorded'
  BY <1>1, <1>4 DEF IInv, Recorded, boxVars
<1>6. Kept'
  BY <1>1, <1>4 DEF IInv, Types, TypeRec, Kept, boxVars, Recs
<1>7. SkippedIsGone'
  BY <1>1, <1>4 DEF IInv, SkippedIsGone, With, boxVars
<1> QED BY <1>2, <1>3, <1>5, <1>6, <1>7 DEF IInv, Types

-----------------------------------------------------------------------------
\* The scanner.
LEMMA RequeueStaleStep ==
    ASSUME IInv, RequeueStale, UNCHANGED setup
    PROVE  IInv'
<1> DEFINE stale(r) == status[r] = "uploaded" /\ row[r] \notin {None, uploaded[r]}
<1>1. /\ scan.at = "idle" /\ scan' = [scan EXCEPT !.at = "count"]
      /\ status' = [r \in Recs |-> IF stale(r) THEN "pending" ELSE status[r]]
      /\ UNCHANGED <<recVars, id, path, uploaded, remote, workVars, evict, countVars>>
  BY DEF RequeueStale
<1>2. \A r \in Recs : status'[r] # status[r] => stale(r) /\ status'[r] = "pending"
  BY <1>1
<1>3. TypeRec' /\ TypeRemote' /\ TypeWork' /\ TypeEvict' /\ TypeCount'
         /\ OneUploader' /\ Verified' /\ Listed' /\ Kept'
  BY <1>1, Frame DEF recVars, workVars, countVars
<1>4. TypeBox' /\ TypeScan'
  BY <1>1 DEF IInv, Types, TypeBox, TypeScan, Statuses, BacklogLimit
<1>5. Recorded' /\ Scanned'
  BY <1>1, <1>2 DEF IInv, Recorded, Scanned, Types, TypeScan, recVars
<1>6. Boxed'
  BY <1>1, <1>2 DEF IInv, Boxed, With, recVars
<1>7. Held'
  <2>1. \A w \in Workers : Item(w)' = Item(w)
    BY <1>1, SameItem DEF workVars
  <2>2. \A w \in Workers : hand[w] \subseteq Recs
    BY DEF IInv, Types, TypeWork
  <2> QED BY <1>1, <1>2, <2>1, <2>2 DEF IInv, Held, Workers, workVars
<1>8. Again'
  <2>1. \A r \in Recs : stale(r) => footage[r] > uploaded[r]
    <3> SUFFICES ASSUME NEW r \in Recs, stale(r)
                 PROVE  footage[r] > uploaded[r]
      OBVIOUS
    <3>1. row[r] = footage[r] /\ row[r] # uploaded[r]
      BY DEF IInv, Recorded
    <3> QED BY <3>1, Numbers
  <2> QED BY <1>1, <1>2, <2>1 DEF IInv, Again, Workers, workVars, recVars
<1>9. Stored'
  BY <1>1 DEF IInv, Stored, recVars, countVars
<1>10. SkippedIsGone'
  BY <1>1, <1>2 DEF IInv, SkippedIsGone, With, recVars
<1>11. Capped'
  <2>1. \A r \in Recs : stale(r) => uploaded[r] # None
    BY DEF IInv, Boxed, With
  <2>2. Fresh' = Fresh
    BY <1>1, <1>2, <2>1 DEF Fresh, With
  <2> QED BY <1>1, <2>2 DEF IInv, Capped, Types, TypeScan, BacklogLimit
<1> QED BY <1>3, <1>4, <1>5, <1>6, <1>7, <1>8, <1>9, <1>10, <1>11 DEF IInv, Types

LEMMA CountBacklogStep ==
    ASSUME IInv, CountBacklog, UNCHANGED setup
    PROVE  IInv'
<1>1. /\ UNCHANGED <<recVars, boxVars, remote, workVars, evict, countVars>>
      /\ scan' = IF Backlog >= BacklogLimit THEN NoScan
                 ELSE [scan EXCEPT !.at = "list", !.room = BacklogLimit - Backlog]
  BY DEF CountBacklog
<1>2. TypeRec' /\ TypeBox' /\ TypeRemote' /\ TypeWork' /\ TypeEvict' /\ TypeCount'
         /\ Recorded' /\ Boxed' /\ Held' /\ OneUploader' /\ Again' /\ Stored' /\ Verified'
         /\ Listed' /\ Kept' /\ SkippedIsGone'
  BY <1>1, Frame DEF recVars, boxVars, workVars, countVars
<1>3. Backlog \in Nat /\ Cardinality(Fresh) \in Nat /\ Cardinality(Fresh) <= Backlog
  BY RecsFinite DEF Backlog, Fresh, With
<1>4. BacklogLimit \in Nat \ {0}
  BY SetupFacts DEF IInv, Types
<1>5. TypeScan'
  <2>1. BacklogLimit' = BacklogLimit /\ 0 \in 0..BacklogLimit
    BY <1>4 DEF BacklogLimit
  <2>2. ~(Backlog >= BacklogLimit) => BacklogLimit - Backlog \in 0..BacklogLimit
    BY <1>3, <1>4
  <2> QED BY <1>1, <2>1, <2>2 DEF IInv, Types, TypeScan, NoScan
<1>6. Scanned'
  BY <1>1 DEF IInv, Scanned, Types, TypeScan, NoScan, recVars
<1>7. Capped'
  <2>1. Fresh' = Fresh
    BY <1>1 DEF Fresh, With, boxVars
  <2>2. scan' = NoScan \/ scan'.room = BacklogLimit - Backlog
    BY <1>1 DEF IInv, Types, TypeScan
  <2> QED BY <1>3, <1>4, <2>1, <2>2 DEF IInv, Capped, NoScan, BacklogLimit
<1> QED BY <1>2, <1>5, <1>6, <1>7 DEF IInv, Types

LEMMA ListCandidatesStep ==
    ASSUME IInv, ListCandidates, UNCHANGED setup
    PROVE  IInv'
<1> DEFINE cands == {q \in 1..last : row[q] # None /\ status[q] = "none"}
           todo == {<<r, row[r]>> : r \in cands}
<1>1. /\ scan.at = "list" /\ scan' = [scan EXCEPT !.at = "enqueue", !.todo = todo]
      /\ UNCHANGED <<recVars, boxVars, remote, workVars, evict, countVars>>
  BY DEF ListCandidates
<1>2. TypeRec' /\ TypeBox' /\ TypeRemote' /\ TypeWork' /\ TypeEvict' /\ TypeCount'
         /\ Recorded' /\ Boxed' /\ Held' /\ OneUploader' /\ Again' /\ Stored' /\ Verified'
         /\ Listed' /\ Kept' /\ SkippedIsGone'
  BY <1>1, Frame DEF recVars, boxVars, workVars, countVars
<1>3. \A r \in cands : r \in Recs /\ r <= last /\ row[r] \in Versions /\ row[r] = footage[r]
  <2>1. cands \subseteq Recs /\ \A r \in cands : r <= last
    BY Numbers
  <2> QED BY <2>1 DEF IInv, Types, TypeRec, Recorded
<1>4. TypeScan'
  <2>1. todo \in SUBSET (Recs \X Versions)
    BY <1>3
  <2>2. scan' \in [at : {"idle", "count", "list", "enqueue"},
                   todo : SUBSET (Recs \X Versions), room : 0..BacklogLimit]
    <3> HIDE DEF todo
    <3> QED BY <1>1, <2>1 DEF IInv, Types, TypeScan
  <2> QED BY <2>2 DEF TypeScan, BacklogLimit
<1>5. scan'.todo = todo /\ scan'.room = scan.room
  <2> HIDE DEF todo
  <2> QED BY <1>1 DEF IInv, Types, TypeScan
<1>6. Scanned'
  <2>1. \A c \in todo : c[1] <= last /\ c[2] <= footage[c[1]]
    BY <1>3, Numbers
  <2> HIDE DEF todo
  <2> QED BY <1>1, <1>5, <2>1 DEF Scanned, recVars
<1>7. Capped'
  <2>1. Fresh' = Fresh
    BY <1>1 DEF Fresh, With, boxVars
  <2> HIDE DEF todo
  <2> QED BY <1>1, <1>5, <2>1 DEF IInv, Capped, BacklogLimit
<1> QED BY <1>2, <1>4, <1>6, <1>7 DEF IInv, Types

LEMMA EnqueueStep ==
    ASSUME IInv, Enqueue, UNCHANGED setup
    PROVE  IInv'
<1>1. PICK c \in scan.todo :
        IF status[c[1]] # "none"
        THEN scan' = [scan EXCEPT !.todo = @ \ {c}] /\ UNCHANGED boxVars
        ELSE /\ scan' = [scan EXCEPT !.todo = @ \ {c}, !.room = @ - 1]
             /\ id' = [id EXCEPT ![c[1]] = NumRecs + 1 - Cardinality(With({"none"}))]
             /\ status' = [status EXCEPT ![c[1]] = "pending"]
             /\ path' = [path EXCEPT ![c[1]] = c[2]]
             /\ UNCHANGED uploaded
  BY DEF Enqueue
<1>2. /\ scan.at = "enqueue" /\ scan.room > 0
      /\ UNCHANGED <<recVars, remote, workVars, evict, countVars>>
  BY DEF Enqueue
<1> DEFINE r == c[1]
<1>3. r \in Recs /\ r <= last /\ c[2] \in Versions /\ c[2] <= footage[r]
  BY DEF IInv, Types, TypeScan, Scanned
<1>4. CASE status[r] # "none"
  <2>1. scan' = [scan EXCEPT !.todo = @ \ {c}] /\ UNCHANGED boxVars
    BY <1>1, <1>4
  <2>2. TypeRec' /\ TypeBox' /\ TypeRemote' /\ TypeWork' /\ TypeEvict' /\ TypeCount'
           /\ Recorded' /\ Boxed' /\ Held' /\ OneUploader' /\ Again' /\ Stored' /\ Verified'
           /\ Listed' /\ Kept' /\ SkippedIsGone'
    BY <1>2, <2>1, Frame DEF recVars, boxVars, workVars, countVars
  <2>3. TypeScan'
    BY <2>1 DEF IInv, Types, TypeScan, BacklogLimit
  <2>4. scan'.todo \subseteq scan.todo /\ scan'.room = scan.room /\ scan'.at = scan.at
    BY <2>1 DEF IInv, Types, TypeScan
  <2>5. Scanned'
    BY <1>2, <2>4 DEF IInv, Scanned, recVars
  <2>6. Fresh' = Fresh
    BY <2>1 DEF Fresh, With, boxVars
  <2>7. Capped'
    BY <2>4, <2>6 DEF IInv, Capped, BacklogLimit
  <2> QED BY <2>2, <2>3, <2>5, <2>7 DEF IInv, Types
<1>5. CASE status[r] = "none"
  <2> DEFINE n == NumRecs + 1 - Cardinality(With({"none"}))
  <2>1. /\ scan' = [scan EXCEPT !.todo = @ \ {c}, !.room = @ - 1]
        /\ id' = [id EXCEPT ![r] = n]
        /\ status' = [status EXCEPT ![r] = "pending"]
        /\ path' = [path EXCEPT ![r] = c[2]] /\ uploaded' = uploaded
    BY <1>1, <1>5
  <2>2. n \in 0..NumRecs
    <3>1. r \in With({"none"}) /\ With({"none"}) \subseteq Recs /\ NumRecs \in Nat
      BY <1>3, <1>5, Numbers DEF With
    <3>2. Cardinality({r}) <= Cardinality(With({"none"})) /\ Cardinality(With({"none"})) \in Nat
             /\ Cardinality(With({"none"})) <= NumRecs
      BY <3>1, RecsFinite
    <3>3. Cardinality({r}) = 1
      BY FS_Singleton
    <3> QED BY <3>1, <3>2, <3>3
  <2>3. \A q \in Recs : q # r => id'[q] = id[q] /\ status'[q] = status[q] /\ path'[q] = path[q]
    BY <2>1 DEF IInv, Types, TypeBox
  <2>4. status'[r] = "pending" /\ path'[r] = c[2] /\ uploaded[r] = None
    BY <1>3, <1>5, <2>1 DEF IInv, Types, TypeBox, Boxed
  <2>5. \A w \in Workers : hand[w] \subseteq Recs /\ r \notin hand[w]
    BY <1>5 DEF IInv, Types, TypeWork, Held
  <2>6. TypeRec' /\ TypeRemote' /\ TypeWork' /\ TypeEvict' /\ TypeCount'
           /\ OneUploader' /\ Listed' /\ Kept'
    BY <1>2, <2>1, Frame DEF recVars, boxVars, workVars, countVars
  <2>7. TypeBox'
    <3> HIDE DEF n
    <3> QED BY <1>3, <2>1, <2>2 DEF IInv, Types, TypeBox, Statuses
  <2>8. /\ scan'.todo \subseteq scan.todo /\ scan'.room = scan.room - 1 /\ scan'.at = scan.at
        /\ scan.room \in Nat
    BY <2>1, SetupFacts DEF IInv, Types, TypeScan
  <2>9. TypeScan'
    <3>1. scan.room - 1 \in 0..BacklogLimit
      BY <1>2, SetupFacts DEF IInv, Types, TypeScan
    <3> QED BY <2>1, <3>1 DEF IInv, Types, TypeScan, BacklogLimit
  <2>10. Recorded'
    <3>1. ~(r > last)
      BY <1>3, Numbers
    <3> QED BY <1>2, <2>3, <3>1 DEF IInv, Recorded, recVars
  <2>11. Boxed'
    BY <1>2, <1>3, <2>1, <2>3, <2>4 DEF IInv, Boxed, With, recVars
  <2>12. Scanned'
    BY <1>2, <2>8 DEF IInv, Scanned, recVars
  <2>13. \A w \in Workers : Item(w)' = Item(w)
    BY <1>2, <2>3, <2>5, SameItem DEF workVars
  <2>14. Held'
    <3>1. \A w \in Workers : at[w] # "idle" => Item(w) \in Recs /\ Item(w) # r
      BY <2>5, ItemIn DEF IInv, Held
    <3>2. \A w \in Workers : at[w] # "idle" => path'[Item(w)] = path[Item(w)]
      BY <2>3, <3>1
    <3>3. \A w \in Workers : at[w] \in {"open", "put", "head", "mark"} => size[w] = path'[Item(w)]
      BY <3>2 DEF IInv, Held
    <3> QED BY <1>2, <2>3, <2>5, <2>13, <3>3 DEF IInv, Held, Workers, workVars
  <2>15. Again'
    BY <1>2, <2>1, <2>3, <2>4 DEF IInv, Again, Workers, workVars, recVars
  <2>16. Stored' /\ Verified'
    BY <1>2, <2>1, <2>13 DEF IInv, Stored, Verified, Workers, workVars, recVars, countVars
  <2>17. SkippedIsGone'
    BY <1>2, <2>3, <2>4 DEF IInv, SkippedIsGone, With, recVars
  <2>18. Capped'
    <3>1. Fresh' = Fresh \cup {r} /\ r \notin Fresh
      BY <1>3, <1>5, <2>1, <2>3, <2>4 DEF Fresh, With
    <3>2. IsFiniteSet(Fresh) /\ Cardinality(Fresh) \in Nat
      BY RecsFinite DEF Fresh, With
    <3>3. Cardinality(Fresh') = Cardinality(Fresh) + 1
      BY <3>1, <3>2, FS_AddElement
    <3>4. BacklogLimit' = BacklogLimit /\ BacklogLimit \in Nat
      BY SetupFacts DEF BacklogLimit, IInv, Types
    <3>5. Cardinality(Fresh) + scan.room <= BacklogLimit
      BY <1>2 DEF IInv, Capped
    <3> QED BY <1>2, <2>8, <3>2, <3>3, <3>4, <3>5 DEF Capped
  <2> QED BY <2>6, <2>7, <2>9, <2>10, <2>11, <2>12, <2>14, <2>15, <2>16, <2>17, <2>18 DEF IInv, Types
<1> QED BY <1>4, <1>5

LEMMA ScanEndsStep ==
    ASSUME IInv, ScanEnds, UNCHANGED setup
    PROVE  IInv'
<1>1. scan' = NoScan /\ UNCHANGED <<recVars, boxVars, remote, workVars, evict, countVars>>
  BY DEF ScanEnds
<1>2. TypeRec' /\ TypeBox' /\ TypeRemote' /\ TypeWork' /\ TypeEvict' /\ TypeCount'
         /\ Recorded' /\ Boxed' /\ Held' /\ OneUploader' /\ Again' /\ Stored' /\ Verified'
         /\ Listed' /\ Kept' /\ SkippedIsGone'
  BY <1>1, Frame DEF recVars, boxVars, workVars, countVars
<1>3. Fresh' = Fresh
  BY <1>1 DEF Fresh, With, boxVars
<1>4. BacklogLimit' \in Nat
  BY SetupFacts DEF IInv, Types, BacklogLimit
<1>5. TypeScan' /\ Scanned' /\ Capped'
  BY <1>1, <1>3, <1>4 DEF IInv, Capped, Scanned, TypeScan, NoScan, BacklogLimit
<1> QED BY <1>2, <1>5 DEF IInv, Types

-----------------------------------------------------------------------------
\* The workers.
LEMMA ClaimStep ==
    ASSUME IInv, NEW w \in Workers, Claim(w), UNCHANGED setup
    PROVE  IInv'
<1> DEFINE S == Oldest(ClaimBatch)
<1>1. /\ at[w] = "idle" /\ With({"pending"}) # {}
      /\ hand' = [hand EXCEPT ![w] = S] /\ at' = [at EXCEPT ![w] = "stat"]
      /\ status' = [r \in Recs |-> IF r \in S THEN "uploading" ELSE status[r]]
      /\ UNCHANGED <<recVars, id, path, uploaded, remote, scan, size, evict, countVars>>
  BY DEF Claim
<1>2. \A r \in S : r \in Recs /\ status[r] = "pending"
  BY DEF Oldest, With
<1>3. S # {}
  <2>1. \A r \in Recs : id[r] \in Nat
    BY Numbers DEF IInv, Types, TypeBox
  <2> DEFINE ids == {id[r] : r \in With({"pending"})}
  <2>2. ids \subseteq Nat /\ ids # {}
    BY <1>1, <2>1 DEF With
  <2>3. PICK x \in ids : \A y \in ids : ~ (<<y, x>> \in OpToRel(<, Nat))
    BY <2>2, NatLessThanWellFounded, WFMin
  <2>4. PICK r \in With({"pending"}) : id[r] = x
    BY <2>3
  <2>5. {q \in With({"pending"}) : id[q] < id[r]} = {}
    BY <2>2, <2>3, <2>4 DEF OpToRel
  <2>6. ClaimBatch > 0 /\ Cardinality({}) = 0
    BY SetupFacts, FS_EmptySet DEF IInv, Types
  <2>7. r \in S
    BY <2>4, <2>5, <2>6 DEF Oldest
  <2> QED BY <2>7
<1>4. TypeRec' /\ TypeRemote' /\ TypeScan' /\ TypeEvict' /\ TypeCount' /\ Listed' /\ Kept'
         /\ Scanned'
  BY <1>1, Frame DEF recVars, countVars
<1> HIDE DEF S
<1>5. TypeBox'
  BY <1>1 DEF IInv, Types, TypeBox, Statuses
<1>6. TypeWork'
  BY <1>1, <1>2 DEF IInv, Types, TypeWork, Workers
<1>7. Recorded' /\ Boxed'
  BY <1>1, <1>2 DEF IInv, Recorded, Boxed, With, recVars
<1>8. \A v \in Workers : v # w => hand'[v] = hand[v] /\ at'[v] = at[v] /\ Item(v)' = Item(v)
  BY <1>1, SameItem DEF IInv, Types, TypeWork
<1>9. hand'[w] = S /\ at'[w] = "stat" /\ \A v \in Workers : hand[v] \cap S = {}
  BY <1>1, <1>2 DEF IInv, Types, TypeWork, Held
<1>10. Held'
  <2>1. \A v \in Workers : \A r \in hand'[v] : status'[r] \in {"uploading", "evicted"}
    BY <1>1, <1>2, <1>8, <1>9 DEF IInv, Held, Types, TypeWork
  <2> QED BY <1>1, <1>3, <1>8, <1>9, <2>1 DEF IInv, Held, Workers
<1>11. OneUploader'
  BY <1>8, <1>9 DEF IInv, OneUploader, Workers
<1>12. Again'
  <2>1. \A r \in Recs : (\E v \in Workers : r \in hand'[v]) => r \in S \/ \E v \in Workers : r \in hand[v]
    BY <1>8, <1>9
  <2>2. \A r \in Recs : status'[r] \in {"pending", "uploading"} => status[r] \in {"pending", "uploading"}
    BY <1>1, <1>2
  <2> QED BY <1>1, <1>2, <2>1, <2>2 DEF IInv, Again, Workers, recVars
<1>13. Stored' /\ Verified'
  BY <1>1, <1>8, <1>9 DEF IInv, Stored, Verified, Workers, recVars, countVars
<1>14. SkippedIsGone'
  BY <1>1, <1>2 DEF IInv, SkippedIsGone, With, recVars
<1>15. Capped'
  <2>1. Fresh' = Fresh
    BY <1>1, <1>2 DEF Fresh, With
  <2> QED BY <1>1, <2>1 DEF IInv, Capped, BacklogLimit
<1> QED BY <1>4, <1>5, <1>6, <1>7, <1>10, <1>11, <1>12, <1>13, <1>14, <1>15 DEF IInv, Types

\* A worker goes on with its row.
LEMMA ToStep ==
    ASSUME IInv, NEW w \in Workers, at[w] # "idle", NEW place \in {"open", "put", "head", "mark"},
           To(w, place), UNCHANGED <<setup, recVars, boxVars>>
    PROVE  /\ \A v \in Workers : hand'[v] = hand[v] /\ Item(v)' = Item(v)
           /\ \A v \in Workers : v # w => at'[v] = at[v]
           /\ at'[w] = place
           /\ Recorded' /\ Boxed' /\ OneUploader' /\ Again' /\ SkippedIsGone' /\ TypeRec' /\ TypeBox'
<1>1. at' = [at EXCEPT ![w] = place] /\ hand' = hand
  BY DEF To
<1>2. \A v \in Workers : Item(v)' = Item(v)
  BY <1>1, SameItem DEF boxVars
<1>3. Recorded' /\ Boxed' /\ SkippedIsGone' /\ TypeRec' /\ TypeBox'
  BY Frame DEF recVars, boxVars
<1>4. OneUploader' /\ Again'
  BY <1>1 DEF IInv, OneUploader, Again, Workers, recVars, boxVars
<1> QED BY <1>1, <1>2, <1>3, <1>4 DEF IInv, Types, TypeWork

\* A worker is done with its row, whatever the outbox says of it then.
LEMMA DoneStep ==
    ASSUME IInv, NEW w \in Workers, at[w] # "idle", Done(w), UNCHANGED <<setup, id, path>>,
           \A r \in Recs : r # Item(w) => status'[r] = status[r] /\ remote'[r] = remote[r]
    PROVE  /\ TypeWork' /\ Held' /\ OneUploader'
           /\ \A v \in Workers : hand'[v] \subseteq hand[v] \ {Item(w)}
           /\ gone' = gone => Verified'
<1> DEFINE i == Item(w)
<1>1. /\ hand' = [hand EXCEPT ![w] = @ \ {i}]
      /\ at' = [at EXCEPT ![w] = IF hand[w] = {i} THEN "idle" ELSE "stat"]
      /\ size' = [size EXCEPT ![w] = None]
  BY DEF Done
<1>2. i \in hand[w] /\ \A v \in Workers : v # w => i \notin hand[v]
  BY AtWork DEF IInv, OneUploader
<1>3. /\ hand'[w] = hand[w] \ {i} /\ at'[w] \in {"idle", "stat"} /\ (at'[w] = "idle" <=> hand'[w] = {})
      /\ \A v \in Workers : v # w => hand'[v] = hand[v] /\ at'[v] = at[v] /\ size'[v] = size[v]
  BY <1>1, <1>2 DEF IInv, Types, TypeWork
<1>4. TypeWork'
  BY <1>1 DEF IInv, Types, TypeWork, Workers
<1>5. \A v \in Workers : hand[v] \subseteq Recs
  BY DEF IInv, Types, TypeWork
<1>6. \A v \in Workers : hand'[v] \subseteq hand[v] \ {i}
  BY <1>2, <1>3
<1>7. \A v \in Workers : v # w => Item(v)' = Item(v)
  BY <1>3, SameItem
<1>8. Held'
  <2>1. \A v \in Workers : \A r \in hand'[v] : status'[r] \in {"uploading", "evicted"}
    BY <1>5, <1>6 DEF IInv, Held
  <2>2. \A v \in Workers : at'[v] = "idle" <=> hand'[v] = {}
    BY <1>3 DEF IInv, Held
  <2>3. \A v \in Workers : at'[v] \in {"open", "put", "head", "mark"} => size'[v] = path[Item(v)']
    BY <1>3, <1>7 DEF IInv, Held
  <2> QED BY <2>1, <2>2, <2>3 DEF Held, Workers
<1>9. OneUploader'
  BY <1>6 DEF IInv, OneUploader, Workers
<1>10. gone' = gone => Verified'
  <2>1. \A v \in Workers : v # w /\ at[v] # "idle" => Item(v) \in Recs /\ Item(v) # i
    BY <1>2, AtWork
  <2> QED BY <1>3, <1>7, <2>1 DEF IInv, Verified, Workers
<1> QED BY <1>4, <1>6, <1>8, <1>9, <1>10

\* A row is put back, skipped, or left as it is.
LEMMA MarkStep ==
    ASSUME IInv, NEW w \in Workers, at[w] # "idle", Done(w),
           UNCHANGED <<setup, recVars, id, path, uploaded, scan>>,
           \A r \in Recs : r # Item(w) => remote'[r] = remote[r],
           NEW new \in {"pending", "skipped"} \cup {status[Item(w)]},
           status' = [status EXCEPT ![Item(w)] = new]
    PROVE  /\ TypeRec' /\ TypeBox' /\ TypeScan' /\ TypeWork'
           /\ Recorded' /\ Boxed' /\ Scanned' /\ Held' /\ OneUploader' /\ Again' /\ Capped'
           /\ gone' = gone => Verified'
           /\ new # "skipped" => SkippedIsGone'
<1> DEFINE i == Item(w)
<1>1. /\ i \in Recs /\ status[i] \in {"uploading", "evicted"} /\ i \in hand[w]
      /\ path[i] \in Versions /\ path[i] <= footage[i]
      /\ uploaded[i] # None => footage[i] > uploaded[i]
  BY AtWork
<1>2. status'[i] = new /\ \A r \in Recs : r # i => status'[r] = status[r]
  BY <1>1 DEF IInv, Types, TypeBox
<1>3. TypeWork' /\ Held' /\ OneUploader' /\ (gone' = gone => Verified')
         /\ \A v \in Workers : hand'[v] \subseteq hand[v] \ {i}
  BY <1>2, DoneStep
<1>4. TypeRec' /\ TypeScan' /\ Scanned'
  BY Frame DEF recVars
<1>5. TypeBox'
  BY <1>1 DEF IInv, Types, TypeBox, Statuses
<1>6. Recorded' /\ Boxed'
  BY <1>1, <1>2 DEF IInv, Recorded, Boxed, With, recVars
<1>7. Again'
  BY <1>1, <1>2, <1>3 DEF IInv, Again, Workers, recVars
<1>8. new # "skipped" => SkippedIsGone'
  BY <1>1, <1>2 DEF IInv, SkippedIsGone, With, recVars
<1>9. Capped'
  <2>1. status[i] = "evicted" => uploaded[i] # None
    BY <1>1 DEF IInv, Boxed, With
  <2>2. Fresh' \subseteq Fresh /\ Fresh \subseteq Recs
    BY <1>1, <1>2, <2>1 DEF Fresh, With
  <2>3. Cardinality(Fresh') <= Cardinality(Fresh) /\ Cardinality(Fresh) \in Nat
           /\ Cardinality(Fresh') \in Nat
    BY <2>2, RecsFinite
  <2>4. BacklogLimit' = BacklogLimit /\ BacklogLimit \in Nat /\ scan.room \in Nat
    BY SetupFacts DEF BacklogLimit, IInv, Types, TypeScan
  <2> QED BY <2>3, <2>4 DEF IInv, Capped
<1> QED BY <1>3, <1>4, <1>5, <1>6, <1>7, <1>8, <1>9

\* A request changes only the object of a row at work: what counts as stored is
\* no such row's.
LEMMA RemoteStep ==
    ASSUME IInv, NEW w \in Workers, at[w] # "idle", NEW x \in Versions \cup {None},
           remote' = [remote EXCEPT ![Item(w)] = x],
           UNCHANGED <<setup, recVars, uploaded, evict, gone>>
    PROVE  /\ TypeRemote' /\ Stored' /\ Listed' /\ Kept'
           /\ remote'[Item(w)] = x
           /\ \A r \in Recs : r # Item(w) => remote'[r] = remote[r]
<1> DEFINE i == Item(w)
<1>1. i \in Recs /\ (uploaded[i] # None => footage[i] > uploaded[i])
  BY AtWork
<1>2. remote'[i] = x /\ \A r \in Recs : r # i => remote'[r] = remote[r]
  BY <1>1 DEF IInv, Types, TypeRemote
<1>3. TypeRemote'
  BY <1>1 DEF IInv, Types, TypeRemote
<1>4. Stored'
  BY <1>1, <1>2, Numbers DEF IInv, Stored, recVars
<1>5. Listed'
  BY <1>1, <1>2 DEF IInv, Listed, Evictors, recVars
<1>6. Kept'
  <2>1. path[i] \in Versions /\ path[i] <= footage[i]
    BY AtWork
  <2>2. uploaded[i] # footage[i] /\ 1..last \subseteq Recs
    BY <1>1, <2>1, Numbers
  <2> QED BY <1>1, <1>2, <2>2 DEF IInv, Kept, recVars
<1> QED BY <1>2, <1>3, <1>4, <1>5, <1>6

LEMMA StatOkStep ==
    ASSUME IInv, NEW w \in Workers, StatOk(w), UNCHANGED setup
    PROVE  IInv'
<1>1. /\ at[w] = "stat" /\ To(w, "open") /\ size' = [size EXCEPT ![w] = path[Item(w)]]
      /\ UNCHANGED <<recVars, boxVars, remote, scan, evict, countVars>>
  BY DEF StatOk
<1>2. /\ \A v \in Workers : hand'[v] = hand[v] /\ Item(v)' = Item(v)
      /\ \A v \in Workers : v # w => at'[v] = at[v]
      /\ at'[w] = "open"
      /\ Recorded' /\ Boxed' /\ OneUploader' /\ Again' /\ SkippedIsGone' /\ TypeRec' /\ TypeBox'
  BY <1>1, ToStep
<1>3. TypeRemote' /\ TypeScan' /\ TypeEvict' /\ TypeCount' /\ Scanned' /\ Stored' /\ Listed'
         /\ Kept' /\ Capped'
  BY <1>1, Frame DEF recVars, boxVars, countVars
<1>4. Item(w) \in Recs
  BY <1>1, AtWork
<1>5. TypeWork'
  BY <1>1, <1>4 DEF IInv, Types, TypeWork, TypeBox, Workers, To
<1>6. size'[w] = path[Item(w)] /\ \A v \in Workers : v # w => size'[v] = size[v]
  BY <1>1 DEF IInv, Types, TypeWork
<1>7. Held' /\ Verified'
  BY <1>1, <1>2, <1>6 DEF IInv, Held, Verified, Workers, boxVars, countVars
<1> QED BY <1>2, <1>3, <1>5, <1>7 DEF IInv, Types

LEMMA OpenOkStep ==
    ASSUME IInv, NEW w \in Workers, OpenOk(w), UNCHANGED setup
    PROVE  IInv'
<1>1. /\ at[w] = "open" /\ To(w, "put")
      /\ UNCHANGED <<recVars, boxVars, remote, scan, size, evict, countVars>>
  BY DEF OpenOk
<1>2. /\ \A v \in Workers : hand'[v] = hand[v] /\ Item(v)' = Item(v)
      /\ \A v \in Workers : v # w => at'[v] = at[v]
      /\ at'[w] = "put"
      /\ Recorded' /\ Boxed' /\ OneUploader' /\ Again' /\ SkippedIsGone' /\ TypeRec' /\ TypeBox'
  BY <1>1, ToStep
<1>3. TypeRemote' /\ TypeScan' /\ TypeEvict' /\ TypeCount' /\ Scanned' /\ Stored' /\ Listed'
         /\ Kept' /\ Capped'
  BY <1>1, Frame DEF recVars, boxVars, countVars
<1>4. TypeWork'
  BY <1>1 DEF IInv, Types, TypeWork, Workers, To
<1>5. Held' /\ Verified'
  BY <1>1, <1>2 DEF IInv, Held, Verified, Workers, boxVars, countVars
<1> QED BY <1>2, <1>3, <1>4, <1>5 DEF IInv, Types

LEMMA HeadOkStep ==
    ASSUME IInv, NEW w \in Workers, HeadOk(w), UNCHANGED setup
    PROVE  IInv'
<1>1. /\ at[w] = "head" /\ remote[Item(w)] = size[w] /\ To(w, "mark")
      /\ UNCHANGED <<recVars, boxVars, remote, scan, size, evict, countVars>>
  BY DEF HeadOk
<1>2. /\ \A v \in Workers : hand'[v] = hand[v] /\ Item(v)' = Item(v)
      /\ \A v \in Workers : v # w => at'[v] = at[v]
      /\ at'[w] = "mark"
      /\ Recorded' /\ Boxed' /\ OneUploader' /\ Again' /\ SkippedIsGone' /\ TypeRec' /\ TypeBox'
  BY <1>1, ToStep
<1>3. TypeRemote' /\ TypeScan' /\ TypeEvict' /\ TypeCount' /\ Scanned' /\ Stored' /\ Listed'
         /\ Kept' /\ Capped'
  BY <1>1, Frame DEF recVars, boxVars, countVars
<1>4. TypeWork'
  BY <1>1 DEF IInv, Types, TypeWork, Workers, To
<1>5. Held' /\ Verified'
  BY <1>1, <1>2 DEF IInv, Held, Verified, Workers, boxVars, countVars
<1> QED BY <1>2, <1>3, <1>4, <1>5 DEF IInv, Types

\* An object is written, whole or not.
LEMMA PutStep ==
    ASSUME IInv, NEW w \in Workers, at[w] = "put", To(w, "head"), NEW x \in Versions \cup {None},
           remote' = [remote EXCEPT ![Item(w)] = x],
           UNCHANGED <<setup, recVars, boxVars, scan, size, evict, gone>>, TypeCount'
    PROVE  IInv'
<1>1. /\ \A v \in Workers : hand'[v] = hand[v] /\ Item(v)' = Item(v)
      /\ \A v \in Workers : v # w => at'[v] = at[v]
      /\ at'[w] = "head"
      /\ Recorded' /\ Boxed' /\ OneUploader' /\ Again' /\ SkippedIsGone' /\ TypeRec' /\ TypeBox'
  BY ToStep
<1>2. TypeScan' /\ TypeEvict' /\ Scanned' /\ Capped'
  BY Frame DEF recVars, boxVars
<1>3. TypeRemote' /\ Stored' /\ Listed' /\ Kept'
         /\ \A r \in Recs : r # Item(w) => remote'[r] = remote[r]
  BY RemoteStep DEF boxVars
<1>4. TypeWork'
  BY DEF IInv, Types, TypeWork, Workers, To
<1>5. Held'
  BY <1>1 DEF IInv, Held, Workers, boxVars
<1>6. Verified'
  <2>1. \A v \in Workers : at[v] = "mark" => Item(v) \in Recs /\ Item(v) # Item(w)
    BY AtWork DEF IInv, Held
  <2> QED BY <1>1, <1>3, <2>1 DEF IInv, Verified, Workers
<1> QED BY <1>1, <1>2, <1>3, <1>4, <1>5, <1>6 DEF IInv, Types

LEMMA PutOkStep ==
    ASSUME IInv, NEW w \in Workers, PutOk(w), UNCHANGED setup
    PROVE  IInv'
<1>1. size[w] \in Versions \cup {None} /\ TypeCount'
  BY DEF PutOk, countVars, IInv, Types, TypeWork, TypeCount
<1> QED BY <1>1, PutStep DEF PutOk, countVars

LEMMA PutGhostStep ==
    ASSUME IInv, NEW w \in Workers, PutGhost(w), UNCHANGED setup
    PROVE  IInv'
<1>1. size[w] = path[Item(w)] /\ path[Item(w)] \in Versions
  BY AtWork DEF PutGhost, IInv, Held
<1>2. size[w] - 1 \in Versions \cup {None}
  BY <1>1, Numbers
<1>3. TypeCount' /\ gone' = gone
  BY SetupFacts DEF PutGhost, OneFails, IInv, Types, TypeCount
<1> QED BY <1>2, <1>3, PutStep DEF PutGhost

LEMMA StatFailsStep ==
    ASSUME IInv, NEW w \in Workers, StatFails(w), UNCHANGED setup
    PROVE  IInv'
<1>1. /\ at[w] = "stat" /\ Done(w) /\ status' = [status EXCEPT ![Item(w)] = "pending"]
      /\ UNCHANGED <<recVars, id, path, uploaded, remote, scan, evict>>
  BY DEF StatFails, Mark
<1>2. TypeCount' /\ gone' = gone
  BY SetupFacts DEF StatFails, OneFails, IInv, Types, TypeCount
<1>3. TypeRec' /\ TypeBox' /\ TypeScan' /\ TypeWork' /\ Recorded' /\ Boxed' /\ Scanned' /\ Held'
         /\ OneUploader' /\ Again' /\ Capped' /\ Verified' /\ SkippedIsGone'
  <2>1. "pending" # "skipped" /\ "pending" \in {"pending", "skipped"} \cup {status[Item(w)]}
    OBVIOUS
  <2> QED BY <1>1, <1>2, <2>1, MarkStep
<1>4. TypeRemote' /\ TypeEvict' /\ Listed' /\ Kept'
  BY <1>1, Frame DEF recVars
<1>5. Stored'
  BY <1>1, <1>2 DEF IInv, Stored, recVars
<1> QED BY <1>2, <1>3, <1>4, <1>5 DEF IInv, Types

LEMMA SkipStep ==
    ASSUME IInv, NEW w \in Workers, Skip(w), UNCHANGED setup
    PROVE  IInv'
<1>1. /\ at[w] = "stat" /\ ~Present(w) /\ Done(w) /\ status' = [status EXCEPT ![Item(w)] = "skipped"]
      /\ UNCHANGED <<recVars, id, path, uploaded, remote, scan, evict>>
  BY DEF Skip, Mark
<1>2. TypeCount' /\ gone' = gone
  BY DEF Skip, countVars, IInv, Types, TypeCount
<1>3. TypeRec' /\ TypeBox' /\ TypeScan' /\ TypeWork' /\ Recorded' /\ Boxed' /\ Scanned' /\ Held'
         /\ OneUploader' /\ Again' /\ Capped' /\ Verified'
  BY <1>1, <1>2, MarkStep
<1>4. TypeRemote' /\ TypeEvict' /\ Listed' /\ Kept'
  BY <1>1, Frame DEF recVars
<1>5. Stored'
  BY <1>1, <1>2 DEF IInv, Stored, recVars
<1>6. SkippedIsGone'
  <2>1. path[Item(w)] \notin disk[Item(w)]
    BY <1>1 DEF Present
  <2>2. \A r \in Recs : r # Item(w) => status'[r] = status[r]
    BY <1>1
  <2> QED BY <1>1, <2>1, <2>2 DEF IInv, SkippedIsGone, With, recVars
<1> QED BY <1>2, <1>3, <1>4, <1>5, <1>6 DEF IInv, Types

LEMMA OpenFailsStep ==
    ASSUME IInv, NEW w \in Workers, OpenFails(w), UNCHANGED setup
    PROVE  IInv'
<1>1. /\ at[w] = "open" /\ Done(w) /\ status' = [status EXCEPT ![Item(w)] = "pending"]
      /\ UNCHANGED <<recVars, id, path, uploaded, remote, scan, evict>>
  BY DEF OpenFails, Mark
<1>2. TypeCount' /\ gone' = gone
  BY DEF OpenFails, countVars, IInv, Types, TypeCount
<1>3. TypeRec' /\ TypeBox' /\ TypeScan' /\ TypeWork' /\ Recorded' /\ Boxed' /\ Scanned' /\ Held'
         /\ OneUploader' /\ Again' /\ Capped' /\ Verified' /\ SkippedIsGone'
  <2>1. "pending" # "skipped" /\ "pending" \in {"pending", "skipped"} \cup {status[Item(w)]}
    OBVIOUS
  <2> QED BY <1>1, <1>2, <2>1, MarkStep
<1>4. TypeRemote' /\ TypeEvict' /\ Listed' /\ Kept'
  BY <1>1, Frame DEF recVars
<1>5. Stored'
  BY <1>1, <1>2 DEF IInv, Stored, recVars
<1> QED BY <1>2, <1>3, <1>4, <1>5 DEF IInv, Types

LEMMA HeadRefusesStep ==
    ASSUME IInv, NEW w \in Workers, HeadRefuses(w), UNCHANGED setup
    PROVE  IInv'
<1>1. /\ at[w] = "head" /\ Done(w) /\ status' = [status EXCEPT ![Item(w)] = "pending"]
      /\ UNCHANGED <<recVars, id, path, uploaded, remote, scan, evict>>
  BY DEF HeadRefuses, Mark
<1>2. TypeCount' /\ gone' = gone
  BY DEF HeadRefuses, countVars, IInv, Types, TypeCount
<1>3. TypeRec' /\ TypeBox' /\ TypeScan' /\ TypeWork' /\ Recorded' /\ Boxed' /\ Scanned' /\ Held'
         /\ OneUploader' /\ Again' /\ Capped' /\ Verified' /\ SkippedIsGone'
  <2>1. "pending" # "skipped" /\ "pending" \in {"pending", "skipped"} \cup {status[Item(w)]}
    OBVIOUS
  <2> QED BY <1>1, <1>2, <2>1, MarkStep
<1>4. TypeRemote' /\ TypeEvict' /\ Listed' /\ Kept'
  BY <1>1, Frame DEF recVars
<1>5. Stored'
  BY <1>1, <1>2 DEF IInv, Stored, recVars
<1> QED BY <1>2, <1>3, <1>4, <1>5 DEF IInv, Types

LEMMA HeadFailsStep ==
    ASSUME IInv, NEW w \in Workers, HeadFails(w), UNCHANGED setup
    PROVE  IInv'
<1>1. /\ at[w] = "head" /\ Done(w) /\ status' = [status EXCEPT ![Item(w)] = "pending"]
      /\ UNCHANGED <<recVars, id, path, uploaded, remote, scan, evict>>
  BY DEF HeadFails, Mark
<1>2. TypeCount' /\ gone' = gone
  BY SetupFacts DEF HeadFails, OneFails, IInv, Types, TypeCount
<1>3. TypeRec' /\ TypeBox' /\ TypeScan' /\ TypeWork' /\ Recorded' /\ Boxed' /\ Scanned' /\ Held'
         /\ OneUploader' /\ Again' /\ Capped' /\ Verified' /\ SkippedIsGone'
  <2>1. "pending" # "skipped" /\ "pending" \in {"pending", "skipped"} \cup {status[Item(w)]}
    OBVIOUS
  <2> QED BY <1>1, <1>2, <2>1, MarkStep
<1>4. TypeRemote' /\ TypeEvict' /\ Listed' /\ Kept'
  BY <1>1, Frame DEF recVars
<1>5. Stored'
  BY <1>1, <1>2 DEF IInv, Stored, recVars
<1> QED BY <1>2, <1>3, <1>4, <1>5 DEF IInv, Types

LEMMA PutFailsStep ==
    ASSUME IInv, NEW w \in Workers, PutFails(w), UNCHANGED setup
    PROVE  IInv'
<1>1. /\ at[w] = "put" /\ Done(w) /\ status' = [status EXCEPT ![Item(w)] = "pending"]
      /\ UNCHANGED <<recVars, id, path, uploaded, scan, evict>>
      /\ UNCHANGED remote \/ remote' = [remote EXCEPT ![Item(w)] = size[w]]
  BY DEF PutFails, Mark
<1>2. TypeCount' /\ gone' = gone
  BY SetupFacts DEF PutFails, OneFails, IInv, Types, TypeCount
<1>3. TypeEvict'
  BY <1>1, Frame
<1>4. /\ TypeRemote' /\ Stored' /\ Listed' /\ Kept'
      /\ \A r \in Recs : r # Item(w) => remote'[r] = remote[r]
  <2>1. CASE UNCHANGED remote
    <3>1. TypeRemote' /\ Listed' /\ Kept'
      BY <1>1, <2>1, Frame DEF recVars
    <3>2. Stored'
      BY <1>1, <1>2, <2>1 DEF IInv, Stored, recVars
    <3> QED BY <2>1, <3>1, <3>2
  <2>2. CASE remote' = [remote EXCEPT ![Item(w)] = size[w]]
    <3>1. size[w] \in Versions \cup {None}
      BY DEF IInv, Types, TypeWork
    <3> QED BY <1>1, <1>2, <2>2, <3>1, RemoteStep
  <2> QED BY <1>1, <2>1, <2>2
<1>5. TypeRec' /\ TypeBox' /\ TypeScan' /\ TypeWork' /\ Recorded' /\ Boxed' /\ Scanned' /\ Held'
         /\ OneUploader' /\ Again' /\ Capped' /\ Verified' /\ SkippedIsGone'
  <2>1. "pending" # "skipped" /\ "pending" \in {"pending", "skipped"} \cup {status[Item(w)]}
    OBVIOUS
  <2> QED BY <1>1, <1>2, <1>4, <2>1, MarkStep
<1> QED BY <1>2, <1>3, <1>4, <1>5 DEF IInv, Types

LEMMA MarkFailsStep ==
    ASSUME IInv, NEW w \in Workers, MarkFails(w), UNCHANGED setup
    PROVE  IInv'
<1>1. /\ at[w] # "idle" /\ Done(w)
      /\ UNCHANGED <<recVars, boxVars, remote, scan, evict>>
  BY DEF MarkFails
<1>2. TypeCount' /\ gone' = gone
  BY SetupFacts DEF MarkFails, OneDbFails, IInv, Types, TypeCount
<1>3. status' = [status EXCEPT ![Item(w)] = status[Item(w)]] /\ status[Item(w)] # "skipped"
  BY <1>1, AtWork DEF IInv, Types, TypeBox, boxVars
<1>4. TypeRec' /\ TypeBox' /\ TypeScan' /\ TypeWork' /\ Recorded' /\ Boxed' /\ Scanned' /\ Held'
         /\ OneUploader' /\ Again' /\ Capped' /\ Verified' /\ SkippedIsGone'
  BY <1>1, <1>2, <1>3, MarkStep DEF boxVars
<1>5. TypeRemote' /\ TypeEvict' /\ Listed' /\ Kept'
  BY <1>1, Frame DEF recVars, boxVars
<1>6. Stored'
  BY <1>1, <1>2 DEF IInv, Stored, recVars, boxVars
<1> QED BY <1>2, <1>4, <1>5, <1>6 DEF IInv, Types

LEMMA MarkUploadedStep ==
    ASSUME IInv, NEW w \in Workers, MarkUploaded(w), UNCHANGED setup
    PROVE  IInv'
<1> DEFINE i == Item(w)
<1>1. /\ at[w] = "mark" /\ Done(w) /\ status' = [status EXCEPT ![i] = "uploaded"]
      /\ uploaded' = [uploaded EXCEPT ![i] = size[w]]
      /\ UNCHANGED <<recVars, id, path, remote, scan, evict, countVars>>
  BY DEF MarkUploaded, Mark
<1>2. /\ i \in Recs /\ status[i] \in {"uploading", "evicted"} /\ size[w] = path[i]
      /\ path[i] \in Versions /\ path[i] <= footage[i]
      /\ uploaded[i] # None => footage[i] > uploaded[i] /\ uploaded[i] = path[i]
  BY <1>1, AtWork DEF IInv, Held, Boxed
<1>3. /\ status'[i] = "uploaded" /\ uploaded'[i] = path[i] /\ path[i] # None
      /\ \A r \in Recs : r # i => status'[r] = status[r] /\ uploaded'[r] = uploaded[r]
  BY <1>1, <1>2, Numbers DEF IInv, Types, TypeBox
<1>4. TypeWork' /\ Held' /\ OneUploader' /\ Verified'
         /\ \A v \in Workers : hand'[v] \subseteq hand[v] \ {i}
  BY <1>1, <1>3, DoneStep DEF countVars
<1>5. TypeRec' /\ TypeRemote' /\ TypeScan' /\ TypeEvict' /\ TypeCount' /\ Scanned'
  BY <1>1, Frame DEF recVars, countVars
<1>6. TypeBox'
  BY <1>1, <1>2 DEF IInv, Types, TypeBox, Statuses
<1>7. Recorded' /\ Boxed'
  BY <1>1, <1>2, <1>3 DEF IInv, Recorded, Boxed, With, recVars
<1>8. Again'
  BY <1>1, <1>3, <1>4 DEF IInv, Again, Workers, recVars
<1>9. Stored'
  <2>1. gone = 0 => remote[i] = path[i]
    BY <1>1, <1>2 DEF IInv, Verified
  <2> QED BY <1>1, <1>2, <1>3, <2>1, Numbers DEF IInv, Stored, recVars, countVars
<1>10. \A r \in Recs : uploaded[r] # None => uploaded'[r] = uploaded[r]
  BY <1>2, <1>3
<1>11. Listed'
  <2>1. \A e \in Evictors : \A it \in evict[e].todo : it[1] \in Recs
    BY Numbers DEF IInv, Types, TypeEvict, Items, NoItem
  <2> QED BY <1>1, <1>10, <2>1 DEF IInv, Listed, Evictors, recVars
<1>12. Kept'
  <2>1. 1..last \subseteq Recs
    BY Numbers
  <2>2. uploaded[i] # None => footage[i] # path[i]
    BY <1>2, Numbers
  <2> QED BY <1>1, <1>3, <2>1, <2>2 DEF IInv, Kept, recVars
<1>13. SkippedIsGone'
  BY <1>1, <1>3 DEF IInv, SkippedIsGone, With, recVars
<1>14. Capped'
  <2>1. Fresh' \subseteq Fresh /\ Fresh \subseteq Recs
    BY <1>3 DEF Fresh, With
  <2>2. Cardinality(Fresh') <= Cardinality(Fresh) /\ Cardinality(Fresh) \in Nat
           /\ Cardinality(Fresh') \in Nat
    BY <2>1, RecsFinite
  <2>3. BacklogLimit' = BacklogLimit /\ BacklogLimit \in Nat /\ scan.room \in Nat
    BY SetupFacts DEF BacklogLimit, IInv, Types, TypeScan
  <2> QED BY <1>1, <2>2, <2>3 DEF IInv, Capped
<1> QED BY <1>4, <1>5, <1>6, <1>7, <1>8, <1>9, <1>11, <1>12, <1>13, <1>14 DEF IInv, Types

-----------------------------------------------------------------------------
\* The evictors.

\* An evictor goes on with less of its list, or with none.
LEMMA EvictorStep ==
    ASSUME IInv, NEW e \in Evictors, NEW x \in
              [at : {"idle", "head", "remove", "row", "mark"}, item : Items \cup {NoItem},
               todo : SUBSET Items],
           evict' = [evict EXCEPT ![e] = x],
           \A it \in x.todo : it[2] # None /\ uploaded[it[1]] = it[2],
           x.at \in {"remove", "row", "mark"} =>
              /\ x.item[1] \in Recs /\ x.item[2] # None /\ uploaded[x.item[1]] = x.item[2]
              /\ \/ remote[x.item[1]] >= footage[x.item[1]]
                 \/ footage[x.item[1]] > uploaded[x.item[1]],
           UNCHANGED <<setup, footage, uploaded, remote>>
    PROVE  TypeEvict' /\ Listed'
<1>1. evict'[e] = x /\ \A d \in Evictors : d # e => evict'[d] = evict[d]
  BY DEF IInv, Types, TypeEvict
<1>2. TypeEvict'
  BY DEF IInv, Types, TypeEvict, Evictors, Items, NoItem
<1>3. Listed'
  BY <1>1 DEF IInv, Listed, Evictors
<1> QED BY <1>2, <1>3

LEMMA RefuseStep ==
    ASSUME IInv, NEW e \in Evictors, NEW it, Refuse(e, it),
           UNCHANGED <<setup, footage, uploaded, remote>>
    PROVE  TypeEvict' /\ Listed'
<1>1. /\ evict[e].todo \subseteq Items
      /\ \A i \in evict[e].todo : i[2] # None /\ uploaded[i[1]] = i[2]
  BY DEF IInv, Types, TypeEvict, Listed
<1> DEFINE x == IF evict[e].todo \ {it} = {} THEN NoEvict
                ELSE [at |-> "head", item |-> NoItem, todo |-> evict[e].todo \ {it}]
<1>2. evict' = [evict EXCEPT ![e] = x]
  BY DEF Refuse, IInv, Types, TypeEvict
<1>3. /\ x \in [at : {"idle", "head", "remove", "row", "mark"}, item : Items \cup {NoItem},
                todo : SUBSET Items]
      /\ x.at \in {"idle", "head"} /\ x.todo \subseteq evict[e].todo
  BY <1>1 DEF NoEvict
<1> HIDE DEF x
<1>4. \A i \in x.todo : i[2] # None /\ uploaded[i[1]] = i[2]
  BY <1>1, <1>3
<1>5. x.at \notin {"remove", "row", "mark"}
  BY <1>3
<1> QED BY <1>2, <1>3, <1>4, <1>5, EvictorStep

LEMMA EvictListStep ==
    ASSUME IInv, NEW e \in Evictors, EvictList(e), UNCHANGED setup
    PROVE  IInv'
<1>1. PICK S \in SUBSET With({"uploaded"}) \ {{}} :
        evict' = [evict EXCEPT ![e] =
                    [at |-> "head", item |-> NoItem, todo |-> {<<r, uploaded[r]>> : r \in S}]]
  BY DEF EvictList
<1>2. UNCHANGED <<recVars, boxVars, remote, scan, workVars, countVars>>
  BY DEF EvictList
<1> DEFINE todo == {<<r, uploaded[r]>> : r \in S}
<1>3. todo \subseteq Items /\ \A it \in todo : it[2] # None /\ uploaded[it[1]] = it[2]
  BY DEF IInv, Types, TypeBox, Boxed, With, Items
<1> HIDE DEF todo
<1>4. TypeEvict' /\ Listed'
  <2> DEFINE x == [at |-> "head", item |-> NoItem, todo |-> todo]
  <2>1. /\ x \in [at : {"idle", "head", "remove", "row", "mark"}, item : Items \cup {NoItem},
                  todo : SUBSET Items]
        /\ x.at \notin {"remove", "row", "mark"} /\ x.todo = todo
    BY <1>3
  <2>2. evict' = [evict EXCEPT ![e] = x]
    BY <1>1 DEF todo
  <2> HIDE DEF x
  <2> QED BY <1>2, <1>3, <2>1, <2>2, EvictorStep DEF recVars, boxVars
<1>5. TypeRec' /\ TypeBox' /\ TypeRemote' /\ TypeScan' /\ TypeWork' /\ TypeCount'
         /\ Recorded' /\ Boxed' /\ Scanned' /\ Held' /\ OneUploader' /\ Again' /\ Stored'
         /\ Verified' /\ Kept' /\ SkippedIsGone' /\ Capped'
  BY <1>2, Frame DEF recVars, boxVars, workVars, countVars
<1> QED BY <1>4, <1>5 DEF IInv, Types

LEMMA EvictHeadOkStep ==
    ASSUME IInv, NEW e \in Evictors, EvictHeadOk(e), UNCHANGED setup
    PROVE  IInv'
<1>1. PICK it \in evict[e].todo :
        /\ remote[it[1]] # None /\ remote[it[1]] = it[2]
        /\ evict' = [evict EXCEPT ![e] = [at |-> "remove", item |-> it, todo |-> @.todo \ {it}]]
  BY DEF EvictHeadOk
<1>2. UNCHANGED <<recVars, boxVars, remote, scan, workVars, countVars>>
  BY DEF EvictHeadOk
<1>3. /\ evict[e].todo \subseteq Items /\ it \in Items
      /\ \A i \in evict[e].todo : i[2] # None /\ uploaded[i[1]] = i[2]
  BY DEF IInv, Types, TypeEvict, Listed
<1>4. it[1] \in Recs /\ remote[it[1]] = uploaded[it[1]]
  BY <1>1, <1>3 DEF Items
<1>5. remote[it[1]] >= footage[it[1]] \/ footage[it[1]] > uploaded[it[1]]
  BY <1>4, Numbers
<1>6. TypeEvict' /\ Listed'
  <2> DEFINE x == [at |-> "remove", item |-> it, todo |-> evict[e].todo \ {it}]
  <2>1. /\ x \in [at : {"idle", "head", "remove", "row", "mark"}, item : Items \cup {NoItem},
                  todo : SUBSET Items]
        /\ x.item = it /\ x.todo \subseteq evict[e].todo
    BY <1>3
  <2>2. evict' = [evict EXCEPT ![e] = x]
    BY <1>1
  <2> HIDE DEF x
  <2>3. \A i \in x.todo : i[2] # None /\ uploaded[i[1]] = i[2]
    BY <1>3, <2>1
  <2>4. x.item[1] \in Recs /\ x.item[2] # None /\ uploaded[x.item[1]] = x.item[2]
    BY <1>3, <1>4, <2>1
  <2> QED BY <1>2, <1>5, <2>1, <2>2, <2>3, <2>4, EvictorStep DEF recVars, boxVars
<1>7. TypeRec' /\ TypeBox' /\ TypeRemote' /\ TypeScan' /\ TypeWork' /\ TypeCount'
         /\ Recorded' /\ Boxed' /\ Scanned' /\ Held' /\ OneUploader' /\ Again' /\ Stored'
         /\ Verified' /\ Kept' /\ SkippedIsGone' /\ Capped'
  BY <1>2, Frame DEF recVars, boxVars, workVars, countVars
<1> QED BY <1>6, <1>7 DEF IInv, Types

LEMMA EvictRefusesStep ==
    ASSUME IInv, NEW e \in Evictors, EvictRefuses(e), UNCHANGED setup
    PROVE  IInv'
<1>1. PICK it \in evict[e].todo : Refuse(e, it)
  BY DEF EvictRefuses
<1>2. UNCHANGED <<recVars, boxVars, remote, scan, workVars, countVars>>
  BY DEF EvictRefuses
<1>3. TypeEvict' /\ Listed'
  BY <1>1, <1>2, RefuseStep DEF recVars, boxVars
<1>4. TypeRec' /\ TypeBox' /\ TypeRemote' /\ TypeScan' /\ TypeWork' /\ TypeCount'
         /\ Recorded' /\ Boxed' /\ Scanned' /\ Held' /\ OneUploader' /\ Again' /\ Stored'
         /\ Verified' /\ Kept' /\ SkippedIsGone' /\ Capped'
  BY <1>2, Frame DEF recVars, boxVars, workVars, countVars
<1> QED BY <1>3, <1>4 DEF IInv, Types

\* A failure changes nothing but the evictor and a counter.
LEMMA EvictFailStep ==
    ASSUME IInv, TypeEvict', Listed', TypeCount', gone' = gone,
           UNCHANGED <<setup, recVars, boxVars, remote, scan, workVars>>
    PROVE  IInv'
<1>1. TypeRec' /\ TypeBox' /\ TypeRemote' /\ TypeScan' /\ TypeWork'
         /\ Recorded' /\ Boxed' /\ Scanned' /\ Held' /\ OneUploader' /\ Again' /\ Stored'
         /\ Verified' /\ Kept' /\ SkippedIsGone' /\ Capped'
  BY Frame DEF recVars, boxVars, workVars
<1> QED BY <1>1 DEF IInv, Types

LEMMA EvictHeadFailsStep ==
    ASSUME IInv, NEW e \in Evictors, EvictHeadFails(e), UNCHANGED setup
    PROVE  IInv'
<1>1. PICK it \in evict[e].todo : Refuse(e, it)
  BY DEF EvictHeadFails
<1>2. TypeEvict' /\ Listed'
  BY <1>1, RefuseStep DEF EvictHeadFails, recVars, boxVars
<1>3. TypeCount' /\ gone' = gone
  BY SetupFacts, SMTT(40) DEF EvictHeadFails, OneFails, IInv, Types, TypeCount
<1> QED BY <1>2, <1>3, EvictFailStep DEF EvictHeadFails

LEMMA EvictItemFailsStep ==
    ASSUME IInv, NEW e \in Evictors, EvictItemFails(e), UNCHANGED setup
    PROVE  IInv'
<1>1. TypeEvict' /\ Listed'
  BY RefuseStep DEF EvictItemFails, recVars, boxVars
<1>2. TypeCount' /\ gone' = gone
  BY SetupFacts, SMTT(40) DEF EvictItemFails, OneFails, IInv, Types, TypeCount
<1> QED BY <1>1, <1>2, EvictFailStep DEF EvictItemFails

LEMMA EvictMarkFailsStep ==
    ASSUME IInv, NEW e \in Evictors, EvictMarkFails(e), UNCHANGED setup
    PROVE  IInv'
<1>1. evict' = [evict EXCEPT ![e] = NoEvict]
      /\ UNCHANGED <<recVars, boxVars, remote, scan, workVars>>
  BY DEF EvictMarkFails
<1>2. TypeEvict' /\ Listed'
  <2>1. NoEvict \in [at : {"idle", "head", "remove", "row", "mark"}, item : Items \cup {NoItem},
                     todo : SUBSET Items]
           /\ NoEvict.at \notin {"remove", "row", "mark"} /\ NoEvict.todo = {}
    BY DEF NoEvict
  <2> QED BY <1>1, <2>1, EvictorStep DEF recVars, boxVars
<1>3. TypeCount' /\ gone' = gone
  BY SetupFacts DEF EvictMarkFails, OneDbFails, IInv, Types, TypeCount
<1> QED BY <1>1, <1>2, <1>3, EvictFailStep

\* An evictor past its look at the object goes on to the next place.
LEMMA OnStep ==
    ASSUME IInv, NEW e \in Evictors, evict[e].at \in {"remove", "row"},
           NEW place \in {"row", "mark"}, evict' = [evict EXCEPT ![e].at = place],
           UNCHANGED <<setup, footage, uploaded, remote>>
    PROVE  TypeEvict' /\ Listed'
<1> DEFINE x == [evict[e] EXCEPT !.at = place]
<1>1. x \in [at : {"idle", "head", "remove", "row", "mark"}, item : Items \cup {NoItem},
             todo : SUBSET Items]
         /\ x.item = evict[e].item /\ x.todo = evict[e].todo /\ evict' = [evict EXCEPT ![e] = x]
  BY DEF IInv, Types, TypeEvict
<1> HIDE DEF x
<1>2. /\ \A it \in x.todo : it[2] # None /\ uploaded[it[1]] = it[2]
      /\ x.item[1] \in Recs /\ x.item[2] # None /\ uploaded[x.item[1]] = x.item[2]
      /\ remote[x.item[1]] >= footage[x.item[1]] \/ footage[x.item[1]] > uploaded[x.item[1]]
  BY <1>1 DEF IInv, Listed
<1> QED BY <1>1, <1>2, EvictorStep

LEMMA EvictRemoveStep ==
    ASSUME IInv, NEW e \in Evictors, EvictRemove(e), UNCHANGED setup
    PROVE  IInv'
<1> DEFINE r == evict[e].item[1]
<1>1. /\ evict[e].at = "remove" /\ evict' = [evict EXCEPT ![e].at = "row"]
      /\ disk' = [disk EXCEPT ![r] = @ \ {path[r]}]
      /\ UNCHANGED <<last, row, grow, footage, expired, doomed, boxVars, remote, scan, workVars, countVars>>
  BY DEF EvictRemove
<1>2. /\ r \in Recs /\ uploaded[r] # None /\ uploaded[r] = path[r] /\ uploaded[r] <= footage[r]
      /\ remote[r] >= footage[r] \/ footage[r] > uploaded[r]
  BY <1>1, Numbers DEF IInv, Listed, Boxed
<1>3. disk'[r] = disk[r] \ {path[r]} /\ \A q \in Recs : q # r => disk'[q] = disk[q]
  BY <1>1, <1>2 DEF IInv, Types, TypeRec
<1>4. TypeEvict' /\ Listed'
  BY <1>1, OnStep DEF boxVars
<1>5. TypeBox' /\ TypeRemote' /\ TypeScan' /\ TypeWork' /\ TypeCount'
         /\ Boxed' /\ Scanned' /\ Held' /\ OneUploader' /\ Again' /\ Stored'
         /\ Verified' /\ Capped'
  BY <1>1, Frame DEF boxVars, workVars, countVars
<1>6. TypeRec'
  BY <1>1, <1>2 DEF IInv, Types, TypeRec
<1>7. Recorded'
  <2>1. grow[r].at = "written" => grow[r].to # path[r]
    <3>1. grow[r].at = "written" => grow[r].to > footage[r]
      BY <1>2 DEF IInv, Recorded
    <3> QED BY <1>2, <3>1, Numbers
  <2> QED BY <1>1, <1>2, <1>3, <2>1 DEF IInv, Recorded, boxVars
<1>8. Kept'
  <2>1. 1..last \subseteq Recs /\ (uploaded[r] = footage[r] => remote[r] >= footage[r])
    BY <1>2, Numbers
  <2> QED BY <1>1, <1>2, <1>3, <2>1 DEF IInv, Kept, boxVars
<1>9. SkippedIsGone'
  BY <1>1, <1>2, <1>3 DEF IInv, SkippedIsGone, With, boxVars
<1> QED BY <1>4, <1>5, <1>6, <1>7, <1>8, <1>9 DEF IInv, Types

LEMMA EvictRowStep ==
    ASSUME IInv, NEW e \in Evictors, EvictRow(e), UNCHANGED setup
    PROVE  IInv'
<1> DEFINE r == evict[e].item[1]
<1>1. /\ evict[e].at = "row" /\ evict' = [evict EXCEPT ![e].at = "mark"]
      /\ row' = [row EXCEPT ![r] = None]
      /\ UNCHANGED <<last, disk, grow, footage, expired, doomed, boxVars, remote, scan, workVars, countVars>>
  BY DEF EvictRow
<1>2. /\ r \in Recs /\ uploaded[r] # None /\ uploaded[r] <= footage[r]
      /\ remote[r] >= footage[r] \/ footage[r] > uploaded[r]
  BY <1>1, Numbers DEF IInv, Listed
<1>3. row'[r] = None /\ \A q \in Recs : q # r => row'[q] = row[q]
  BY <1>1, <1>2 DEF IInv, Types, TypeRec
<1>4. TypeEvict' /\ Listed'
  BY <1>1, OnStep DEF boxVars
<1>5. TypeBox' /\ TypeRemote' /\ TypeScan' /\ TypeWork' /\ TypeCount'
         /\ Boxed' /\ Scanned' /\ Held' /\ OneUploader' /\ Again' /\ Stored'
         /\ Verified' /\ Capped'
  BY <1>1, Frame DEF boxVars, workVars, countVars
<1>6. TypeRec'
  BY <1>1, <1>2 DEF IInv, Types, TypeRec
<1>7. Recorded'
  BY <1>1, <1>3 DEF IInv, Recorded, boxVars
<1>8. Kept'
  <2>1. 1..last \subseteq Recs /\ (uploaded[r] = footage[r] => remote[r] >= footage[r])
    BY <1>2, Numbers
  <2> QED BY <1>1, <1>2, <1>3, <2>1 DEF IInv, Kept, boxVars
<1>9. SkippedIsGone'
  BY <1>1, <1>2, <1>3, Numbers DEF IInv, SkippedIsGone, With, boxVars
<1> QED BY <1>4, <1>5, <1>6, <1>7, <1>8, <1>9 DEF IInv, Types

LEMMA EvictMarkStep ==
    ASSUME IInv, NEW e \in Evictors, EvictMark(e), UNCHANGED setup
    PROVE  IInv'
<1> DEFINE i == evict[e].item[1]
<1>1. /\ evict[e].at = "mark" /\ Refuse(e, NoItem)
      /\ status' = [status EXCEPT ![i] = "evicted"]
      /\ UNCHANGED <<recVars, id, path, uploaded, remote, scan, workVars, countVars>>
  BY DEF EvictMark
<1>2. i \in Recs /\ uploaded[i] # None
  BY <1>1 DEF IInv, Listed
<1>3. status[i] # "none"
  BY <1>2 DEF IInv, Boxed
<1>4. status'[i] = "evicted" /\ \A r \in Recs : r # i => status'[r] = status[r]
  BY <1>1, <1>2 DEF IInv, Types, TypeBox
<1>5. TypeEvict' /\ Listed'
  BY <1>1, RefuseStep DEF recVars
<1>6. TypeRec' /\ TypeRemote' /\ TypeScan' /\ TypeWork' /\ TypeCount' /\ Scanned' /\ OneUploader'
         /\ Verified' /\ Kept'
  BY <1>1, Frame DEF recVars, workVars, countVars
<1>7. TypeBox'
  BY <1>1 DEF IInv, Types, TypeBox, Statuses
<1>8. Recorded' /\ Boxed'
  BY <1>1, <1>2, <1>3, <1>4 DEF IInv, Recorded, Boxed, With, recVars
<1>9. Held'
  <2>1. \A w \in Workers : hand[w] \subseteq Recs /\ Item(w)' = Item(w)
    BY <1>1, SameItem DEF IInv, Types, TypeWork, workVars
  <2> QED BY <1>1, <1>4, <2>1 DEF IInv, Held, Workers, workVars
<1>10. Again' /\ Stored' /\ SkippedIsGone'
  BY <1>1, <1>4 DEF IInv, Again, Stored, SkippedIsGone, With, Workers, workVars, recVars, countVars
<1>11. Capped'
  <2>1. Fresh' = Fresh
    BY <1>1, <1>2, <1>4 DEF Fresh, With
  <2> QED BY <1>1, <2>1 DEF IInv, Capped, BacklogLimit
<1> QED BY <1>5, <1>6, <1>7, <1>8, <1>9, <1>10, <1>11 DEF IInv, Types

-----------------------------------------------------------------------------
\* The store and the process.
LEMMA ObjectGoneStep ==
    ASSUME IInv, NEW r \in Recs, ObjectGone(r), UNCHANGED setup
    PROVE  IInv'
<1>1. /\ gone < setup.gone /\ row[r] \in disk[r] /\ \A e \in Evictors : evict[e].item[1] # r
      /\ gone' = gone + 1 /\ remote' = [remote EXCEPT ![r] = None]
      /\ UNCHANGED <<recVars, boxVars, scan, workVars, evict, fails, dbFails, crashes>>
  BY DEF ObjectGone
<1>2. remote'[r] = None /\ \A q \in Recs : q # r => remote'[q] = remote[q]
  BY <1>1 DEF IInv, Types, TypeRemote
<1>3. TypeRec' /\ TypeBox' /\ TypeScan' /\ TypeWork' /\ TypeEvict' /\ Recorded' /\ Boxed'
         /\ Scanned' /\ Held' /\ OneUploader' /\ Again' /\ SkippedIsGone' /\ Capped'
  BY <1>1, Frame DEF recVars, boxVars, workVars
<1>4. TypeRemote'
  BY <1>1 DEF IInv, Types, TypeRemote
<1>5. TypeCount' /\ gone' # 0
  BY <1>1, SetupFacts, SMTT(40) DEF IInv, Types, TypeCount
<1>6. Stored' /\ Verified'
  BY <1>5 DEF Stored, Verified
<1>7. Listed'
  BY <1>1, <1>2 DEF IInv, Listed, Evictors, recVars, boxVars
<1>8. Kept'
  <2>1. row[r] = footage[r] /\ 1..last \subseteq Recs
    <3>1. row[r] \in {None, footage[r]} /\ row[r] # None
      BY <1>1, Numbers DEF IInv, Recorded
    <3> QED BY <3>1, Numbers
  <2> QED BY <1>1, <1>2, <2>1 DEF IInv, Kept, recVars, boxVars
<1> QED BY <1>3, <1>4, <1>5, <1>6, <1>7, <1>8 DEF IInv, Types

LEMMA RestartStep ==
    ASSUME IInv, Restart, UNCHANGED setup
    PROVE  IInv'
<1>1. /\ status' = [r \in Recs |-> IF status[r] = "uploading" THEN "pending" ELSE status[r]]
      /\ scan' = NoScan /\ grow' = [r \in Recs |-> NotGrowing]
      /\ hand' = [w \in Workers |-> {}] /\ at' = [w \in Workers |-> "idle"]
      /\ size' = [w \in Workers |-> None]
      /\ evict' = [e \in Evictors |-> IF e = "auto" THEN NoEvict ELSE evict[e]]
      /\ crashes < setup.crashes /\ crashes' = crashes + 1
      /\ UNCHANGED <<last, disk, row, footage, expired, doomed, id, path, uploaded, remote,
                     fails, dbFails, gone>>
  BY DEF Restart
<1>2. TypeRemote' /\ Kept' /\ Stored'
  BY <1>1, Frame DEF IInv, Kept, Stored
<1>3. TypeRec' /\ TypeBox' /\ TypeWork'
  BY <1>1 DEF IInv, Types, TypeRec, TypeBox, TypeWork, NotGrowing, Statuses, Workers
<1>4. BacklogLimit \in Nat /\ BacklogLimit' = BacklogLimit
  BY SetupFacts DEF IInv, Types, BacklogLimit
<1>5. TypeScan' /\ Scanned'
  BY <1>1, <1>4 DEF TypeScan, Scanned, NoScan
<1>6. TypeEvict' /\ Listed'
  <2>1. \A e \in Evictors : evict'[e] = NoEvict \/ evict'[e] = evict[e]
    BY <1>1
  <2>2. TypeEvict'
    BY <1>1 DEF IInv, Types, TypeEvict, NoEvict, Evictors, Items, NoItem
  <2>3. Listed'
    BY <1>1, <2>1 DEF IInv, Listed, NoEvict, Evictors
  <2> QED BY <2>2, <2>3
<1>7. TypeCount'
  BY <1>1, SetupFacts DEF IInv, Types, TypeCount
<1>8. Recorded'
  BY <1>1 DEF IInv, Recorded, NotGrowing
<1>9. Boxed' /\ SkippedIsGone'
  BY <1>1 DEF IInv, Boxed, SkippedIsGone, With
<1>10. Held' /\ OneUploader' /\ Verified'
  BY <1>1 DEF Held, OneUploader, Verified, Workers
<1>11. Again'
  BY <1>1 DEF IInv, Again, Workers
<1>12. Capped'
  <2>1. Fresh' = Fresh
    BY <1>1 DEF Fresh, With
  <2> QED BY <1>1, <1>4, <2>1 DEF IInv, Capped, NoScan
<1> QED BY <1>2, <1>3, <1>5, <1>6, <1>7, <1>8, <1>9, <1>10, <1>11, <1>12 DEF IInv, Types

-----------------------------------------------------------------------------
LEMMA InitIInv == Init => IInv
<1> SUFFICES ASSUME Init
             PROVE  IInv
  OBVIOUS
<1>1. setup \in Setups
  BY DEF Init
<1>2. /\ NumRecs \in Nat /\ None = 0 /\ None \notin Versions /\ BacklogLimit \in Nat \ {0}
      /\ setup.fails \in Nat /\ setup.dbFails \in Nat /\ setup.crashes \in Nat /\ setup.gone \in Nat
  BY <1>1, SetupFacts
<1>3. Types
  <2>1. TypeRec /\ TypeBox /\ TypeRemote /\ TypeWork
    BY <1>2 DEF Init, TypeRec, TypeBox, TypeRemote, TypeWork, NotGrowing, Statuses
  <2>2. TypeScan /\ TypeEvict
    BY <1>2 DEF Init, TypeScan, TypeEvict, NoScan, NoEvict
  <2>3. TypeCount
    BY <1>2 DEF Init, TypeCount
  <2> QED BY <1>1, <2>1, <2>2, <2>3 DEF Types
<1>4. Recorded /\ Boxed /\ Scanned
  BY DEF Init, Recorded, Boxed, Scanned, With, NotGrowing, NoScan
<1>5. Held /\ OneUploader /\ Again /\ Stored /\ Verified
  BY DEF Init, Held, OneUploader, Again, Stored, Verified
<1>6. Listed /\ Kept /\ SkippedIsGone
  BY <1>2 DEF Init, Listed, Kept, SkippedIsGone, With, NoEvict
<1>7. Capped
  <2>1. Fresh = {}
    BY DEF Init, Fresh, With
  <2> QED BY <1>2, <2>1, FS_EmptySet DEF Init, Capped, NoScan
<1> QED BY <1>3, <1>4, <1>5, <1>6, <1>7 DEF IInv

LEMMA StepIInv == IInv /\ [Next]_vars => IInv'
<1> SUFFICES ASSUME IInv, [Next]_vars
             PROVE  IInv'
  OBVIOUS
<1>1. CASE UNCHANGED vars
  <2>1. /\ UNCHANGED <<setup, recVars, boxVars, remote, scan, workVars, evict, countVars>>
        /\ UNCHANGED <<last, footage, row, disk, status, uploaded, id, gone>>
    BY <1>1 DEF vars, moving, recVars, boxVars, workVars, countVars
  <2> QED BY <2>1, Frame DEF IInv, Types
<1>2. CASE Next
  <2> USE <1>2 DEF Next
  <2>1. CASE Merged
    BY <2>1, MergedStep
  <2>2. ASSUME NEW r \in Recs, AppendWrite(r) \/ AppendCommit(r) \/ AppendRemove(r) \/ RetentionRow(r)
        PROVE  IInv'
    BY <2>2, AppendWriteStep, AppendCommitStep, AppendRemoveStep, RetentionRowStep
  <2>3. ASSUME NEW r \in Recs, ObjectGone(r)
        PROVE  IInv'
    BY <2>3, ObjectGoneStep
  <2>4. ASSUME NEW f \in doomed, RetentionFile(f)
        PROVE  IInv'
    BY <2>4, RetentionFileStep
  <2>5. CASE Scanner
    BY <2>5, RequeueStaleStep, CountBacklogStep, ListCandidatesStep, EnqueueStep, ScanEndsStep
       DEF Scanner
  <2>6. ASSUME NEW w \in Workers, Worker(w)
        PROVE  IInv'
    BY <2>6, ClaimStep, StatOkStep, StatFailsStep, SkipStep, OpenOkStep, OpenFailsStep, PutOkStep,
       PutGhostStep, PutFailsStep, HeadOkStep, HeadRefusesStep, HeadFailsStep, MarkUploadedStep,
       MarkFailsStep DEF Worker
  <2>7. ASSUME NEW e \in Evictors, Evictor(e)
        PROVE  IInv'
    BY <2>7, EvictListStep, EvictHeadOkStep, EvictRefusesStep, EvictHeadFailsStep, EvictRemoveStep,
       EvictRowStep, EvictMarkStep, EvictItemFailsStep, EvictMarkFailsStep DEF Evictor
  <2>8. CASE Restart
    BY <2>8, RestartStep
  <2> QED BY <2>1, <2>2, <2>3, <2>4, <2>5, <2>6, <2>7, <2>8 DEF Move
<1> QED BY <1>1, <1>2

\* The invariant holds of every behaviour.
LEMMA Invariance == Spec => []IInv
BY InitIInv, StepIInv, PTL DEF Spec

\* The outbox keeps its books: no recording is in two workers' hands, what is
\* marked as stored is stored, no more is on its way than the backlog allows, and
\* what is skipped can no longer be had (internal/offload, db_offload.go).
THEOREM BooksKept == Spec => []Inv
<1>1. IInv => Inv
  <2> SUFFICES ASSUME IInv
               PROVE  Inv
    OBVIOUS
  <2>1. TypeOK /\ OneUploader /\ SkippedIsGone
    BY TypeParts DEF IInv
  <2>2. ConfirmedIsStored
    BY DEF IInv, ConfirmedIsStored, Boxed, Stored, With
  <2>3. BacklogCapped
    BY DEF IInv, BacklogCapped, Capped, Fresh
  <2> QED BY <2>1, <2>2, <2>3 DEF Inv
<1> QED BY <1>1, Invariance, PTL

\* Whatever fails, restarts, is appended or evicted, a recording that retention
\* has not taken can be had in full, but for what was appended after its upload
\* (offload/evict.go): for any number of recordings, workers and faults.
THEOREM NoneLost == Spec => []NothingLost
<1>1. IInv => NothingLost
  <2> SUFFICES ASSUME IInv, NEW r \in 1..last \ expired
               PROVE  \/ row[r] \in disk[r] /\ row[r] >= footage[r]
                      \/ remote[r] >= footage[r]
                      \/ uploaded[r] \notin {None, footage[r]}
    BY DEF NothingLost
  <2>1. r \in 1..last /\ r \notin expired
    OBVIOUS
  <2>2. last \in 0..NumRecs /\ NumRecs \in Nat /\ Recs = 1..NumRecs /\ footage \in [Recs -> Nat]
    BY Numbers
  <2>3. r \in Recs
    BY <2>1, <2>2
  <2>4. footage[r] \in Nat
    BY <2>2, <2>3
  <2> QED BY <2>1, <2>4 DEF IInv, Kept
<1> QED BY <1>1, Invariance, PTL

-----------------------------------------------------------------------------
(***************************************************************************)
(* Reads of archived objects (BlockProxy).  A cached block holds the bytes *)
(* of its stretch of the object, so that blocks are told by their numbers  *)
(* and the sizes of disjoint sets of them add up; what a request has taken *)
(* so far are the bytes up to the block it takes next.                     *)
(***************************************************************************)

\* What a block holds.
ContentOf(b) == Bytes(b * BlockSize, LesserOf(b * BlockSize + BlockSize, Total) - 1)
Contents(set) == [b \in set |-> ContentOf(b)]

\* The first byte a request has not taken yet.
Reached(q) == IF q.next = First(q) THEN q.start ELSE q.next * BlockSize

RequestOK(q) ==
    /\ q.at \in {"look", "fetch", "served"} => q.start \in Offsets /\ q.end \in Offsets /\ q.start <= q.end
    /\ q.at = "look" => q.out = <<>>
    /\ q.at = "fetch" => /\ q.missing \subseteq First(q)..Final(q)
                         /\ q.next \in First(q)..Final(q)
                         /\ q.out = Bytes(q.start, Reached(q) - 1)
    /\ q.at = "served" => q.out = Bytes(q.start, q.end)

RequestType ==
    [at : {"idle", "look", "fetch", "served", "failed", "vanished"},
     start : Nat, end : Nat, missing : SUBSET Blocks, next : Nat, out : Seq(Nat)]

CacheOK == lru \in Seq(Blocks) /\ data = Contents(Cached) /\ CacheExact

RequestsOK == req \in [Requests -> RequestType] /\ \A r \in Requests : RequestOK(req[r])

ProxyInv == CacheOK /\ RequestsOK

LEMMA Quotient ==
    ASSUME NEW n \in Nat
    PROVE  /\ n \div BlockSize \in Nat
           /\ (n \div BlockSize) * BlockSize \in Nat
           /\ (n \div BlockSize) * BlockSize <= n
           /\ n < (n \div BlockSize) * BlockSize + BlockSize
  BY BlockProxyAssumption

LEMMA Multiples ==
    ASSUME NEW a \in Nat, NEW b \in Nat
    PROVE  /\ a * BlockSize \in Nat
           /\ a <= b => a * BlockSize <= b * BlockSize
           /\ a < b => a * BlockSize + BlockSize <= b * BlockSize
           /\ (a + 1) * BlockSize = a * BlockSize + BlockSize
           /\ a >= b => (a - b) * BlockSize = a * BlockSize - b * BlockSize
  BY BlockProxyAssumption

\* A block is a stretch of the object.
LEMMA BlockBounds ==
    ASSUME NEW b \in Blocks
    PROVE  b \in Nat /\ b * BlockSize \in Nat /\ b * BlockSize < Total
<1> DEFINE q == (Total - 1) \div BlockSize
           p == b * BlockSize
           t == q * BlockSize
<1>1. Total - 1 \in Nat /\ Total \in Nat
  BY BlockProxyAssumption
<1>2. q \in Nat /\ t \in Nat /\ t <= Total - 1
  BY <1>1, Quotient
<1>3. b \in Nat /\ b <= q
  BY <1>2 DEF Blocks
<1>4. p \in Nat /\ p <= t
  BY <1>2, <1>3, Multiples
<1> HIDE DEF p, q, t
<1>5. p < Total
  BY <1>1, <1>2, <1>4
<1> QED BY <1>3, <1>4, <1>5 DEF p

LEMMA BlocksBetween ==
    ASSUME NEW first \in Blocks, NEW final \in Blocks
    PROVE  first \in Nat /\ final \in Nat /\ first..final \subseteq Blocks
<1> DEFINE q == (Total - 1) \div BlockSize
<1>1. q \in Nat
  BY BlockProxyAssumption, Quotient
<1>2. Blocks = 0..q
  BY DEF Blocks
<1> HIDE DEF q
<1> QED BY <1>1, <1>2

LEMMA OffsetBlock ==
    ASSUME NEW s \in Offsets
    PROVE  s \div BlockSize \in Blocks
<1>1. Total - 1 \in Nat /\ BlockSize \in Nat \ {0} /\ s \in Nat /\ s <= Total - 1
  BY BlockProxyAssumption DEF Offsets
<1> DEFINE p == s \div BlockSize
           q == (Total - 1) \div BlockSize
<1>2. p \in Nat /\ p * BlockSize \in Nat /\ p * BlockSize <= s
  BY <1>1, Quotient
<1>3. q \in Nat /\ q * BlockSize \in Nat /\ Total - 1 < q * BlockSize + BlockSize
  BY <1>1, Quotient
<1> HIDE DEF p, q
<1>4. ~ (q < p)
  BY <1>1, <1>2, <1>3, Multiples
<1> QED BY <1>2, <1>3, <1>4 DEF Blocks, p, q

\* A part of a stretch, and two stretches that meet.
Part(s, i, j) == SubSeq(s, i, j)

LEMMA PartOf ==
    ASSUME NEW a \in Nat, NEW c \in Nat, NEW i \in Nat, NEW j \in Nat, NEW f \in Nat, NEW l \in Int,
           1 <= i, i <= j + 1, j <= c + 1 - a, f = a + i - 1, l = a + j - 1
    PROVE  Part(Bytes(a, c), i, j) = Bytes(f, l)
<1>1. j <= Len(Bytes(a, c)) /\ Bytes(a, c) \in Seq(Nat)
  BY DEF Bytes
<1>2. SubSeq(Bytes(a, c), i, j) = [k \in 1..(j - i + 1) |-> Bytes(a, c)[i + k - 1]]
  BY <1>1
<1>3. \A k \in 1..(j - i + 1) : Bytes(a, c)[i + k - 1] = f + k - 1
  BY <1>1 DEF Bytes
<1>4. j - i + 1 = l + 1 - f
  OBVIOUS
<1> QED BY <1>2, <1>3, <1>4 DEF Bytes, Part

LEMMA Joined ==
    ASSUME NEW a \in Nat, NEW b \in Nat, NEW c \in Nat, a <= b, b <= c + 1
    PROVE  Bytes(a, b - 1) \o Bytes(b, c) = Bytes(a, c)
  BY DEF Bytes

LEMMA BytesType ==
    ASSUME NEW a \in Nat, NEW c \in Int, a <= c + 1
    PROVE  Bytes(a, c) \in Seq(Nat) /\ Len(Bytes(a, c)) = c + 1 - a
  BY DEF Bytes

LEMMA ContentType ==
    ASSUME NEW b \in Blocks
    PROVE  /\ Len(ContentOf(b)) \in 1..BlockSize
           /\ Len(ContentOf(b)) = LesserOf(b * BlockSize + BlockSize, Total) - b * BlockSize
           /\ DOMAIN ContentOf(b) = 1..Len(ContentOf(b))
<1> DEFINE base == b * BlockSize
           c == LesserOf(base + BlockSize, Total) - 1
<1>1. base \in Nat /\ base < Total /\ BlockSize \in Nat \ {0} /\ Total \in Nat
  BY BlockBounds, BlockProxyAssumption
<1> HIDE DEF base
<1>2. c \in Nat /\ base <= c /\ c + 1 - base \in 1..BlockSize
  BY <1>1 DEF LesserOf
<1>3. /\ Len(Bytes(base, c)) = c + 1 - base
      /\ DOMAIN Bytes(base, c) = 1..Len(Bytes(base, c))
  <2> HIDE DEF c
  <2> QED BY <1>1, <1>2 DEF Bytes
<1>4. ContentOf(b) = Bytes(base, c)
  BY DEF ContentOf, base
<1>5. c + 1 - base = LesserOf(base + BlockSize, Total) - base
  BY <1>1 DEF LesserOf
<1> QED BY <1>2, <1>3, <1>4, <1>5 DEF base

\* What is fetched is cut where the blocks begin.
LEMMA CutContents ==
    ASSUME NEW first \in Blocks, NEW final \in Blocks, first <= final
    PROVE  Cut(first, final) = Contents(first..final)
<1> DEFINE from == first * BlockSize
           until == final * BlockSize
           to == LesserOf(until + BlockSize, Total) - 1
           buf == Bytes(from, to)
           off(b) == (b - first) * BlockSize
<1>1. BlockSize \in Nat \ {0} /\ Total \in Nat /\ first \in Nat /\ final \in Nat
  BY BlockProxyAssumption, BlockBounds
<1>2. from \in Nat /\ until \in Nat /\ from <= until /\ until < Total
  BY <1>1, BlockBounds, Multiples
<1>3. to \in Nat /\ from <= to /\ Len(buf) = to + 1 - from
  <2> HIDE DEF from, until
  <2>1. to \in Nat /\ from <= to /\ from <= to + 1
    BY <1>1, <1>2 DEF LesserOf
  <2> HIDE DEF to
  <2> QED BY <1>2, <2>1, BytesType
<1>4. ASSUME NEW b \in first..final
      PROVE  SubSeq(buf, off(b) + 1, LesserOf(off(b) + BlockSize, Len(buf))) = ContentOf(b)
  <2> DEFINE base == b * BlockSize
  <2>1. b \in Nat /\ first <= b /\ b <= final
    BY <1>1
  <2>2. base \in Nat /\ base <= until /\ off(b) = base - from /\ from <= base
    BY <1>1, <2>1, Multiples
  <2>3. base = until \/ base + BlockSize <= until
    <3>1. CASE b = final
      BY <3>1
    <3>2. CASE b < final
      BY <1>1, <2>1, <3>2, Multiples
    <3> QED BY <1>1, <2>1, <3>1, <3>2
  <2>4. ContentOf(b) = Bytes(base, LesserOf(base + BlockSize, Total) - 1)
    BY DEF ContentOf
  <2> DEFINE top == LesserOf(base + BlockSize, Total)
             hi == LesserOf(off(b) + BlockSize, Len(buf))
  <2>5. top \in Nat /\ base <= top /\ top <= to + 1 /\ hi = top - from
    <3>0. off(b) = base - from /\ Len(buf) = to + 1 - from
      BY <1>3, <2>2
    <3> HIDE DEF from, until, off, base, buf
    <3>1. base < Total
      BY <1>1, <1>2, <2>2
    <3>2. CASE base = until
      BY <1>1, <1>2, <2>2, <3>0, <3>1, <3>2 DEF LesserOf
    <3>3. CASE base + BlockSize <= until
      BY <1>1, <1>2, <2>2, <3>0, <3>1, <3>3 DEF LesserOf
    <3> QED BY <2>3, <3>2, <3>3
  <2> HIDE DEF hi, top, base
  <2>6. PICK i, h, l : i = off(b) + 1 /\ h = hi /\ l = top - 1
    OBVIOUS
  <2>7. SubSeq(buf, i, h) = Bytes(base, l)
    <3> HIDE DEF from, until, off, to
    <3>1. i \in Nat /\ h \in Nat /\ l \in Int /\ 1 <= i /\ i <= h + 1 /\ h <= to + 1 - from
          /\ base = from + i - 1 /\ l = from + h - 1
      BY <1>2, <1>3, <2>2, <2>5, <2>6
    <3>2. from \in Nat /\ to \in Nat /\ base \in Nat
      BY <1>2, <1>3, <2>2
    <3>3. Part(Bytes(from, to), i, h) = Bytes(base, l)
      BY <3>1, <3>2, PartOf
    <3> QED BY <3>3 DEF buf, Part
  <2> QED BY <2>4, <2>6, <2>7 DEF hi, top
<1> QED BY <1>4 DEF Cut, Contents

\* Blocks have bytes of their own, so that the bytes of two sets of blocks add up.
LEMMA SizeType ==
    ASSUME NEW B \in SUBSET Blocks
    PROVE  /\ IsFiniteSet(UNION {{b} \X DOMAIN Contents(B)[b] : b \in DOMAIN Contents(B)})
           /\ Size(Contents(B)) \in Nat
<1> DEFINE P == UNION {{b} \X DOMAIN Contents(B)[b] : b \in DOMAIN Contents(B)}
<1>1. (Total - 1) \div BlockSize \in Nat /\ BlockSize \in Nat
  BY BlockProxyAssumption, Quotient
<1>2. IsFiniteSet(Blocks) /\ IsFiniteSet(1..BlockSize)
  BY <1>1, FS_Interval DEF Blocks
<1>3. IsFiniteSet(Blocks \X (1..BlockSize))
  BY <1>2, FS_Product
<1>4. P \subseteq Blocks \X (1..BlockSize)
  <2> SUFFICES ASSUME NEW b \in B, NEW p \in {b} \X DOMAIN Contents(B)[b]
               PROVE  p \in Blocks \X (1..BlockSize)
    BY DEF Contents
  <2>1. Contents(B)[b] = ContentOf(b) /\ b \in Blocks
    BY DEF Contents
  <2>2. DOMAIN ContentOf(b) \subseteq 1..BlockSize
    BY <1>1, <2>1, ContentType
  <2> QED BY <2>1, <2>2
<1> HIDE DEF P
<1>5. IsFiniteSet(P)
  BY <1>3, <1>4, FS_Subset
<1>6. Cardinality(P) \in Nat
  BY <1>5, FS_CardinalityType
<1> QED BY <1>5, <1>6 DEF P, Size

LEMMA SizesAdd ==
    ASSUME NEW B \in SUBSET Blocks, NEW C \in SUBSET Blocks, B \cap C = {}
    PROVE  Size(Contents(B \cup C)) = Size(Contents(B)) + Size(Contents(C))
<1> DEFINE P(S) == UNION {{b} \X DOMAIN Contents(S)[b] : b \in DOMAIN Contents(S)}
<1>1. \A S : P(S) = UNION {{b} \X DOMAIN ContentOf(b) : b \in S}
  BY DEF Contents
<1>2. P(B \cup C) = P(B) \cup P(C) /\ P(B) \cap P(C) = {}
  <2>1. P(B \cup C) = P(B) \cup P(C)
    BY <1>1
  <2>2. P(B) \cap P(C) = {}
    <3> SUFFICES ASSUME NEW p \in P(B), p \in P(C)
                 PROVE  FALSE
      OBVIOUS
    <3>1. PICK b \in B : p \in {b} \X DOMAIN ContentOf(b)
      BY <1>1
    <3>2. PICK c \in C : p \in {c} \X DOMAIN ContentOf(c)
      BY <1>1
    <3>3. p[1] = b /\ p[1] = c
      BY <3>1, <3>2
    <3> QED BY <3>3
  <2> QED BY <2>1, <2>2
<1>3. IsFiniteSet(P(B)) /\ IsFiniteSet(P(C))
  BY SizeType
<1> HIDE DEF P
<1>4. Cardinality(P(B) \cup P(C)) = Cardinality(P(B)) + Cardinality(P(C)) - Cardinality({})
  BY <1>2, <1>3, FS_Union
<1>5. Cardinality(P(B)) \in Nat /\ Cardinality(P(C)) \in Nat /\ Cardinality({}) = 0
  BY <1>3, FS_CardinalityType, FS_EmptySet
<1>6. Cardinality(P(B \cup C)) = Cardinality(P(B)) + Cardinality(P(C))
  <2>1. Cardinality(P(B \cup C)) = Cardinality(P(B)) + Cardinality(P(C)) - 0
    BY <1>2, <1>4, <1>5
  <2> QED BY <1>5, <2>1
<1>7. \A S : Size(Contents(S)) = Cardinality(P(S))
  BY DEF P, Size
<1> QED BY <1>6, <1>7

\* The first and the last of a set of numbers.
LEMMA MinIn ==
    ASSUME NEW S, S \subseteq Nat, S # {}
    PROVE  Min(S) \in S /\ \A y \in S : Min(S) <= y
<1>1. PICK x \in S : \A y \in S : ~ (<<y, x>> \in OpToRel(<, Nat))
  BY NatLessThanWellFounded, WFMin
<1>2. \A y \in S : x <= y
  <2> SUFFICES ASSUME NEW y \in S
               PROVE  x <= y
    OBVIOUS
  <2>1. x \in Nat /\ y \in Nat /\ ~ (y < x)
    BY <1>1 DEF OpToRel
  <2> QED BY <2>1
<1> QED BY <1>2 DEF Min

LEMMA MaxIn ==
    ASSUME NEW S, NEW n \in Nat, S \subseteq 0..n, S # {}
    PROVE  Max(S) \in S /\ \A y \in S : y <= Max(S)
<1> DEFINE T == {n - x : x \in S}
<1>0. \A x \in S : n - x \in Nat
  OBVIOUS
<1>1. T \subseteq Nat /\ T # {}
  BY <1>0
<1>2. Min(T) \in T /\ \A y \in T : Min(T) <= y
  BY <1>1, MinIn
<1>3. PICK x \in S : Min(T) = n - x
  BY <1>2
<1>4. \A y \in S : x >= y
  <2> SUFFICES ASSUME NEW y \in S
               PROVE  x >= y
    OBVIOUS
  <2>1. n - x <= n - y
    BY <1>2, <1>3
  <2>2. x \in Nat /\ y \in Nat
    OBVIOUS
  <2> QED BY <2>1, <2>2
<1>5. \E m \in S : \A y \in S : m >= y
  BY <1>4
<1>6. Max(S) \in S /\ \A y \in S : Max(S) >= y
  BY <1>5 DEF Max
<1> QED BY <1>6

\* A finite set of numbers can be put in order: each has its rank.
LEMMA InOrderOnce ==
    ASSUME NEW S, S \subseteq Nat, IsFiniteSet(S)
    PROVE  /\ Cardinality(S) \in Nat
           /\ InOrder(S) \in [1..Cardinality(S) -> S]
           /\ \A i, j \in 1..Cardinality(S) : InOrder(S)[i] = InOrder(S)[j] => i = j
           /\ \A x \in S : \E k \in 1..Cardinality(S) : InOrder(S)[k] = x
<1> DEFINE n == Cardinality(S)
           D == 1..n
           Below(x) == {y \in S : y <= x}
           Rank == [x \in S |-> Cardinality(Below(x))]
<1>1. n \in Nat /\ IsFiniteSet(D) /\ Cardinality(D) = n
  BY FS_CardinalityType, FS_Interval
<1>2. \A x \in S : Rank[x] \in D
  <2> SUFFICES ASSUME NEW x \in S
               PROVE  Cardinality(Below(x)) \in D
    OBVIOUS
  <2>1. x \in Below(x) /\ Below(x) \in SUBSET S
    OBVIOUS
  <2>2. IsFiniteSet(Below(x)) /\ Cardinality(Below(x)) <= n
    BY <2>1, FS_Subset
  <2>3. Cardinality(Below(x)) # 0 /\ Cardinality(Below(x)) \in Nat
    BY <2>1, <2>2, FS_EmptySet, FS_CardinalityType
  <2> QED BY <1>1, <2>2, <2>3
<1>3. \A x, y \in S : x < y => Rank[x] < Rank[y]
  <2> SUFFICES ASSUME NEW x \in S, NEW y \in S, x < y
               PROVE  Cardinality(Below(x)) < Cardinality(Below(y))
    OBVIOUS
  <2>1. Below(x) \in SUBSET Below(y) /\ y \in Below(y) /\ y \notin Below(x)
    <3>1. x \in Nat /\ y \in Nat
      OBVIOUS
    <3>2. ASSUME NEW z \in S, z <= x
          PROVE  z <= y
      <4>1. z \in Nat
        OBVIOUS
      <4> QED BY <3>1, <3>2, <4>1
    <3>3. y \in Below(y) /\ y \notin Below(x)
      BY <3>1
    <3> QED BY <3>2, <3>3
  <2>2. IsFiniteSet(Below(y))
    BY FS_Subset
  <2>3. Cardinality(Below(x)) <= Cardinality(Below(y)) /\ Cardinality(Below(x)) # Cardinality(Below(y))
    BY <2>1, <2>2, FS_Subset
  <2>4. Cardinality(Below(x)) \in Nat /\ Cardinality(Below(y)) \in Nat
    BY <2>1, <2>2, FS_Subset, FS_CardinalityType
  <2> QED BY <2>3, <2>4
<1>4. \A x, y \in S : Rank[x] = Rank[y] => x = y
  <2> SUFFICES ASSUME NEW x \in S, NEW y \in S, Rank[x] = Rank[y]
               PROVE  x = y
    OBVIOUS
  <2>1. x \in Nat /\ y \in Nat /\ ~ (Rank[x] < Rank[y]) /\ ~ (Rank[y] < Rank[x])
    BY <1>1, <1>2
  <2> QED BY <1>3, <2>1
<1>5. \A k \in D : \E x \in S : Rank[x] = k
  <2>1. Rank \in Injection(S, D)
    BY <1>2, <1>4 DEF Injection, IsInjective
  <2>2. Rank \in Surjection(S, D)
    BY <1>1, <2>1, FS_Injection
  <2> QED BY <2>2 DEF Surjection
<1> DEFINE s == [k \in D |-> CHOOSE x \in S : Rank[x] = k]
<1>6. s \in [D -> S] /\ \A k \in D : Rank[s[k]] = k
  BY <1>5
<1>7. \A i, j \in D : i < j => s[i] < s[j]
  <2> SUFFICES ASSUME NEW i \in D, NEW j \in D, i < j
               PROVE  s[i] < s[j]
    OBVIOUS
  <2>1. s[i] \in Nat /\ s[j] \in Nat /\ Rank[s[i]] = i /\ Rank[s[j]] = j
    BY <1>6
  <2>2. i \in Nat /\ j \in Nat
    BY <1>1
  <2>3. Rank[s[i]] < Rank[s[j]] /\ Rank[s[i]] \in Nat /\ Rank[s[j]] \in Nat /\ s[i] \in S /\ s[j] \in S
    BY <1>6, <2>1, <2>2
  <2>4. s[j] < s[i] => Rank[s[j]] < Rank[s[i]]
    BY <1>3, <2>3
  <2> HIDE DEF Rank, s, D
  <2>5. s[i] # s[j]
    <3>1. ASSUME s[i] = s[j]
          PROVE  FALSE
      <4>1. Rank[s[i]] = Rank[s[j]]
        BY <3>1
      <4> QED BY <4>1, <2>3
    <3> QED BY <3>1
  <2>6. ~ (s[j] < s[i])
    BY <2>3, <2>4
  <2> QED BY <2>1, <2>5, <2>6
<1> HIDE DEF s
<1>8. /\ InOrder(S) \in [D -> S]
      /\ \A i, j \in D : i < j => InOrder(S)[i] < InOrder(S)[j]
  <2>1. \E q \in [D -> S] : \A i, j \in DOMAIN q : i < j => q[i] < q[j]
    BY <1>6, <1>7
  <2> QED BY <2>1 DEF InOrder
<1>9. ASSUME NEW i \in D, NEW j \in D, InOrder(S)[i] = InOrder(S)[j]
      PROVE  i = j
  <2>1. InOrder(S)[i] \in Nat
    BY <1>8
  <2>2. ~ (i < j) /\ ~ (j < i)
    BY <1>8, <1>9, <2>1
  <2> QED BY <1>1, <2>2
<1>10. InOrder(S) \in Surjection(D, S)
  <2>1. InOrder(S) \in Injection(D, S)
    BY <1>8, <1>9 DEF Injection, IsInjective
  <2> QED BY <1>1, <2>1, FS_Injection
<1>11. \A x \in S : \E k \in D : InOrder(S)[k] = x
  BY <1>10 DEF Surjection
<1> QED BY <1>1, <1>8, <1>9, <1>11

-----------------------------------------------------------------------------
\* A list of blocks, each of them once.
Elements(list) == {list[i] : i \in DOMAIN list}
ListOK(list) == list \in Seq(Blocks) /\ IsInjective(list)

LEMMA RestOnce ==
    ASSUME NEW list, ListOK(list), NEW first \in Nat, NEW final \in Nat
    PROVE  ListOK(Rest(list, first, final)) /\ Elements(Rest(list, first, final)) = Elements(list) \ (first..final)
<1> DEFINE others == {i \in DOMAIN list : list[i] \notin first..final}
           n == Cardinality(others)
           order == InOrder(others)
           rest == [k \in 1..n |-> list[order[k]]]
<1>1. list \in Seq(Blocks) /\ Len(list) \in Nat /\ DOMAIN list = 1..Len(list)
  BY DEF ListOK
<1>2. IsFiniteSet(others) /\ others \subseteq Nat /\ others \subseteq DOMAIN list
  <2>1. IsFiniteSet(1..Len(list))
    BY <1>1, FS_Interval
  <2> QED BY <1>1, <2>1, FS_Subset
<1>3. /\ n \in Nat /\ order \in [1..n -> others]
      /\ \A i, j \in 1..n : order[i] = order[j] => i = j
      /\ \A x \in others : \E k \in 1..n : order[k] = x
  BY <1>2, InOrderOnce
<1>4. Rest(list, first, final) = rest
  BY DEF Rest
<1> HIDE DEF n, order
<1>5. rest \in Seq(Blocks) /\ DOMAIN rest = 1..n
  BY <1>1, <1>2, <1>3
<1>6. IsInjective(rest)
  <2> SUFFICES ASSUME NEW i \in 1..n, NEW j \in 1..n, rest[i] = rest[j]
               PROVE  i = j
    BY <1>5 DEF IsInjective
  <2>1. order[i] \in DOMAIN list /\ order[j] \in DOMAIN list /\ list[order[i]] = list[order[j]]
    BY <1>2, <1>3
  <2>2. order[i] = order[j]
    BY <2>1 DEF ListOK, IsInjective
  <2> QED BY <1>3, <2>2
<1>7. Elements(rest) = {list[i] : i \in others}
  BY <1>3, <1>5 DEF Elements
<1>8. {list[i] : i \in others} = Elements(list) \ (first..final)
  BY DEF Elements
<1> QED BY <1>4, <1>5, <1>6, <1>7, <1>8 DEF ListOK

LEMMA ToFrontOnce ==
    ASSUME NEW list, ListOK(list), NEW first \in Blocks, NEW final \in Blocks, first <= final
    PROVE  /\ ListOK(ToFront(list, first, final))
           /\ Elements(ToFront(list, first, final)) = Elements(list) \cup first..final
<1> DEFINE head == [i \in 1..final + 1 - first |-> final + 1 - i]
           rest == Rest(list, first, final)
           all == head \o rest
<1>1. first \in Nat /\ final \in Nat /\ first..final \subseteq Blocks
  BY BlocksBetween
<1>2. ListOK(rest) /\ Elements(rest) = Elements(list) \ (first..final)
  BY <1>1, RestOnce
<1> HIDE DEF rest
<1>3. head \in Seq(Blocks) /\ Len(head) = final + 1 - first /\ DOMAIN head = 1..final + 1 - first
  BY <1>1
<1>4. Elements(head) = first..final
  <2>1. ASSUME NEW b \in first..final
        PROVE  b \in Elements(head)
    <3>1. final + 1 - b \in 1..final + 1 - first /\ final + 1 - (final + 1 - b) = b
      BY <1>1
    <3>2. head[final + 1 - b] = b
      BY <3>1
    <3> QED BY <1>3, <3>1, <3>2 DEF Elements
  <2>2. ASSUME NEW i \in DOMAIN head
        PROVE  head[i] \in first..final
    BY <1>1, <1>3, <2>2
  <2> QED BY <2>1, <2>2 DEF Elements
<1>5. IsInjective(head)
  BY <1>1, <1>3 DEF IsInjective
<1>6. rest \in Seq(Blocks) /\ Len(rest) \in Nat /\ DOMAIN rest = 1..Len(rest) /\ IsInjective(rest)
  BY <1>2 DEF ListOK
<1> DEFINE n == final + 1 - first
<1>7. n \in Nat /\ Len(head) = n /\ DOMAIN head = 1..n
  BY <1>1, <1>3
<1> HIDE DEF head, n
<1>8. /\ all \in Seq(Blocks) /\ DOMAIN all = 1..n + Len(rest)
      /\ \A i \in 1..n : all[i] = head[i]
      /\ \A i \in n + 1..n + Len(rest) : all[i] = rest[i - n] /\ i - n \in DOMAIN rest
  <2>1. all \in Seq(Blocks) /\ DOMAIN all = 1..n + Len(rest)
    BY <1>3, <1>6, <1>7
  <2>2. \A i \in 1..n : all[i] = head[i]
    BY <1>3, <1>6, <1>7
  <2>3. \A i \in n + 1..n + Len(rest) : all[i] = rest[i - n] /\ i - n \in DOMAIN rest
    BY <1>3, <1>6, <1>7, SMTT(40)
  <2> QED BY <2>1, <2>2, <2>3
<1>9. \A i \in DOMAIN rest : i + n \in n + 1..n + Len(rest) /\ all[i + n] = rest[i]
  <2> SUFFICES ASSUME NEW i \in DOMAIN rest
               PROVE  i + n \in n + 1..n + Len(rest) /\ all[i + n] = rest[i]
    OBVIOUS
  <2>1. PICK k : k = i + n
    OBVIOUS
  <2>2. k \in n + 1..n + Len(rest) /\ k - n = i
    BY <1>6, <1>7, <2>1
  <2>3. all[k] = rest[k - n]
    BY <1>8, <2>2
  <2> HIDE DEF all
  <2> QED BY <2>1, <2>2, <2>3
<1>10. Elements(all) = Elements(head) \cup Elements(rest)
  <2>1. \A i \in DOMAIN all : all[i] \in Elements(head) \cup Elements(rest)
    <3> SUFFICES ASSUME NEW i \in DOMAIN all
                 PROVE  all[i] \in Elements(head) \cup Elements(rest)
      OBVIOUS
    <3>1. i \in 1..n \/ i \in n + 1..n + Len(rest)
      BY <1>6, <1>7, <1>8
    <3>2. CASE i \in 1..n
      BY <1>7, <1>8, <3>2 DEF Elements
    <3>3. CASE i \in n + 1..n + Len(rest)
      BY <1>8, <3>3 DEF Elements
    <3> QED BY <3>1, <3>2, <3>3
  <2>2. \A i \in DOMAIN head : head[i] \in Elements(all)
    BY <1>6, <1>7, <1>8 DEF Elements
  <2>3. \A i \in DOMAIN rest : rest[i] \in Elements(all)
    <3> SUFFICES ASSUME NEW i \in DOMAIN rest
                 PROVE  rest[i] \in Elements(all)
      OBVIOUS
    <3>1. i + n \in DOMAIN all /\ all[i + n] = rest[i]
      BY <1>6, <1>7, <1>8, <1>9
    <3> QED BY <3>1 DEF Elements
  <2> HIDE DEF all
  <2> QED BY <2>1, <2>2, <2>3 DEF Elements
<1>11. IsInjective(all)
  <2> SUFFICES ASSUME NEW i \in DOMAIN all, NEW j \in DOMAIN all, all[i] = all[j]
               PROVE  i = j
    BY DEF IsInjective
  <2>1. (i \in 1..n \/ i \in n + 1..n + Len(rest)) /\ (j \in 1..n \/ j \in n + 1..n + Len(rest))
    BY <1>6, <1>7, <1>8
  <2>2. \A k \in 1..n : all[k] \in first..final
    BY <1>4, <1>7, <1>8 DEF Elements
  <2>3. \A k \in n + 1..n + Len(rest) : all[k] \notin first..final
    BY <1>2, <1>8 DEF Elements
  <2>4. CASE i \in 1..n /\ j \in 1..n
    BY <1>5, <1>7, <1>8, <2>4 DEF IsInjective
  <2>5. CASE i \in n + 1..n + Len(rest) /\ j \in n + 1..n + Len(rest)
    <3>1. rest[i - n] = rest[j - n] /\ i - n \in DOMAIN rest /\ j - n \in DOMAIN rest
      BY <1>8, <2>5
    <3>2. i - n = j - n
      BY <1>6, <3>1 DEF IsInjective
    <3> QED BY <1>6, <1>7, <2>5, <3>2
  <2> QED BY <2>1, <2>2, <2>3, <2>4, <2>5
<1>12. Elements(all) = Elements(list) \cup first..final
  BY <1>2, <1>4, <1>10
<1>13. ToFront(list, first, final) = all
  BY DEF ToFront, head, rest
<1> QED BY <1>8, <1>11, <1>12, <1>13 DEF ListOK

\* Eviction leaves the front of the list.
LEMMA FrontOnce ==
    ASSUME NEW list, ListOK(list), NEW n \in 0..Len(list)
    PROVE  /\ ListOK(SubSeq(list, 1, n))
           /\ Elements(SubSeq(list, 1, n)) = Foremost(list, n)
           /\ Foremost(list, n) \subseteq Elements(list)
<1>1. list \in Seq(Blocks) /\ Len(list) \in Nat /\ DOMAIN list = 1..Len(list) /\ n \in Nat
  BY DEF ListOK
<1> DEFINE f == SubSeq(list, 1, n)
<1>2. f \in Seq(Blocks) /\ DOMAIN f = 1..n /\ \A i \in 1..n : f[i] = list[i] /\ i \in DOMAIN list
  BY <1>1
<1> HIDE DEF f
<1>3. IsInjective(f)
  BY <1>2 DEF ListOK, IsInjective
<1>4. Elements(f) = Foremost(list, n) /\ Foremost(list, n) \subseteq Elements(list)
  BY <1>2 DEF Elements, Foremost
<1> QED BY <1>2, <1>3, <1>4 DEF ListOK, f

LEMMA Restricted ==
    ASSUME NEW B, NEW S, S \subseteq B
    PROVE  Restrict(Contents(B), S) = Contents(S)
BY DEF Restrict, Contents

LEMMA FittingFits ==
    ASSUME NEW list, ListOK(list)
    PROVE  /\ Fitting(list, Contents(Elements(list))) \in 0..Len(list)
           /\ Size(Contents(Foremost(list, Fitting(list, Contents(Elements(list)))))) <= MaxCachedBytes
<1> DEFINE B == Elements(list)
           K == {k \in 0..Len(list) : Size(Restrict(Contents(B), Foremost(list, k))) <= MaxCachedBytes}
<1>1. Len(list) \in Nat /\ 0 \in 0..Len(list)
  BY DEF ListOK
<1>2. \A k \in 0..Len(list) : Restrict(Contents(B), Foremost(list, k)) = Contents(Foremost(list, k))
  BY FrontOnce, Restricted
<1>3. 0 \in K
  <2>1. Foremost(list, 0) = {}
    BY DEF Foremost
  <2>2. Size(Contents({})) = 0
    <3>1. UNION {{b} \X DOMAIN Contents({})[b] : b \in DOMAIN Contents({})} = {}
      BY DEF Contents
    <3> QED BY <3>1, FS_EmptySet DEF Size
  <2>3. Restrict(Contents(B), Foremost(list, 0)) = Contents({})
    BY <1>1, <1>2, <2>1
  <2>4. 0 <= MaxCachedBytes
    BY BlockProxyAssumption
  <2> HIDE DEF B
  <2> QED BY <1>1, <2>2, <2>3, <2>4
<1>4. Max(K) \in K
  <2> HIDE DEF B
  <2>1. K \subseteq 0..Len(list) /\ K # {}
    BY <1>3
  <2> HIDE DEF K
  <2> QED BY <1>1, <2>1, MaxIn
<1>5. Fitting(list, Contents(B)) = Max(K)
  BY DEF Fitting
<1> HIDE DEF B
<1> QED BY <1>2, <1>4, <1>5 DEF B

-----------------------------------------------------------------------------
LEMMA StoreKeeps ==
    ASSUME CacheOK, NEW first \in Blocks, NEW final \in Blocks, first <= final, Store(first, final)
    PROVE  CacheOK'
<1> DEFINE F == first..final
           C == Elements(lru)
           list == ToFront(lru, first, final)
           n == Fitting(list, Contents(C \cup F))
           K == Foremost(list, n)
<1>1. /\ ListOK(lru) /\ C = Cached /\ data = Contents(C)
      /\ cachedBytes = Size(Contents(C))
  BY DEF CacheOK, CacheExact, ListOK, Cached, Elements
<1>2. F \subseteq Blocks /\ C \subseteq Blocks
  BY <1>1, BlocksBetween DEF ListOK, Elements
<1>3. ListOK(list) /\ Elements(list) = C \cup F
  BY <1>1, ToFrontOnce
<1>4. Cut(first, final) = Contents(F)
  BY CutContents
<1>5. WithFetched(first, final) = Contents(C \cup F)
  BY <1>1, <1>4 DEF WithFetched, Contents
<1>6. n \in 0..Len(list) /\ Size(Contents(K)) <= MaxCachedBytes
  BY <1>3, FittingFits
<1>7. ListOK(SubSeq(list, 1, n)) /\ Elements(SubSeq(list, 1, n)) = K /\ K \subseteq C \cup F
  BY <1>3, <1>6, FrontOnce
<1>8. /\ lru' = SubSeq(list, 1, n)
      /\ data' = Restrict(Contents(C \cup F), K)
      /\ cachedBytes' = cachedBytes + Size(Restrict(Contents(F), F \ C))
                           - Size(Restrict(Contents(C \cup F), (C \cup F) \ K))
  <2>1. DOMAIN Contents(C \cup F) = C \cup F
    BY DEF Contents
  <2>2. Counted(first, final) = Size(Restrict(Contents(F), F \ C))
    BY <1>1, <1>4 DEF Counted
  <2> QED BY <1>5, <2>1, <2>2 DEF Store
<1>9. /\ data' = Contents(K)
      /\ cachedBytes' = Size(Contents(C)) + Size(Contents(F \ C)) - Size(Contents((C \cup F) \ K))
  <2>1. F \ C \subseteq F /\ (C \cup F) \ K \subseteq C \cup F
    OBVIOUS
  <2> QED BY <1>1, <1>7, <1>8, <2>1, Restricted
<1> HIDE DEF F, C, list, n, K
<1> DEFINE U == C \cup F
           G == F \ C
           D == U \ K
<1>10. Size(Contents(U)) = Size(Contents(C)) + Size(Contents(G))
  <2>1. U = C \cup G /\ C \cap G = {} /\ G \subseteq Blocks
    BY <1>2
  <2> QED BY <1>2, <2>1, SizesAdd
<1>11. Size(Contents(U)) = Size(Contents(K)) + Size(Contents(D))
  <2>1. U = K \cup D /\ K \cap D = {} /\ D \subseteq Blocks /\ K \subseteq Blocks
    BY <1>2, <1>7
  <2> QED BY <2>1, SizesAdd
<1>12. cachedBytes' = Size(Contents(K))
  <2>1. /\ Size(Contents(K)) \in Nat /\ Size(Contents(D)) \in Nat
        /\ Size(Contents(C)) \in Nat /\ Size(Contents(G)) \in Nat
    BY <1>2, <1>7, SizeType
  <2>2. cachedBytes' = Size(Contents(C)) + Size(Contents(G)) - Size(Contents(D))
    BY <1>9
  <2> HIDE DEF U, G, D
  <2> QED BY <1>10, <1>11, <2>1, <2>2
<1>13. Cached' = K
  <2>1. Cached' = Elements(lru')
    BY DEF Cached, Elements
  <2> QED BY <1>7, <1>8, <2>1
<1>14. lru' \in Seq(Blocks) /\ IsInjective(lru')
  BY <1>7, <1>8 DEF ListOK
<1>15. DOMAIN data' = K
  BY <1>9 DEF Contents
<1> QED BY <1>6, <1>9, <1>12, <1>13, <1>14, <1>15 DEF CacheOK, CacheExact

\* The blocks of a request, and where they begin.
LEMMA Covered ==
    ASSUME NEW q, q.start \in Offsets, q.end \in Offsets, q.start <= q.end
    PROVE  /\ q.start \in Nat /\ q.end \in Nat /\ q.end < Total
           /\ First(q) \in Blocks /\ Final(q) \in Blocks /\ First(q) <= Final(q)
           /\ First(q) \in Nat /\ Final(q) \in Nat
           /\ First(q) * BlockSize <= q.start /\ q.start < First(q) * BlockSize + BlockSize
           /\ Final(q) * BlockSize <= q.end /\ q.end < Final(q) * BlockSize + BlockSize
<1> DEFINE f == q.start \div BlockSize
           l == q.end \div BlockSize
           s == q.start
           e == q.end
<1>1. s \in Nat /\ e \in Nat /\ e < Total /\ s <= e /\ BlockSize \in Nat
  BY BlockProxyAssumption DEF Offsets
<1>2. f \in Nat /\ f * BlockSize \in Nat /\ f * BlockSize <= s /\ s < f * BlockSize + BlockSize
  BY <1>1, Quotient
<1>3. l \in Nat /\ l * BlockSize \in Nat /\ l * BlockSize <= e /\ e < l * BlockSize + BlockSize
  BY <1>1, Quotient
<1>4. f \in Blocks /\ l \in Blocks
  BY OffsetBlock
<1>5. First(q) = f /\ Final(q) = l
  BY DEF First, Final
<1> HIDE DEF f, l, s, e
<1>6. ~ (l < f)
  BY <1>1, <1>2, <1>3, Multiples
<1>7. f <= l
  BY <1>2, <1>3, <1>6
<1> QED BY <1>1, <1>2, <1>3, <1>4, <1>5, <1>7 DEF s, e

\* What a request takes from a block, and where that ends.
Taken(q) == IF q.next = Final(q) THEN q.end ELSE q.next * BlockSize + BlockSize - 1

LEMMA SliceIs ==
    ASSUME NEW q, q.start \in Offsets, q.end \in Offsets, q.start <= q.end,
           q.next \in First(q)..Final(q), data[q.next] = ContentOf(q.next)
    PROVE  /\ Slice(q) = Bytes(Reached(q), Taken(q))
           /\ Reached(q) \in Nat /\ Taken(q) \in Nat
           /\ q.start <= Reached(q) /\ Reached(q) <= Taken(q) + 1
<1> DEFINE b == q.next
           base == b * BlockSize
           top == LesserOf(base + BlockSize, Total)
           lo == IF b = First(q) THEN q.start - base ELSE 0
           hi == IF b = Final(q) THEN q.end - base + 1 ELSE Len(ContentOf(b))
           s == q.start
           e == q.end
           f == First(q) * BlockSize
           l == Final(q) * BlockSize
<1>1. /\ s \in Nat /\ e \in Nat /\ s <= e /\ e < Total
      /\ First(q) \in Nat /\ Final(q) \in Nat
      /\ f <= s /\ s < f + BlockSize /\ l <= e /\ e < l + BlockSize
  BY Covered
<1>2. b \in Nat /\ First(q) <= b /\ b <= Final(q) /\ b \in Blocks
  <2>1. First(q) \in Blocks /\ Final(q) \in Blocks
    BY Covered
  <2> QED BY <1>1, <2>1, BlocksBetween
<1>3. /\ base \in Nat /\ f \in Nat /\ l \in Nat /\ BlockSize \in Nat \ {0} /\ Total \in Nat
      /\ b = First(q) => base = f
      /\ b = Final(q) => base = l
      /\ b # First(q) => f + BlockSize <= base
      /\ b # Final(q) => base + BlockSize <= l
  <2>1. base \in Nat /\ f \in Nat /\ l \in Nat /\ BlockSize \in Nat \ {0} /\ Total \in Nat
    BY <1>1, <1>2, Multiples, BlockProxyAssumption
  <2>2. (b = First(q) => base = f) /\ (b = Final(q) => base = l)
    OBVIOUS
  <2>3. ASSUME b # First(q)
        PROVE  f + BlockSize <= base
    <3>1. First(q) < b
      BY <1>1, <1>2, <2>3
    <3> QED BY <1>1, <1>2, <3>1, Multiples
  <2>4. ASSUME b # Final(q)
        PROVE  base + BlockSize <= l
    <3>1. b < Final(q)
      BY <1>1, <1>2, <2>4
    <3> QED BY <1>1, <1>2, <3>1, Multiples
  <2> QED BY <2>1, <2>2, <2>3, <2>4
<1>4. Len(ContentOf(b)) = top - base
  BY <1>2, ContentType
<1>5. /\ Reached(q) = IF b = First(q) THEN s ELSE base
      /\ Taken(q) = IF b = Final(q) THEN e ELSE base + BlockSize - 1
  BY DEF Reached, Taken
<1>6. Slice(q) = SubSeq(ContentOf(b), lo + 1, hi)
  BY DEF Slice
<1>7. ContentOf(b) = Bytes(base, top - 1)
  BY DEF ContentOf
<1>8. /\ Reached(q) \in Nat /\ Taken(q) \in Nat /\ s <= Reached(q) /\ Reached(q) <= Taken(q) + 1
      /\ base <= Reached(q) /\ Taken(q) + 1 <= top
  <2> HIDE DEF base, f, l, s, e, b
  <2> QED BY <1>1, <1>3, <1>5 DEF LesserOf
<1>9. top \in Nat /\ top - 1 \in Nat /\ lo + 1 = Reached(q) - base + 1 /\ hi = Taken(q) + 1 - base
  <2> HIDE DEF base, f, l, s, e, b
  <2>1. top \in Nat /\ top - 1 \in Nat
    BY <1>1, <1>3 DEF LesserOf
  <2>2. b # Final(q) => top = base + BlockSize
    BY <1>1, <1>3 DEF LesserOf
  <2> HIDE DEF top
  <2>3. lo + 1 = Reached(q) - base + 1
    BY <1>1, <1>3, <1>5 DEF s
  <2>4. hi = Taken(q) + 1 - base
    <3>1. CASE b = Final(q)
      BY <1>1, <1>3, <1>5, <3>1 DEF e
    <3>2. CASE b # Final(q)
      BY <1>1, <1>3, <1>4, <1>5, <2>2, <3>2
    <3> QED BY <3>1, <3>2
  <2> QED BY <2>1, <2>3, <2>4
<1>10. PICK i, j, c, r, t : i = lo + 1 /\ j = hi /\ c = top - 1 /\ r = Reached(q) /\ t = Taken(q)
  OBVIOUS
<1> HIDE DEF base, top, lo, hi
<1>11. Part(Bytes(base, c), i, j) = Bytes(r, t)
  <2>1. /\ base \in Nat /\ c \in Nat /\ i \in Nat /\ j \in Nat /\ r \in Nat /\ t \in Int
        /\ 1 <= i /\ i <= j + 1 /\ j <= c + 1 - base /\ r = base + i - 1 /\ t = base + j - 1
    <3>1. base \in Nat /\ c \in Nat /\ r \in Nat /\ t \in Nat /\ base <= r /\ r <= t + 1 /\ t <= c
          /\ i = r - base + 1 /\ j = t + 1 - base
      BY <1>3, <1>8, <1>9, <1>10
    <3> QED BY <3>1
  <2> QED BY <2>1, PartOf
<1>12. Slice(q) = Bytes(Reached(q), Taken(q))
  BY <1>6, <1>7, <1>10, <1>11 DEF Part
<1> QED BY <1>8, <1>12 DEF s

-----------------------------------------------------------------------------
\* Each step, on the cache and on the request that takes it.
LEMMA RequestMoves ==
    ASSUME RequestsOK, NEW r \in Requests, NEW q \in RequestType, RequestOK(q),
           req' = [req EXCEPT ![r] = q]
    PROVE  RequestsOK'
<1>1. req' \in [Requests -> RequestType]
  BY DEF RequestsOK
<1>2. \A x \in Requests : RequestOK(req'[x])
  BY DEF RequestsOK
<1> QED BY <1>1, <1>2 DEF RequestsOK

LEMMA CacheStays ==
    ASSUME CacheOK, UNCHANGED <<lru, data, cachedBytes>>
    PROVE  CacheOK'
BY DEF CacheOK, CacheExact, Cached, IsInjective, Size

LEMMA NoRequestOK == NoRequest \in RequestType /\ NoRequest.out = <<>>
BY DEF NoRequest, RequestType

LEMMA ServeStep ==
    ASSUME ProxyInv, NEW r \in Requests, Serve(r)
    PROVE  ProxyInv'
<1>1. CacheOK'
  BY CacheStays DEF ProxyInv, Serve
<1>2. PICK s \in Offsets, e \in Offsets :
        s <= e /\ req' = [req EXCEPT ![r] = [NoRequest EXCEPT !.at = "look", !.start = s, !.end = e]]
  BY DEF Serve
<1> DEFINE q == [NoRequest EXCEPT !.at = "look", !.start = s, !.end = e]
<1>3. q \in RequestType /\ q.at = "look" /\ q.start = s /\ q.end = e /\ q.out = <<>>
  <2>1. s \in Nat /\ e \in Nat
    BY DEF Offsets
  <2> QED BY <2>1, NoRequestOK DEF RequestType
<1> HIDE DEF q
<1>4. RequestOK(q)
  BY <1>2, <1>3 DEF RequestOK
<1>5. req' = [req EXCEPT ![r] = q]
  BY <1>2 DEF q
<1>6. RequestsOK'
  BY <1>3, <1>4, <1>5, RequestMoves DEF ProxyInv
<1> QED BY <1>1, <1>6 DEF ProxyInv

LEMMA LookStep ==
    ASSUME ProxyInv, NEW r \in Requests, Look(r)
    PROVE  ProxyInv'
<1>1. CacheOK'
  BY CacheStays DEF ProxyInv, Look
<1> DEFINE q == req[r]
           m == (First(q)..Final(q)) \ Cached
           p == [q EXCEPT !.at = "fetch", !.missing = m, !.next = First(q)]
<1>2. q \in RequestType /\ q.at = "look" /\ RequestOK(q)
  BY DEF ProxyInv, RequestsOK, Look
<1>3. q.start \in Offsets /\ q.end \in Offsets /\ q.start <= q.end
  BY <1>2 DEF RequestOK
<1>4. /\ q.start \in Nat /\ First(q) \in Nat /\ Final(q) \in Nat /\ First(q) <= Final(q)
      /\ First(q) \in Blocks /\ Final(q) \in Blocks
  BY <1>3, Covered
<1>5. m \subseteq Blocks
  BY <1>4, BlocksBetween
<1>6. req' = [req EXCEPT ![r] = p]
  BY DEF ProxyInv, RequestsOK, RequestType, Look
<1>7. q.out = <<>>
  BY DEF ProxyInv, RequestsOK, RequestOK, Look
<1> HIDE DEF m
<1>8. /\ p \in RequestType /\ p.at = "fetch" /\ p.start = q.start /\ p.end = q.end
      /\ p.missing = m /\ p.next = First(q) /\ p.out = q.out
  BY <1>2, <1>4, <1>5 DEF RequestType
<1> HIDE DEF p, q
<1>9. First(p) = First(q) /\ Final(p) = Final(q)
  BY <1>8 DEF First, Final
<1>10. Reached(p) = q.start
  BY <1>8, <1>9 DEF Reached
<1>11. Bytes(q.start, q.start - 1) = <<>>
  BY <1>4 DEF Bytes
<1>12. RequestOK(p)
  BY <1>3, <1>4, <1>7, <1>8, <1>9, <1>10, <1>11 DEF RequestOK, m
<1>13. RequestsOK'
  BY <1>6, <1>8, <1>12, RequestMoves DEF ProxyInv
<1> QED BY <1>1, <1>13 DEF ProxyInv

LEMMA FetchRunStep ==
    ASSUME ProxyInv, NEW r \in Requests, FetchRun(r)
    PROVE  ProxyInv'
<1> DEFINE q == req[r]
           first == Min(q.missing)
           run == {b \in q.missing : first..b \subseteq q.missing}
           final == RunEnd(q.missing)
           p == [q EXCEPT !.missing = q.missing \ (first..final)]
<1>1. q \in RequestType /\ q.at = "fetch" /\ q.missing # {} /\ RequestOK(q)
  BY DEF ProxyInv, RequestsOK, FetchRun
<1>2. q.missing \subseteq Blocks
  BY <1>1 DEF RequestType
<1>3. \E n \in Nat : Blocks = 0..n
  <2>1. (Total - 1) \div BlockSize \in Nat
    BY BlockProxyAssumption, Quotient
  <2> QED BY <2>1 DEF Blocks
<1>4. first \in q.missing
  <2>1. q.missing \subseteq Nat
    BY <1>2, <1>3
  <2> QED BY <1>1, <2>1, MinIn
<1>5. final \in run
  <2>1. first \in Nat
    BY <1>2, <1>3, <1>4
  <2> HIDE DEF first
  <2>2. first..first \subseteq q.missing
    BY <1>4, <2>1
  <2>3. run # {} /\ run \subseteq Blocks
    BY <1>2, <1>4, <2>2
  <2>4. Max(run) \in run
    <3> HIDE DEF run
    <3> QED BY <1>3, <2>3, MaxIn
  <2> QED BY <2>4 DEF RunEnd, first
<1>6. first \in Blocks /\ final \in Blocks /\ first <= final
  <2>1. \A y \in q.missing : first <= y
    <3>1. q.missing \subseteq Nat
      BY <1>2, <1>3
    <3> QED BY <1>1, <3>1, MinIn
  <2> QED BY <1>2, <1>4, <1>5, <2>1
<1>7. CacheOK'
  <2>1. Store(first, final)
    BY DEF FetchRun
  <2> HIDE DEF first, final
  <2> QED BY <1>6, <2>1, StoreKeeps DEF ProxyInv
<1>8. req' = [req EXCEPT ![r] = p]
  BY DEF ProxyInv, RequestsOK, RequestType, FetchRun
<1> HIDE DEF first, final, q
<1>9. /\ p \in RequestType /\ p.at = "fetch" /\ p.start = q.start /\ p.end = q.end
      /\ p.missing \subseteq q.missing /\ p.next = q.next /\ p.out = q.out
  BY <1>1 DEF RequestType
<1> HIDE DEF p
<1>10. First(p) = First(q) /\ Final(p) = Final(q) /\ Reached(p) = Reached(q)
  BY <1>9 DEF First, Final, Reached
<1>11. RequestOK(p)
  BY <1>1, <1>9, <1>10 DEF RequestOK
<1>12. RequestsOK'
  BY <1>8, <1>9, <1>11, RequestMoves DEF ProxyInv, q
<1> QED BY <1>7, <1>12 DEF ProxyInv

LEMMA GiveUpStep ==
    ASSUME ProxyInv, NEW r \in Requests, FetchFails(r) \/ Vanished(r)
    PROVE  ProxyInv'
<1>1. CacheOK'
  BY CacheStays DEF ProxyInv, FetchFails, Vanished
<1>2. PICK s \in {"failed", "vanished"} : req' = [req EXCEPT ![r] = [NoRequest EXCEPT !.at = s]]
  BY DEF FetchFails, Vanished
<1> DEFINE q == [NoRequest EXCEPT !.at = s]
<1>3. q \in RequestType /\ q.at \in {"failed", "vanished"}
  BY NoRequestOK DEF RequestType
<1> HIDE DEF q
<1>4. RequestOK(q)
  BY <1>3 DEF RequestOK
<1>5. RequestsOK'
  BY <1>2, <1>3, <1>4, RequestMoves DEF ProxyInv, q
<1> QED BY <1>1, <1>5 DEF ProxyInv

LEMMA AssembleStep ==
    ASSUME ProxyInv, NEW r \in Requests, Assemble(r)
    PROVE  ProxyInv'
<1> DEFINE q == req[r]
           b == q.next
           p == [q EXCEPT !.out = q.out \o Slice(q), !.next = b + 1,
                          !.at = IF b = Final(q) THEN "served" ELSE "fetch"]
<1>1. /\ q \in RequestType /\ q.at = "fetch" /\ q.missing = {} /\ b \in Cached /\ RequestOK(q)
      /\ lru' = ToFront(lru, b, b) /\ UNCHANGED <<data, cachedBytes>>
  BY DEF ProxyInv, RequestsOK, Assemble
<1>2. /\ q.start \in Offsets /\ q.end \in Offsets /\ q.start <= q.end
      /\ b \in First(q)..Final(q) /\ q.out = Bytes(q.start, Reached(q) - 1)
  BY <1>1 DEF RequestOK
<1>3. ListOK(lru) /\ Elements(lru) = Cached /\ Cached \subseteq Blocks
  BY DEF ProxyInv, CacheOK, CacheExact, ListOK, Cached, Elements
<1>4. b \in Blocks /\ b \in Nat
  BY <1>1, <1>3, BlockBounds
<1>5. data[b] = ContentOf(b)
  BY <1>1 DEF ProxyInv, CacheOK, Contents
<1>6. req' = [req EXCEPT ![r] = p]
  BY DEF ProxyInv, RequestsOK, RequestType, Assemble
<1>7. CacheOK'
  <2> HIDE DEF b
  <2>1. ListOK(lru') /\ Elements(lru') = Cached \cup b..b
    BY <1>1, <1>3, <1>4, ToFrontOnce
  <2>2. Elements(lru') = Cached
    BY <1>1, <1>4, <2>1
  <2>3. Cached' = Cached
    BY <2>2 DEF Cached, Elements
  <2>4. Size(data)' = Size(data) /\ (DOMAIN data)' = DOMAIN data /\ Contents(Cached)' = Contents(Cached)
    BY <1>1, <2>3 DEF Contents, Size
  <2>5. IsInjective(lru)' /\ lru' \in Seq(Blocks)
    BY <2>1 DEF ListOK, IsInjective
  <2> QED BY <1>1, <2>3, <2>4, <2>5 DEF ProxyInv, CacheOK, CacheExact
<1> HIDE DEF q
<1>8. /\ Slice(q) = Bytes(Reached(q), Taken(q))
      /\ Reached(q) \in Nat /\ Taken(q) \in Nat
      /\ q.start \in Nat /\ q.start <= Reached(q) /\ Reached(q) <= Taken(q) + 1
  <2>1. q.start \in Nat
    BY <1>2, Covered
  <2> QED BY <1>2, <1>5, <2>1, SliceIs
<1>9. q.out \o Slice(q) = Bytes(q.start, Taken(q)) /\ Bytes(q.start, Taken(q)) \in Seq(Nat)
  <2>1. q.start <= Taken(q) + 1 /\ Taken(q) \in Int
    BY <1>8
  <2>2. Bytes(q.start, Taken(q)) \in Seq(Nat)
    BY <1>8, <2>1, BytesType
  <2>3. Bytes(q.start, Reached(q) - 1) \o Bytes(Reached(q), Taken(q)) = Bytes(q.start, Taken(q))
    BY <1>8, Joined
  <2> QED BY <1>2, <1>8, <2>2, <2>3
<1>10. /\ p \in RequestType /\ p.at = (IF b = Final(q) THEN "served" ELSE "fetch")
       /\ p.start = q.start /\ p.end = q.end /\ p.missing = {} /\ p.next = b + 1
       /\ p.out = Bytes(q.start, Taken(q))
  <2>1. PICK v : v = q.out \o Slice(q)
    OBVIOUS
  <2>2. v \in Seq(Nat) /\ v = Bytes(q.start, Taken(q))
    BY <1>9, <2>1
  <2>3. PICK w \in {"served", "fetch"} : w = IF b = Final(q) THEN "served" ELSE "fetch"
    OBVIOUS
  <2>4. p = [q EXCEPT !.out = v, !.next = b + 1, !.at = w]
    BY <2>1, <2>3
  <2>5. b + 1 \in Nat
    BY <1>4
  <2> HIDE DEF p, b
  <2> QED BY <1>1, <2>2, <2>3, <2>4, <2>5 DEF RequestType
<1> HIDE DEF p
<1>11. First(p) = First(q) /\ Final(p) = Final(q)
  BY <1>10 DEF First, Final
<1>12. First(q) \in Nat /\ Final(q) \in Nat
  BY <1>2, Covered
<1>13. RequestOK(p)
  <2>1. CASE b = Final(q)
    <3>1. Taken(q) = q.end
      BY <2>1 DEF Taken
    <3> QED BY <1>2, <1>10, <2>1, <3>1 DEF RequestOK
  <2>2. CASE b # Final(q)
    <3>1. b + 1 \in First(q)..Final(q) /\ b + 1 # First(q)
      BY <1>2, <1>4, <1>12, <2>2
    <3>2. Reached(p) = (b + 1) * BlockSize /\ Taken(q) = b * BlockSize + BlockSize - 1
      BY <1>10, <1>11, <2>2, <3>1 DEF Reached, Taken
    <3>3. (b + 1) * BlockSize = b * BlockSize + BlockSize /\ b * BlockSize \in Nat /\ BlockSize \in Nat
      BY <1>4, Multiples, BlockProxyAssumption
    <3>4. Taken(q) = Reached(p) - 1
      <4>1. Reached(p) = b * BlockSize + BlockSize
        BY <3>2, <3>3
      <4> QED BY <3>2, <3>3, <4>1
    <3> QED BY <1>2, <1>10, <1>11, <2>2, <3>1, <3>4 DEF RequestOK
  <2> QED BY <2>1, <2>2
<1>14. RequestsOK'
  BY <1>6, <1>10, <1>13, RequestMoves DEF ProxyInv, q
<1> QED BY <1>7, <1>14 DEF ProxyInv

-----------------------------------------------------------------------------
LEMMA ProxyInvStarts ==
    ASSUME ProxyInit
    PROVE  ProxyInv
<1>1. lru = <<>> /\ data = <<>> /\ cachedBytes = 0
  BY DEF ProxyInit
<1>2. Cached = {} /\ lru \in Seq(Blocks) /\ IsInjective(lru)
  BY <1>1 DEF Cached, IsInjective
<1>3. data = Contents(Cached) /\ DOMAIN data = {}
  BY <1>1, <1>2 DEF Contents
<1>4. Size(data) = 0
  <2>1. UNION {{b} \X DOMAIN data[b] : b \in DOMAIN data} = {}
    BY <1>3
  <2> QED BY <2>1, FS_EmptySet DEF Size
<1>5. CacheOK
  BY <1>1, <1>2, <1>3, <1>4, BlockProxyAssumption DEF CacheOK, CacheExact
<1>6. NoRequest \in RequestType /\ RequestOK(NoRequest)
  BY NoRequestOK DEF NoRequest, RequestOK
<1>7. RequestsOK
  BY <1>6 DEF RequestsOK, ProxyInit
<1> QED BY <1>5, <1>7 DEF ProxyInv

LEMMA ProxyInvKept == ProxySpec => []ProxyInv
<1>1. ProxyInit => ProxyInv
  BY ProxyInvStarts
<1>2. ProxyInv /\ [ProxyNext]_proxyVars => ProxyInv'
  <2> SUFFICES ASSUME ProxyInv, [ProxyNext]_proxyVars
               PROVE  ProxyInv'
    OBVIOUS
  <2>1. CASE UNCHANGED proxyVars
    <3>1. CacheOK' /\ RequestsOK'
      BY <2>1, CacheStays DEF ProxyInv, RequestsOK, proxyVars
    <3> QED BY <3>1 DEF ProxyInv
  <2>2. CASE ProxyNext
    BY <2>2, ServeStep, LookStep, FetchRunStep, GiveUpStep, AssembleStep DEF ProxyNext
  <2> QED BY <2>1, <2>2
<1> QED BY <1>1, <1>2, PTL DEF ProxySpec

\* The count of the cache's bytes is right and keeps to the cap, and list and
\* map agree, whatever fetches overlap (proxy.go:246).
THEOREM CacheIsExact == ProxySpec => []CacheExact
<1>1. ProxyInv => CacheExact
  BY DEF ProxyInv, CacheOK
<1> QED BY <1>1, ProxyInvKept, PTL

\* Whoever is served gets the bytes asked for (proxy.go:175).
THEOREM ServedAsAsked == ProxySpec => []ServedExactly
<1>1. ProxyInv => ServedExactly
  BY DEF ProxyInv, RequestsOK, RequestOK, ServedExactly
<1> QED BY <1>1, ProxyInvKept, PTL
=============================================================================
