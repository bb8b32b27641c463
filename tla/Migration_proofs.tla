-------------------------- MODULE Migration_proofs --------------------------
(***************************************************************************)
(* Theorems about Migration: the types, and that every row names a file    *)
(* that is there, for any number of recordings, roots, requests, failed    *)
(* steps, kills, late appends and deletions, while the power does not      *)
(* fail.                                                                   *)
(*                                                                         *)
(* The worker acts on a list that may be hours old.  What keeps the rows   *)
(* right is that only rows outside the target are listed, so that an       *)
(* item's source is not its target; that the copy stays until the row is   *)
(* rewritten, unless the recording is deleted or appended to; and that     *)
(* between the rewriting and the deletion nobody moves the row back        *)
(* (Handled).                                                              *)
(***************************************************************************)
EXTENDS Migration, TLAPS, WellFoundedInduction

\* Late appends: they extend what there is, up to the bound.
Appended ==
    \A r \in Recs :
        /\ newest[r] <= setup.versions /\ (r > last => newest[r] = 0)
        /\ grow[r] # "no" => newest[r] # 0
        /\ grow[r] = "written" => newest[r] < setup.versions
        /\ grow[r] = "committed" => newest[r] > 1

\* Rows name what is there.
Named ==
    \A r \in Listed :
        /\ row[r].version <= newest[r]
        /\ newest[r] = 1 => FileOf(r) \in disk

\* The list is of rows there have been, outside the target.
Known == \A i \in work.todo : i.version <= newest[i.rec] /\ i.root # work.to

\* The item at work.
Handled ==
    /\ work.at = "rewrite" /\ Item.rec \in Listed /\ newest[Item.rec] = 1 => Target \in disk
    /\ work.at = "delete" /\ Item.rec \in Listed /\ newest[Item.rec] = 1
          => row[Item.rec].root = work.to

Sound == outages = 0 => torn = {} /\ Named /\ Known /\ Handled

IInv == TypeOK /\ Appended /\ Sound

-----------------------------------------------------------------------------
LEMMA SetupFacts ==
    ASSUME setup \in Setups
    PROVE  /\ NumRecs \in Nat /\ MaxVersion \in Nat \ {0} /\ Recs = 1..NumRecs
           /\ Versions = 1..MaxVersion /\ Home \in Roots /\ None \notin Roots
           /\ setup.recs \in 0..NumRecs /\ setup.versions \in Versions
           /\ setup.fails \in Nat /\ setup.kills \in Nat /\ setup.outages \in Nat
           /\ setup.deletes \in Nat /\ setup.requests \in Nat
BY MigrationAssumption DEF SetupType, Recs, Versions

\* What the types say that every step needs.
LEMMA Numbers ==
    ASSUME TypeOK
    PROVE  /\ setup \in Setups /\ last \in 0..NumRecs /\ Recs \subseteq Nat /\ Versions \subseteq Nat
           /\ 0 \notin Versions /\ None \notin Roots /\ Home \in Roots
           /\ newest \in [Recs -> Nat]
           /\ \A r \in Listed : row[r] \in Rows /\ row[r].version # 0 /\ row[r].root \in Roots
           /\ \A r \in Recs \ Listed : row[r] = NoRow
           /\ Listed \subseteq Recs
<1>1. setup \in Setups /\ last \in 0..NumRecs /\ row \in [Recs -> Rows \cup {NoRow}]
         /\ newest \in [Recs -> 0..MaxVersion]
  BY DEF TypeOK
<1>2. Recs \subseteq Nat /\ Versions \subseteq Nat /\ 0 \notin Versions /\ 0..MaxVersion \subseteq Nat
  BY <1>1, SetupFacts
<1>3. newest \in [Recs -> Nat]
  BY <1>1, <1>2
<1>4. \A r \in Listed : row[r] \in Rows
  BY <1>1 DEF Listed
<1> QED BY <1>1, <1>2, <1>3, <1>4, SetupFacts DEF Rows, Listed

\* The item at work is on the list.
LEMMA ItemIn ==
    ASSUME TypeOK, work.todo # {}
    PROVE  /\ Item \in work.todo /\ Item \in Items
           /\ Item.rec \in Recs /\ Item.root \in Roots /\ Item.version \in Versions
           /\ work.to \in Roots
<1>1. work.todo \subseteq Items /\ work.to \in Roots
  BY DEF TypeOK, WorkType
<1>2. \A i \in Items : i.rec \in Nat
  BY Numbers DEF Items
<1> DEFINE recs == {i.rec : i \in work.todo}
<1>3. recs \subseteq Nat /\ recs # {}
  BY <1>1, <1>2
<1>4. PICK x \in recs : \A y \in recs : ~ (<<y, x>> \in OpToRel(<, Nat))
  BY <1>3, NatLessThanWellFounded, WFMin
<1>5. PICK i \in work.todo : i.rec = x
  BY <1>4
<1>6. \A j \in work.todo : i.rec <= j.rec
  <2> SUFFICES ASSUME NEW j \in work.todo
               PROVE  i.rec <= j.rec
    OBVIOUS
  <2>1. i.rec \in Nat /\ j.rec \in Nat /\ j.rec \in recs
    BY <1>1, <1>2
  <2>2. ~ (j.rec < i.rec)
    BY <1>4, <1>5, <2>1 DEF OpToRel
  <2> QED BY <2>1, <2>2
<1>7. Item \in work.todo
  BY <1>5, <1>6 DEF Item
<1> QED BY <1>1, <1>7 DEF Items

\* It stays the same while the list does.
LEMMA SameItem ==
    ASSUME work'.todo = work.todo
    PROVE  Item' = Item
BY DEF Item

-----------------------------------------------------------------------------
\* Types, and what is appended.
Base == TypeOK /\ Appended

LEMMA InitIInv == Init => IInv
<1> SUFFICES ASSUME Init
             PROVE  IInv
  OBVIOUS
<1>1. setup \in Setups
  BY DEF Init
<1>2. Home \in Roots /\ setup.versions \in Nat /\ 0 \in 0..NumRecs /\ 0 \in 0..MaxVersion
         /\ 0 \in Nat /\ setup.versions >= 0 /\ Recs \subseteq Nat
         /\ 0 \in 0..setup.fails /\ 0 \in 0..setup.kills /\ 0 \in 0..setup.outages
         /\ 0 \in 0..setup.deletes /\ 0 \in 0..setup.requests /\ setup.windowed \in BOOLEAN
  BY <1>1, SetupFacts, MigrationAssumption DEF SetupType
<1>3. work \in WorkType /\ work.at = "idle" /\ work.todo = {}
  BY <1>2 DEF Init, Idle, WorkType
<1>4. TypeOK
  <2>1. /\ row = [r \in Recs |-> NoRow] /\ saved = row /\ newest = [r \in Recs |-> 0]
        /\ bucket = [r \in Recs |-> None] /\ grow = [r \in Recs |-> "no"]
        /\ out = [r \in Recs |-> Home] /\ pending = [d \in BOOLEAN |-> 0] /\ queue = <<>>
    BY DEF Init
  <2>2. /\ row \in [Recs -> Rows \cup {NoRow}] /\ saved \in [Recs -> Rows \cup {NoRow}]
        /\ bucket \in [Recs -> Roots \cup {None}] /\ out \in [Recs -> Roots]
        /\ newest \in [Recs -> 0..MaxVersion]
    BY <1>2, <2>1
  <2>3. grow \in [Recs -> {"no", "written", "committed"}]
    BY <2>1
  <2>4. pending \in [BOOLEAN -> Nat] /\ queue \in Seq([to : Roots, del : BOOLEAN])
    BY <2>1
  <2>5. /\ last = 0 /\ segment = None /\ root = Home /\ conf = Home
        /\ disk = {} /\ dirty = {} /\ torn = {} /\ late = {} /\ doomed = {}
        /\ wanted = FALSE /\ keeps = FALSE /\ open = ~setup.windowed
        /\ fails = 0 /\ kills = 0 /\ outages = 0 /\ deletes = 0 /\ requests = 0
    BY DEF Init
  <2>6. last \in 0..NumRecs /\ 0 \in 0..NumRecs /\ NumRecs \in Nat
    BY <1>1, <2>5, SetupFacts
  <2> QED BY <1>1, <1>2, <1>3, <2>2, <2>3, <2>4, <2>5, <2>6 DEF TypeOK
<1>5. Appended
  BY <1>2 DEF Init, Appended
<1>6. Listed = {}
  BY DEF Init, Listed
<1>7. Sound
  BY <1>3, <1>6 DEF Sound, Named, Known, Handled, Init
<1> QED BY <1>4, <1>5, <1>7 DEF IInv

\* Recording, appending and deleting leave the worker alone; what they do to
\* the rows is well-typed.
LEMMA RecordBase ==
    ASSUME Base, CreateSegment \/ CloseSegment, UNCHANGED setup
    PROVE  Base'
<1>1. CASE CreateSegment
  <2>1. /\ last < setup.recs /\ segment' = root
        /\ UNCHANGED <<fileVars, mergeVars, last, late, rootVars, countVars, row, saved, doomed, queue,
                       work, open, fails>>
    BY <1>1 DEF CreateSegment
  <2>2. TypeOK'
    BY <2>1 DEF Base, TypeOK, fileVars, mergeVars, rootVars, countVars
  <2> QED BY <2>1, <2>2 DEF Base, Appended, mergeVars
<1>2. CASE CloseSegment
  <2> DEFINE n == last + 1
  <2>1. /\ segment # None /\ last' = n /\ disk' = disk \cup {<<n, segment, 1>>}
        /\ row' = [row EXCEPT ![n] = [root |-> segment, version |-> 1]]
        /\ newest' = [newest EXCEPT ![n] = 1] /\ bucket' = [bucket EXCEPT ![n] = segment]
        /\ late' \in {late, late \cup {n}} /\ segment' = None
        /\ UNCHANGED <<dirty, torn, grow, out, rootVars, countVars, saved, doomed, queue, work, open, fails>>
    BY <1>2 DEF CloseSegment
  <2>2. n \in Recs /\ n \in 0..NumRecs /\ 1 \in Versions /\ 1 \in 0..MaxVersion /\ last \in Nat
           /\ Recs = 1..NumRecs /\ setup.versions \in Nat /\ 1 <= setup.versions
    <3>1. setup \in Setups /\ last \in 0..NumRecs /\ last < setup.recs
      BY <2>1 DEF Base, TypeOK
    <3>2. /\ NumRecs \in Nat /\ setup.recs \in 0..NumRecs /\ Recs = 1..NumRecs
          /\ Versions = 1..MaxVersion /\ MaxVersion \in Nat \ {0} /\ setup.versions \in Versions
      BY <3>1, SetupFacts
    <3> QED BY <3>1, <3>2
  <2>3. segment \in Roots /\ [root |-> segment, version |-> 1] \in Rows
    BY <2>1, <2>2 DEF Base, TypeOK, Rows
  <2>4. disk' \subseteq Files /\ late' \subseteq Recs /\ last' \in 0..NumRecs
    BY <2>1, <2>2, <2>3 DEF Base, TypeOK, Files
  <2>5. row' \in [Recs -> Rows \cup {NoRow}] /\ newest' \in [Recs -> 0..MaxVersion]
           /\ bucket' \in [Recs -> Roots \cup {None}]
    BY <2>1, <2>2, <2>3 DEF Base, TypeOK
  <2>6. TypeOK'
    BY <2>1, <2>4, <2>5 DEF Base, TypeOK, rootVars, countVars
  <2>7. Appended'
    <3> SUFFICES ASSUME NEW r \in Recs
                 PROVE  /\ newest'[r] <= setup.versions /\ (r > n => newest'[r] = 0)
                        /\ grow[r] # "no" => newest'[r] # 0
                        /\ grow[r] = "written" => newest'[r] < setup.versions
                        /\ grow[r] = "committed" => newest'[r] > 1
      BY <2>1 DEF Appended
    <3>1. newest \in [Recs -> Nat] /\ r \in Nat
      BY Numbers DEF Base
    <3>2. CASE r = n
      <4>1. newest[n] = 0
        BY <2>2 DEF Base, Appended
      <4>2. grow[n] = "no"
        BY <2>2, <4>1 DEF Base, Appended
      <4> QED BY <2>1, <2>2, <3>1, <3>2, <4>2
    <3>3. CASE r # n
      BY <2>1, <2>2, <3>1, <3>3 DEF Base, Appended
    <3> QED BY <3>2, <3>3
  <2> QED BY <2>6, <2>7 DEF Base
<1> QED BY <1>1, <1>2

LEMMA AppendBase ==
    ASSUME Base, UNCHANGED setup, NEW r \in Recs,
           AppendWrite(r) \/ AppendCommit(r) \/ AppendDelete(r)
    PROVE  Base'
<1>1. newest \in [Recs -> Nat] /\ setup.versions \in Versions /\ Versions = 1..MaxVersion
         /\ MaxVersion \in Nat /\ row \in [Recs -> Rows \cup {NoRow}]
         /\ bucket \in [Recs -> Roots \cup {None}] /\ out \in [Recs -> Roots] /\ disk \subseteq Files
         /\ grow \in [Recs -> {"no", "written", "committed"}] /\ last \in Nat /\ Recs \subseteq Nat
  <2>1. setup \in Setups /\ last \in 0..NumRecs /\ newest \in [Recs -> Nat] /\ Recs \subseteq Nat
    BY Numbers DEF Base
  <2>2. /\ row \in [Recs -> Rows \cup {NoRow}] /\ bucket \in [Recs -> Roots \cup {None}]
        /\ out \in [Recs -> Roots] /\ disk \subseteq Files
        /\ grow \in [Recs -> {"no", "written", "committed"}]
    BY DEF Base, TypeOK
  <2>3. /\ NumRecs \in Nat /\ setup.versions \in Versions /\ Versions = 1..MaxVersion
        /\ MaxVersion \in Nat
    BY <2>1, SetupFacts
  <2> QED BY <2>1, <2>2, <2>3
<1>2. CASE AppendWrite(r)
  <2>1. /\ newest[r] < setup.versions /\ BucketFile(r, newest[r]) \in disk
        /\ disk' = disk \cup {<<r, root, newest[r] + 1>>} /\ grow' = [grow EXCEPT ![r] = "written"]
        /\ out' = [out EXCEPT ![r] = root]
        /\ UNCHANGED <<dirty, torn, bucket, newest, recordVars, rootVars, countVars, row, saved, doomed,
                       queue, work, open, fails>>
    BY <1>2 DEF AppendWrite
  <2>2. newest[r] + 1 \in Versions /\ newest[r] # 0 /\ root \in Roots
    <3>1. newest[r] \in Versions /\ root \in Roots
      BY <1>1, <2>1 DEF BucketFile, Files, Base, TypeOK
    <3> QED BY <1>1, <2>1, <3>1
  <2>3. disk' \subseteq Files /\ out' \in [Recs -> Roots]
    BY <1>1, <2>1, <2>2 DEF Files
  <2>4. TypeOK'
    BY <2>1, <2>3 DEF Base, TypeOK, countVars, recordVars, rootVars
  <2> QED BY <1>1, <2>1, <2>2, <2>4 DEF Base, Appended, recordVars
<1>3. CASE AppendCommit(r)
  <2>1. /\ grow[r] = "written"
        /\ newest' = [newest EXCEPT ![r] = @ + 1] /\ grow' = [grow EXCEPT ![r] = "committed"]
        /\ UNCHANGED <<fileVars, bucket, out, recordVars, rootVars, countVars, saved, doomed, queue,
                       work, open, fails>>
    BY <1>3 DEF AppendCommit
  <2>2. newest[r] < setup.versions /\ newest[r] # 0
    BY <2>1 DEF Base, Appended
  <2>3. newest[r] + 1 \in Versions /\ newest[r] + 1 \in 0..MaxVersion
    BY <1>1, <2>2
  <2>4. row' \in [Recs -> Rows \cup {NoRow}]
    <3>1. [root |-> out[r], version |-> newest[r] + 1] \in Rows
      BY <1>1, <2>3 DEF Rows
    <3> QED BY <1>1, <1>3, <3>1 DEF AppendCommit
  <2>5. newest' \in [Recs -> 0..MaxVersion]
    BY <2>1, <2>3 DEF Base, TypeOK
  <2>6. TypeOK'
    BY <2>1, <2>4, <2>5 DEF Base, TypeOK, countVars, fileVars, recordVars, rootVars
  <2>7. Appended'
    <3> SUFFICES ASSUME NEW q \in Recs
                 PROVE  /\ newest'[q] <= setup.versions /\ (q > last => newest'[q] = 0)
                        /\ grow'[q] # "no" => newest'[q] # 0
                        /\ grow'[q] = "written" => newest'[q] < setup.versions
                        /\ grow'[q] = "committed" => newest'[q] > 1
      BY <2>1 DEF Appended, recordVars
    <3>1. CASE q = r
      BY <1>1, <2>1, <2>2, <3>1 DEF Base, Appended
    <3>2. CASE q # r
      BY <1>1, <2>1, <3>2 DEF Base, Appended
    <3> QED BY <3>1, <3>2
  <2> QED BY <2>6, <2>7 DEF Base
<1>4. CASE AppendDelete(r)
  <2>1. /\ disk' \subseteq disk /\ grow' = [grow EXCEPT ![r] = "no"]
        /\ bucket' = [bucket EXCEPT ![r] = out[r]]
        /\ UNCHANGED <<dirty, torn, out, newest, recordVars, rootVars, countVars, row, saved, doomed,
                       queue, work, open, fails>>
    BY <1>4 DEF AppendDelete
  <2>2. TypeOK'
    BY <1>1, <2>1 DEF Base, TypeOK, countVars, recordVars, rootVars
  <2> QED BY <1>1, <2>1, <2>2 DEF Base, Appended, recordVars
<1> QED BY <1>2, <1>3, <1>4

LEMMA DeleteBase ==
    ASSUME Base, UNCHANGED setup,
           \/ \E r \in Recs : ListDeletes(r)
           \/ \E f \in doomed : DeleteRow(f) \/ DeleteFile(f)
    PROVE  Base'
<1>1. UNCHANGED <<dirty, torn, mergeVars, recordVars, rootVars, kills, outages, requests, saved, queue,
                  work, open, fails>>
  BY DEF ListDeletes, DeleteRow, DeleteFile, fileVars, countVars
<1>2. row' \in [Recs -> Rows \cup {NoRow}] /\ disk' \subseteq Files
  <2>1. row \in [Recs -> Rows \cup {NoRow}] /\ disk \subseteq Files
    BY DEF Base, TypeOK
  <2>2. disk' \subseteq disk
    BY DEF ListDeletes, DeleteRow, DeleteFile, fileVars
  <2>3. row' = row \/ \E x \in Recs : row' = [row EXCEPT ![x] = NoRow]
    BY DEF ListDeletes, DeleteRow, DeleteFile, Listed
  <2> QED BY <2>1, <2>2, <2>3
<1>3. doomed' \subseteq Files
  <2>1. \A r \in Listed : FileOf(r) \in Files
    BY Numbers DEF Base, FileOf, Files, Rows
  <2>2. doomed \subseteq Files
    BY DEF Base, TypeOK
  <2> QED BY <2>1, <2>2 DEF ListDeletes, DeleteRow, DeleteFile
<1>4. deletes' \in 0..setup.deletes
  <2>1. deletes \in 0..setup.deletes /\ setup.deletes \in Nat
    BY SetupFacts DEF Base, TypeOK
  <2> QED BY <2>1 DEF ListDeletes, DeleteRow, DeleteFile, countVars
<1>5. TypeOK'
  BY <1>1, <1>2, <1>3, <1>4 DEF Base, TypeOK, mergeVars, recordVars, rootVars
<1> QED BY <1>1, <1>5 DEF Base, Appended, mergeVars, recordVars

LEMMA QueueTypes ==
    ASSUME NEW S, NEW q \in Seq(S)
    PROVE  /\ \A j \in S : Append(q, j) \in Seq(S)
           /\ q # <<>> => Head(q) \in S /\ Tail(q) \in Seq(S)
OBVIOUS

LEMMA RequestBase ==
    ASSUME Base, UNCHANGED setup,
           \/ \E to \in Roots, migrate, del \in BOOLEAN : SwitchRoot(to, migrate, del)
           \/ \E del \in BOOLEAN : Enqueue(del) \/ SaveFails(del)
    PROVE  Base'
<1>1. /\ UNCHANGED <<fileVars, mergeVars, recordVars, kills, outages, deletes, row, saved, doomed, work,
                     open>>
      /\ root' \in Roots /\ conf' \in Roots
      /\ wanted' \in BOOLEAN /\ keeps' \in BOOLEAN
  <2>1. root \in Roots /\ conf \in Roots /\ wanted \in BOOLEAN /\ keeps \in BOOLEAN
    BY DEF Base, TypeOK
  <2>2. CASE \E to \in Roots, migrate, del \in BOOLEAN : SwitchRoot(to, migrate, del)
    <3>1. PICK to \in Roots, migrate \in BOOLEAN, del \in BOOLEAN : SwitchRoot(to, migrate, del)
      BY <2>2
    <3>2. conf' \in {conf, to}
      BY <3>1 DEF SwitchRoot
    <3> QED BY <2>1, <3>1, <3>2 DEF SwitchRoot
  <2>3. CASE \E del \in BOOLEAN : Enqueue(del) \/ SaveFails(del)
    BY <2>1, <2>3 DEF Enqueue, SaveFails, countVars
  <2> QED BY <2>2, <2>3
<1>2. setup.requests \in Nat /\ setup.fails \in Nat /\ requests \in 0..setup.requests
         /\ fails \in 0..setup.fails
  BY SetupFacts DEF Base, TypeOK
<1>3. requests' \in 0..setup.requests /\ fails' \in 0..setup.fails
  <2>1. CASE \E to \in Roots, migrate, del \in BOOLEAN : SwitchRoot(to, migrate, del)
    <3>1. requests < setup.requests /\ requests' = requests + 1 /\ fails' = fails
      BY <2>1 DEF SwitchRoot
    <3> QED BY <1>2, <3>1
  <2>2. CASE \E del \in BOOLEAN : Enqueue(del) \/ SaveFails(del)
    <3>1. requests' = requests /\ (fails' = fails \/ (fails < setup.fails /\ fails' = fails + 1))
      BY <2>2 DEF Enqueue, SaveFails, Fault, countVars
    <3> QED BY <1>2, <3>1
  <2> QED BY <2>1, <2>2
<1>4. queue \in Seq([to : Roots, del : BOOLEAN]) /\ pending \in [BOOLEAN -> Nat] /\ root \in Roots
  BY DEF Base, TypeOK
<1>5. queue' \in Seq([to : Roots, del : BOOLEAN])
  <2>1. queue' = queue \/ \E del \in BOOLEAN : queue' = Append(queue, [to |-> root, del |-> del])
    BY DEF SwitchRoot, Enqueue, SaveFails
  <2>2. \A del \in BOOLEAN : [to |-> root, del |-> del] \in [to : Roots, del : BOOLEAN]
    BY <1>4
  <2>3. \A del \in BOOLEAN :
          Append(queue, [to |-> root, del |-> del]) \in Seq([to : Roots, del : BOOLEAN])
    BY <1>4, <2>2, QueueTypes, Zenon
  <2> QED BY <1>4, <2>1, <2>3, Zenon
<1>6. pending' \in [BOOLEAN -> Nat]
  <2>1. \E d \in BOOLEAN : pending' = [pending EXCEPT ![d] = pending[d] + 1] \/ pending' = pending
          \/ (pending[d] > 0 /\ pending' = [pending EXCEPT ![d] = pending[d] - 1])
    <3>1. CASE \E to \in Roots, migrate, del \in BOOLEAN : SwitchRoot(to, migrate, del)
      <4>1. PICK to \in Roots, migrate \in BOOLEAN, del \in BOOLEAN : SwitchRoot(to, migrate, del)
        BY <3>1
      <4>2. pending' = [pending EXCEPT ![del] = IF migrate THEN pending[del] + 1 ELSE pending[del]]
        BY <4>1 DEF SwitchRoot
      <4>3. CASE migrate
        BY <4>2, <4>3
      <4>4. CASE ~ migrate
        BY <1>4, <4>2, <4>4
      <4> QED BY <4>3, <4>4
    <3>2. CASE \E del \in BOOLEAN : Enqueue(del) \/ SaveFails(del)
      BY <3>2 DEF Enqueue, SaveFails, Answered
    <3> QED BY <3>1, <3>2
  <2>2. PICK d \in BOOLEAN : \/ pending' = [pending EXCEPT ![d] = pending[d] + 1]
                             \/ pending' = pending
                             \/ pending[d] > 0 /\ pending' = [pending EXCEPT ![d] = pending[d] - 1]
    BY <2>1
  <2>3. pending[d] \in Nat
    BY <1>4
  <2> QED BY <1>4, <2>2, <2>3
<1>7. TypeOK'
  BY <1>1, <1>3, <1>5, <1>6 DEF Base, TypeOK, mergeVars, recordVars, fileVars
<1> QED BY <1>1, <1>7 DEF Base, Appended, mergeVars, recordVars

\* The worker's own variables are well-typed; the rest of a step is.
LEMMA WorkTypes ==
    ASSUME TypeOK, work.at # "idle", work.todo # {}
    PROVE  /\ \A p \in {"skip", "file", "copy", "rewrite", "delete"} :
                 [work EXCEPT !.at = p] \in WorkType
           /\ [work EXCEPT !.at = "window", !.todo = @ \ {Item}] \in WorkType
<1>1. work \in WorkType
  BY DEF TypeOK
<1> QED BY <1>1, Zenon DEF WorkType

LEMMA TakeBase ==
    ASSUME Base, UNCHANGED setup, TakeJob
    PROVE  Base'
<1>1. /\ queue # <<>> /\ queue' = Tail(queue)
      /\ UNCHANGED <<fileVars, mergeVars, recordVars, rootVars, countVars, row, saved, doomed, open, fails>>
  BY DEF TakeJob
<1>2. queue \in Seq([to : Roots, del : BOOLEAN])
  BY DEF Base, TypeOK
<1>3. queue' \in Seq([to : Roots, del : BOOLEAN])
  BY <1>1, <1>2
<1>4. Head(queue) \in [to : Roots, del : BOOLEAN]
  BY <1>1, <1>2, QueueTypes
<1>5. work' \in WorkType /\ work'.at = "window"
  <2>1. PICK rows \in SUBSET Listed :
          work' = [at |-> "window", to |-> Head(queue).to, del |-> Head(queue).del,
                   todo |-> {[rec |-> r, root |-> row[r].root, version |-> row[r].version] : r \in rows}]
    BY DEF TakeJob
  <2>2. \A r \in Listed : r \in Recs /\ row[r] \in Rows
    BY Numbers DEF Base
  <2>3. {[rec |-> r, root |-> row[r].root, version |-> row[r].version] : r \in rows} \subseteq Items
    BY <2>2 DEF Rows, Items
  <2> QED BY <1>4, <2>1, <2>3 DEF WorkType
<1>6. TypeOK'
  BY <1>1, <1>3, <1>5 DEF Base, TypeOK, fileVars, mergeVars, recordVars, rootVars, countVars
<1> QED BY <1>1, <1>6 DEF Base, Appended, mergeVars, recordVars

LEMMA WorkBase ==
    ASSUME Base, UNCHANGED setup, Worker \/ JobFails \/ MoveFails, ~ TakeJob
    PROVE  Base'
<1>1. UNCHANGED <<mergeVars, recordVars, rootVars, countVars, saved, doomed, queue, open>>
  BY DEF Worker, JobDone, JobFails, WindowOpens, Skip, OpenSource, CopyFile, Rewrite, DeleteSource,
     MoveFails, WorkOnly
<1>2. work \in WorkType /\ setup.fails \in Nat /\ fails \in 0..setup.fails
  BY SetupFacts DEF Base, TypeOK
<1>3. fails' \in 0..setup.fails
  BY <1>2 DEF Worker, JobDone, JobFails, WindowOpens, Skip, OpenSource, CopyFile, Rewrite, DeleteSource,
     MoveFails, Fault
<1>4. CASE JobDone \/ JobFails
  <2>1. work' = Idle /\ UNCHANGED <<fileVars, row>>
    BY <1>4 DEF JobDone, JobFails
  <2>2. Idle \in WorkType /\ Idle.at = "idle"
    BY SetupFacts DEF Idle, WorkType, Base, TypeOK
  <2>3. TypeOK'
    BY <1>1, <1>3, <2>1, <2>2 DEF Base, TypeOK, fileVars, mergeVars, recordVars, rootVars, countVars
  <2> QED BY <1>1, <2>3 DEF Base, Appended, mergeVars, recordVars
<1>5. CASE ~ JobDone /\ ~ JobFails
  <2>1. work.at # "idle" /\ work.todo # {}
    BY <1>5 DEF Worker, WindowOpens, Skip, OpenSource, CopyFile, Rewrite, DeleteSource, MoveFails, Base, TypeOK
  <2>2. \/ \E p \in {"skip", "file", "copy", "rewrite", "delete"} : Step(p)
        \/ NextFile
    BY <1>5 DEF Worker, WindowOpens, Skip, OpenSource, CopyFile, Rewrite, DeleteSource, MoveFails
  <2>3. work' \in WorkType /\ (work'.at \notin {"idle", "window"} => work'.todo # {})
    <3>1. work'.at \notin {"idle", "window"} => work'.todo = work.todo
      BY <1>2, <2>2 DEF Step, NextFile, WorkType
    <3>2. work' \in WorkType
      BY <2>1, <2>2, WorkTypes DEF Step, NextFile, Base
    <3> QED BY <2>1, <3>1, <3>2
  <2>4. Item \in Items /\ Item.rec \in Recs /\ Item.root \in Roots /\ Item.version \in Versions
           /\ work.to \in Roots
    BY <2>1, ItemIn DEF Base
  <2>5. Target \in Files
    BY <2>4 DEF Target, Files
  <2>6. disk' \subseteq disk \cup {Target} /\ dirty' \subseteq dirty \cup {Target}
           /\ torn' \subseteq torn \cup {Target}
    BY <1>5 DEF Worker, WindowOpens, Skip, OpenSource, CopyFile, Rewrite, DeleteSource, MoveFails, fileVars
  <2>7. row' \in [Recs -> Rows \cup {NoRow}]
    <3>1. [root |-> work.to, version |-> Item.version] \in Rows
      BY <2>4 DEF Rows
    <3>2. row \in [Recs -> Rows \cup {NoRow}]
      BY DEF Base, TypeOK
    <3>3. row' \in {row, [row EXCEPT ![Item.rec] = [root |-> work.to, version |-> Item.version]]}
      BY <1>5 DEF Worker, WindowOpens, Skip, OpenSource, CopyFile, Rewrite, DeleteSource, MoveFails
    <3> QED BY <2>4, <3>1, <3>2, <3>3
  <2>8. TypeOK'
    BY <1>1, <1>3, <2>3, <2>5, <2>6, <2>7 DEF Base, TypeOK, mergeVars, recordVars, rootVars, countVars
  <2> QED BY <1>1, <2>8 DEF Base, Appended, mergeVars, recordVars
<1> QED BY <1>4, <1>5

LEMMA EnvironmentBase ==
    ASSUME Base, UNCHANGED setup,
           TurnWindow \/ Kill \/ Checkpoint \/ Outage \/ \E f \in dirty : Flush(f)
    PROVE  Base'
<1>1. Idle \in WorkType /\ Idle.at = "idle" /\ setup.kills \in Nat /\ setup.outages \in Nat
         /\ <<>> \in Seq([to : Roots, del : BOOLEAN])
         /\ [d \in BOOLEAN |-> 0] \in [BOOLEAN -> Nat]
         /\ [r \in Recs |-> None] \in [Recs -> Roots \cup {None}]
         /\ [r \in Recs |-> "no"] \in [Recs -> {"no", "written", "committed"}]
  BY SetupFacts DEF Idle, WorkType, Base, TypeOK
<1>2. UNCHANGED <<disk, out, newest, last, late, conf, wanted, keeps, fails, deletes, requests>>
  BY DEF TurnWindow, Kill, Checkpoint, Outage, Flush, Down, fileVars, mergeVars, recordVars, rootVars,
     countVars
<1>3. dirty' \subseteq dirty /\ torn' \subseteq torn \cup dirty
  BY DEF TurnWindow, Kill, Checkpoint, Outage, Flush, fileVars
<1>4. row' \in {row, saved} /\ saved' \in {row, saved}
  BY DEF TurnWindow, Kill, Checkpoint, Outage, Flush
<1>5. work' \in {work, Idle} /\ queue' \in {queue, <<>>} /\ open' \in {open, ~open}
  BY DEF TurnWindow, Kill, Checkpoint, Outage, Flush, Down
<1>6. kills' \in 0..setup.kills /\ outages' \in 0..setup.outages
  <2>1. kills \in 0..setup.kills /\ outages \in 0..setup.outages
    BY DEF Base, TypeOK
  <2> QED BY <1>1, <2>1 DEF TurnWindow, Kill, Checkpoint, Outage, Flush, countVars
<1>7. /\ bucket' \in {bucket, [r \in Recs |-> None]} /\ grow' \in {grow, [r \in Recs |-> "no"]}
      /\ pending' \in {pending, [d \in BOOLEAN |-> 0]} /\ segment' \in {segment, None}
      /\ doomed' \in {doomed, {}} /\ root' \in {root, conf}
  BY DEF TurnWindow, Kill, Checkpoint, Outage, Flush, Down, mergeVars, recordVars, rootVars
<1>8. TypeOK'
  <2>1. queue' \in Seq([to : Roots, del : BOOLEAN]) /\ pending' \in [BOOLEAN -> Nat]
    BY <1>1, <1>5, <1>7 DEF Base, TypeOK
  <2>2. bucket' \in [Recs -> Roots \cup {None}] /\ grow' \in [Recs -> {"no", "written", "committed"}]
    BY <1>1, <1>7 DEF Base, TypeOK
  <2>3. /\ row' \in [Recs -> Rows \cup {NoRow}] /\ saved' \in [Recs -> Rows \cup {NoRow}]
        /\ dirty' \subseteq Files /\ torn' \subseteq Files /\ doomed' \subseteq Files
    BY <1>3, <1>4, <1>7 DEF Base, TypeOK
  <2>4. work' \in WorkType /\ (work'.at \notin {"idle", "window"} => work'.todo # {})
    BY <1>1, <1>5 DEF Base, TypeOK
  <2>5. /\ segment' \in Roots \cup {None} /\ (segment' # None => last' < setup'.recs)
        /\ root' \in Roots /\ conf' \in Roots /\ open' \in BOOLEAN
    BY <1>2, <1>5, <1>7 DEF Base, TypeOK
  <2>6. /\ setup' \in Setups /\ last' \in 0..NumRecs /\ disk' \subseteq Files
        /\ out' \in [Recs -> Roots] /\ newest' \in [Recs -> 0..MaxVersion] /\ late' \subseteq Recs
        /\ wanted' \in BOOLEAN /\ keeps' \in BOOLEAN
        /\ fails' \in 0..setup'.fails /\ deletes' \in 0..setup'.deletes
        /\ requests' \in 0..setup'.requests
    BY <1>2 DEF Base, TypeOK
  <2>7. kills' \in 0..setup'.kills /\ outages' \in 0..setup'.outages
    BY <1>6
  <2> QED BY <2>1, <2>2, <2>3, <2>4, <2>5, <2>6, <2>7, Zenon DEF TypeOK
<1>9. Appended'
  BY <1>2, <1>7 DEF Base, Appended
<1> QED BY <1>8, <1>9 DEF Base

LEMMA StepBase ==
    ASSUME Base, [Next]_vars
    PROVE  Base'
<1>1. CASE Next
  <2>1. UNCHANGED setup /\ Move
    BY <1>1 DEF Next
  <2> QED BY <2>1, RecordBase, AppendBase, DeleteBase, RequestBase, TakeBase, WorkBase,
             EnvironmentBase DEF Move
<1>2. CASE UNCHANGED vars
  <2>1. TypeOK'
    BY <1>2 DEF vars, moving, fileVars, mergeVars, recordVars, rootVars, countVars, Base, TypeOK
  <2>2. Appended'
    BY <1>2 DEF vars, moving, mergeVars, recordVars, Base, Appended
  <2> QED BY <2>1, <2>2 DEF Base
<1> QED BY <1>1, <1>2

-----------------------------------------------------------------------------
\* What the steps of the rest of the program leave of the files and the rows.
\* Each lemma is about a behaviour in which the power has not failed.
Healthy == torn = {} /\ Named /\ Known /\ Handled

\* The parts depend on some of the variables only.
LEMMA Frame ==
    ASSUME UNCHANGED setup
    PROVE  /\ Named /\ UNCHANGED <<row, newest, disk>> => Named'
           /\ Known /\ UNCHANGED <<work, newest>> => Known'
           /\ Handled /\ UNCHANGED <<work, row, newest, disk>> => Handled'
<1>1. Named /\ UNCHANGED <<row, newest, disk>> => Named'
  BY DEF Named, Listed, FileOf
<1>2. Known /\ UNCHANGED <<work, newest>> => Known'
  BY DEF Known
<1>3. Handled /\ UNCHANGED <<work, row, newest, disk>> => Handled'
  BY SameItem DEF Handled, Listed, Target
<1> QED BY <1>1, <1>2, <1>3

\* The item at work is a row there has been.
LEMMA Working ==
    ASSUME Base, Healthy, work.at \notin {"idle", "window"}
    PROVE  /\ Item \in work.todo /\ Item \in Items
           /\ Item.rec \in Recs /\ Item.root \in Roots /\ Item.version \in Versions
           /\ work.to \in Roots /\ Item.root # work.to
           /\ Item.version <= newest[Item.rec]
           /\ newest[Item.rec] # 0 /\ Item.rec <= last
<1>1. work.todo # {}
  BY DEF Base, TypeOK
<1>2. /\ Item \in work.todo /\ Item \in Items
      /\ Item.rec \in Recs /\ Item.root \in Roots /\ Item.version \in Versions /\ work.to \in Roots
  BY <1>1, ItemIn DEF Base
<1>3. Item.version <= newest[Item.rec] /\ Item.root # work.to
  BY <1>2 DEF Healthy, Known
<1>4. newest[Item.rec] \in Nat /\ Versions \subseteq Nat /\ 0 \notin Versions /\ last \in Nat
         /\ Recs \subseteq Nat
  BY <1>2, Numbers DEF Base
<1>5. newest[Item.rec] # 0
  <2> DEFINE v == Item.version
             n == newest[Item.rec]
  <2>1. v \in Nat /\ v # 0 /\ v <= n /\ n \in Nat
    BY <1>2, <1>3, <1>4
  <2> HIDE DEF v, n
  <2>2. n # 0
    BY <2>1
  <2> QED BY <2>2 DEF n
<1>6. Item.rec <= last
  <2>1. ~ (Item.rec > last)
    BY <1>2, <1>5 DEF Base, Appended
  <2>2. Item.rec \in Nat
    BY <1>2, <1>4
  <2> QED BY <1>4, <2>1, <2>2
<1> QED BY <1>2, <1>3, <1>5, <1>6

LEMMA RecordStep ==
    ASSUME Base, Healthy, CloseSegment, UNCHANGED setup
    PROVE  Healthy'
<1> DEFINE n == last + 1
<1>1. /\ last' = n /\ disk' = disk \cup {<<n, segment, 1>>}
      /\ row' = [row EXCEPT ![n] = [root |-> segment, version |-> 1]]
      /\ newest' = [newest EXCEPT ![n] = 1]
      /\ UNCHANGED <<torn, work>> /\ segment # None
  BY DEF CloseSegment
<1>2. n \in Recs /\ row \in [Recs -> Rows \cup {NoRow}] /\ newest \in [Recs -> Nat] /\ last \in Nat
         /\ newest[n] = 0
  <2>1. setup \in Setups /\ last \in 0..NumRecs /\ newest \in [Recs -> Nat]
           /\ row \in [Recs -> Rows \cup {NoRow}] /\ last < setup.recs
    BY <1>1, Numbers DEF Base, TypeOK
  <2>2. NumRecs \in Nat /\ setup.recs \in 0..NumRecs /\ Recs = 1..NumRecs
    BY <2>1, SetupFacts
  <2>3. n \in Recs /\ n > last
    BY <1>1, <2>1, <2>2
  <2> QED BY <2>1, <2>3 DEF Base, Appended
<1>3. \A r \in Recs : r # n => row'[r] = row[r] /\ newest'[r] = newest[r] /\ (r \in Listed' <=> r \in Listed)
  BY <1>1, <1>2 DEF Listed
<1>4. Named'
  <2> SUFFICES ASSUME NEW r \in Listed'
               PROVE  /\ row'[r].version <= newest'[r]
                      /\ newest'[r] = 1 => FileOf(r)' \in disk'
    BY DEF Named
  <2>1. CASE r = n
    BY <1>1, <1>2, <2>1 DEF FileOf
  <2>2. CASE r # n
    BY <1>1, <1>3, <2>2 DEF Healthy, Named, FileOf, Listed
  <2> QED BY <2>1, <2>2
<1>5. Known'
  <2> SUFFICES ASSUME NEW i \in work.todo
               PROVE  i.version <= newest'[i.rec] /\ i.root # work.to
    BY <1>1 DEF Known
  <2>1. i.rec \in Recs /\ i.version \in Versions
    BY DEF Base, TypeOK, WorkType, Items
  <2>2. i.version <= newest[i.rec]
    BY DEF Healthy, Known
  <2>3. i.rec # n
    BY <1>2, <2>1, <2>2, Numbers DEF Base
  <2> QED BY <1>3, <2>1, <2>3 DEF Healthy, Known
<1>6. Handled'
  <2>1. Item' = Item /\ Target' = Target
    BY <1>1, SameItem DEF Target
  <2>2. work.at \notin {"idle", "window"} => Item.rec \in Recs /\ Item.rec # n
    BY <1>2, Working
  <2> QED BY <1>1, <1>3, <2>1, <2>2 DEF Healthy, Handled
<1> QED BY <1>1, <1>4, <1>5, <1>6 DEF Healthy

LEMMA AppendWriteStep ==
    ASSUME Base, Healthy, NEW r \in Recs, AppendWrite(r), UNCHANGED setup
    PROVE  Healthy'
<1>1. disk \subseteq disk' /\ UNCHANGED <<torn, newest, row, work>>
  BY DEF AppendWrite
<1>2. Item' = Item /\ Target' = Target
  BY <1>1, SameItem DEF Target
<1>3. Named' /\ Known'
  BY <1>1 DEF Healthy, Named, Known, FileOf, Listed
<1>4. Handled'
  BY <1>1, <1>2 DEF Healthy, Handled, Listed
<1> QED BY <1>1, <1>3, <1>4 DEF Healthy

\* A row that is moved has had more than one version ever since.
LEMMA AppendCommitStep ==
    ASSUME Base, Healthy, NEW r \in Recs, AppendCommit(r), UNCHANGED setup
    PROVE  Healthy'
<1> DEFINE new == [root |-> out[r], version |-> newest[r] + 1]
<1>1. /\ grow[r] = "written" /\ newest' = [newest EXCEPT ![r] = @ + 1]
      /\ row' = IF r \in Listed THEN [row EXCEPT ![r] = new] ELSE row
      /\ UNCHANGED <<disk, torn, work>>
  BY DEF AppendCommit, fileVars
<1>2. row \in [Recs -> Rows \cup {NoRow}] /\ newest \in [Recs -> Nat] /\ newest[r] # 0
  <2>1. row \in [Recs -> Rows \cup {NoRow}] /\ newest \in [Recs -> Nat]
    BY Numbers DEF Base, TypeOK
  <2> QED BY <1>1, <2>1 DEF Base, Appended
<1>3. newest'[r] = newest[r] + 1 /\ newest'[r] # 1
  BY <1>1, <1>2
<1>4. \A q \in Recs : q # r => row'[q] = row[q] /\ newest'[q] = newest[q]
  BY <1>1, <1>2
<1>5. r \in Listed => row'[r] = new
  BY <1>1, <1>2
<1>6. Listed' = Listed
  <2>1. new # NoRow
    BY <1>2 DEF NoRow
  <2> QED BY <1>1, <1>4, <1>5, <2>1 DEF Listed
<1>7. Named'
  <2> SUFFICES ASSUME NEW q \in Listed
               PROVE  /\ row'[q].version <= newest'[q]
                      /\ newest'[q] = 1 => FileOf(q)' \in disk
    BY <1>1, <1>6 DEF Named
  <2>1. q \in Recs
    BY DEF Listed
  <2>2. CASE q = r
    BY <1>2, <1>3, <1>5, <2>1, <2>2
  <2>3. CASE q # r
    BY <1>4, <2>1, <2>3 DEF Healthy, Named, FileOf
  <2> QED BY <2>2, <2>3
<1>8. Known'
  <2> SUFFICES ASSUME NEW i \in work.todo
               PROVE  i.version <= newest'[i.rec] /\ i.root # work.to
    BY <1>1 DEF Known
  <2>1. i.rec \in Recs /\ i.version \in Versions /\ i.version <= newest[i.rec]
           /\ Versions \subseteq Nat
    BY Numbers DEF Base, TypeOK, WorkType, Items, Healthy, Known
  <2>2. newest[i.rec] \in Nat /\ newest'[i.rec] \in {newest[i.rec], newest[i.rec] + 1}
           /\ i.version \in Nat
    BY <1>2, <1>3, <1>4, <2>1
  <2>3. i.version <= newest'[i.rec]
    BY <2>1, <2>2
  <2> QED BY <2>3 DEF Healthy, Known
<1>9. Handled'
  <2>1. Item' = Item /\ Target' = Target
    BY <1>1, SameItem DEF Target
  <2>2. work.at \notin {"idle", "window"} => Item.rec \in Recs
    BY Working
  <2> QED BY <1>1, <1>3, <1>4, <1>6, <2>1, <2>2 DEF Healthy, Handled
<1> QED BY <1>1, <1>7, <1>8, <1>9 DEF Healthy

\* What an append deletes has been replaced: no row with one version is hit.
LEMMA AppendDeleteStep ==
    ASSUME Base, Healthy, NEW r \in Recs, AppendDelete(r), UNCHANGED setup
    PROVE  Healthy'
<1>1. /\ grow[r] = "committed" /\ disk' = disk \ {BucketFile(r, newest[r] - 1)}
      /\ UNCHANGED <<torn, newest, row, work>>
  BY DEF AppendDelete
<1>2. newest[r] \in Nat /\ newest[r] > 1
  BY <1>1, Numbers DEF Base, Appended
<1>3. \A f \in disk : f[1] # r => f \in disk'
  BY <1>1 DEF BucketFile
<1>4. Item' = Item /\ Target' = Target /\ Listed' = Listed
  BY <1>1, SameItem DEF Target, Listed
<1>5. Named' /\ Known'
  BY <1>1, <1>2, <1>3 DEF Healthy, Named, Known, FileOf, Listed
<1>6. Handled'
  BY <1>1, <1>2, <1>3, <1>4 DEF Healthy, Handled, Target
<1> QED BY <1>1, <1>5, <1>6 DEF Healthy

\* The row goes before its file does, and no other row names that.
LEMMA DeleteRowStep ==
    ASSUME Base, Healthy, NEW f \in doomed, DeleteRow(f), UNCHANGED setup
    PROVE  Healthy'
<1>1. /\ row' = [row EXCEPT ![f[1]] = NoRow] /\ f[1] \in Recs
      /\ UNCHANGED <<disk, torn, newest, work>>
  BY DEF DeleteRow, mergeVars, fileVars, Listed
<1>2. row \in [Recs -> Rows \cup {NoRow}]
  BY DEF Base, TypeOK
<1>3. Listed' = Listed \ {f[1]} /\ \A q \in Listed' : row'[q] = row[q] /\ q \in Listed
  BY <1>1, <1>2 DEF Listed
<1>4. Named' /\ Known'
  BY <1>1, <1>3 DEF Healthy, Named, Known, FileOf
<1>5. Item' = Item /\ Target' = Target
  BY <1>1, SameItem DEF Target
<1>6. Handled'
  BY <1>1, <1>3, <1>5 DEF Healthy, Handled
<1> QED BY <1>1, <1>4, <1>6 DEF Healthy

LEMMA DeleteFileStep ==
    ASSUME Base, Healthy, NEW f \in doomed, DeleteFile(f), UNCHANGED setup
    PROVE  Healthy'
<1>1. /\ f[1] \notin Listed /\ disk' = disk \ {f}
      /\ UNCHANGED <<row, torn, newest, work>>
  BY DEF DeleteFile, mergeVars
<1>2. \A g \in disk : g[1] \in Listed => g \in disk'
  BY <1>1
<1>3. Item' = Item /\ Target' = Target /\ Listed' = Listed
  BY <1>1, SameItem DEF Target, Listed
<1>4. Named' /\ Known'
  BY <1>1, <1>2, <1>3 DEF Healthy, Named, Known, FileOf
<1>5. Handled'
  BY <1>1, <1>2, <1>3 DEF Healthy, Handled, Target
<1> QED BY <1>1, <1>4, <1>5 DEF Healthy

-----------------------------------------------------------------------------
\* The worker between two items.
LEMMA NextFileStep ==
    ASSUME TypeOK, Known, NextFile, UNCHANGED newest, UNCHANGED setup
    PROVE  Known' /\ Handled'
<1>1. work \in WorkType
  BY DEF TypeOK
<1>2. work'.at = "window" /\ work'.todo \subseteq work.todo /\ work'.to = work.to
  BY <1>1 DEF NextFile, WorkType
<1>3. Known'
  BY <1>2 DEF Known
<1>4. Handled'
  BY <1>2 DEF Handled
<1> QED BY <1>3, <1>4

\* A step that goes on with the item.
LEMMA GoesOn ==
    ASSUME TypeOK, NEW p \in {"skip", "file", "copy", "rewrite", "delete"}, Step(p)
    PROVE  work'.at = p /\ work'.to = work.to /\ work'.todo = work.todo /\ Item' = Item
<1>1. work \in WorkType
  BY DEF TypeOK
<1>2. work'.at = p /\ work'.to = work.to /\ work'.todo = work.todo
  BY <1>1 DEF Step, WorkType
<1> QED BY <1>2, SameItem

LEMMA TakeJobStep ==
    ASSUME Base, Healthy, TakeJob, UNCHANGED setup
    PROVE  Healthy'
<1>1. UNCHANGED <<fileVars, mergeVars, row>>
  BY DEF TakeJob
<1>2. Named' /\ torn' = torn
  BY <1>1, Frame DEF Healthy, fileVars, mergeVars
<1> DEFINE to == Head(queue).to
           rows == {x \in Listed : row[x].root # to}
<1>3. work' = [at |-> "window", to |-> to, del |-> Head(queue).del,
               todo |-> {[rec |-> r, root |-> row[r].root, version |-> row[r].version] : r \in rows}]
  BY DEF TakeJob
<1>4. Handled'
  BY <1>3 DEF Handled
<1>5. Known'
  <2> SUFFICES ASSUME NEW i \in work'.todo
               PROVE  i.version <= newest'[i.rec] /\ i.root # work'.to
    BY DEF Known
  <2>1. PICK r \in rows : i = [rec |-> r, root |-> row[r].root, version |-> row[r].version]
    BY <1>3
  <2>2. i.rec = r /\ i.version = row[r].version /\ i.root = row[r].root /\ work'.to = to
    BY <1>3, <2>1
  <2>3. r \in Listed /\ row[r].root # to /\ newest' = newest
    BY <1>1 DEF mergeVars
  <2> QED BY <2>2, <2>3 DEF Healthy, Named
<1> QED BY <1>2, <1>4, <1>5 DEF Healthy

LEMMA LookStep ==
    ASSUME Base, Healthy, JobDone \/ JobFails \/ WindowOpens \/ Skip \/ OpenSource \/ MoveFails,
           UNCHANGED setup
    PROVE  Healthy'
<1>1. UNCHANGED <<fileVars, mergeVars, row>>
  BY DEF JobDone, JobFails, WindowOpens, Skip, OpenSource, MoveFails, WorkOnly
<1>2. Named' /\ torn' = torn
  BY <1>1, Frame DEF Healthy, fileVars, mergeVars
<1>3. UNCHANGED newest /\ UNCHANGED <<disk, row>> /\ Listed' = Listed
  BY <1>1 DEF mergeVars, fileVars, Listed
<1>4. CASE JobDone \/ JobFails
  BY <1>2, <1>4 DEF JobDone, JobFails, Idle, Healthy, Known, Handled
<1>5. CASE NextFile
  BY <1>2, <1>3, <1>5, NextFileStep DEF Base, Healthy
<1>6. CASE WindowOpens
  <2>1. Step("file") \/ Step("skip")
    BY <1>6 DEF WindowOpens
  <2>2. work'.todo = work.todo /\ work'.to = work.to /\ work'.at \in {"skip", "file"}
    BY <2>1, GoesOn DEF Base
  <2> QED BY <1>2, <1>3, <2>2 DEF Healthy, Known, Handled
<1>7. CASE OpenSource /\ ~ NextFile
  <2>1. (Step("rewrite") /\ Target \in disk) \/ Step("copy")
    BY <1>7 DEF OpenSource
  <2>2. work'.todo = work.todo /\ Item' = Item /\ work'.to = work.to
           /\ work'.at \in {"copy", "rewrite"} /\ (work'.at = "rewrite" => Target \in disk)
    BY <2>1, GoesOn DEF Base
  <2>3. Target' = Target
    BY <2>2 DEF Target
  <2> QED BY <1>2, <1>3, <2>2, <2>3 DEF Healthy, Known, Handled
<1> QED BY <1>4, <1>5, <1>6, <1>7 DEF Skip, MoveFails

LEMMA CopyFileStep ==
    ASSUME Base, Healthy, CopyFile, UNCHANGED setup
    PROVE  Healthy'
<1>1. /\ work.at = "copy" /\ Step("rewrite") /\ disk' = disk \cup {Target}
      /\ torn' = IF Source \in torn THEN torn \cup {Target} ELSE torn \ {Target}
      /\ UNCHANGED <<row, newest>>
  BY DEF CopyFile, WorkOnly, mergeVars
<1>2. work'.at = "rewrite" /\ work'.to = work.to /\ work'.todo = work.todo /\ Item' = Item
  BY <1>1, GoesOn DEF Base
<1>3. Target' = Target /\ torn' = {}
  BY <1>1, <1>2 DEF Target, Healthy
<1>4. Named'
  BY <1>1 DEF Healthy, Named, Listed, FileOf
<1>5. Known'
  BY <1>1, <1>2 DEF Healthy, Known
<1>6. Handled'
  BY <1>1, <1>2, <1>3 DEF Handled
<1> QED BY <1>3, <1>4, <1>5, <1>6 DEF Healthy

LEMMA RewriteStep ==
    ASSUME Base, Healthy, Rewrite, UNCHANGED setup
    PROVE  Healthy'
<1> DEFINE r == Item.rec
           new == [root |-> work.to, version |-> Item.version]
<1>1. /\ work.at = "rewrite" /\ UNCHANGED <<disk, torn, newest>>
      /\ row' = IF r \in Listed THEN [row EXCEPT ![r] = new] ELSE row
      /\ Step("delete") \/ NextFile
  BY DEF Rewrite, WorkOnly, mergeVars, fileVars
<1>2. r \in Recs /\ Item.version \in Versions /\ Item.version <= newest[r]
  BY <1>1, Working
<1>3. row \in [Recs -> Rows \cup {NoRow}] /\ 0 \notin Versions
  BY Numbers DEF Base, TypeOK
<1>4. (r \in Listed => row'[r] = new) /\ \A q \in Recs : q # r => row'[q] = row[q]
  BY <1>1, <1>2, <1>3
<1>5. Listed' = Listed
  <2>1. new # NoRow
    BY <1>2, <1>3 DEF NoRow
  <2> QED BY <1>1, <1>4, <2>1 DEF Listed
<1>6. Named'
  <2> SUFFICES ASSUME NEW q \in Listed
               PROVE  /\ row'[q].version <= newest[q]
                      /\ newest[q] = 1 => <<q, row'[q].root, row'[q].version>> \in disk
    BY <1>1, <1>5 DEF Named, FileOf
  <2>1. CASE q = r
    <3>1. row'[q].root = work.to /\ row'[q].version = Item.version
      BY <1>4, <2>1
    <3>2. newest[r] = 1 => Target \in disk
      BY <1>1, <2>1 DEF Healthy, Handled
    <3> QED BY <1>2, <2>1, <3>1, <3>2 DEF Target
  <2>2. CASE q # r
    BY <1>4, <2>2 DEF Healthy, Named, FileOf, Listed
  <2> QED BY <2>1, <2>2
<1>7. CASE NextFile
  BY <1>1, <1>6, <1>7, NextFileStep DEF Base, Healthy
<1>8. CASE Step("delete")
  <2>1. work'.at = "delete" /\ work'.to = work.to /\ work'.todo = work.todo /\ Item' = Item
    BY <1>8, GoesOn DEF Base
  <2>2. r \in Listed => row'[r].root = work.to
    BY <1>4
  <2> QED BY <1>1, <1>5, <1>6, <2>1, <2>2 DEF Healthy, Known, Handled
<1> QED BY <1>1, <1>7, <1>8

\* The row names the target by now.
LEMMA DeleteSourceStep ==
    ASSUME Base, Healthy, DeleteSource, UNCHANGED setup
    PROVE  Healthy'
<1> DEFINE r == Item.rec
<1>1. /\ work.at = "delete" /\ NextFile /\ UNCHANGED <<torn, row, newest>>
      /\ disk' = disk \ {Source}
  BY DEF DeleteSource, WorkOnly, mergeVars
<1>2. r \in Recs /\ Item.root # work.to
  BY <1>1, Working
<1>3. r \in Listed /\ newest[r] = 1 => row[r].root = work.to
  BY <1>1 DEF Healthy, Handled
<1>4. Named'
  <2> SUFFICES ASSUME NEW q \in Listed
               PROVE  /\ row[q].version <= newest[q]
                      /\ newest[q] = 1 => FileOf(q) \in disk'
    BY <1>1 DEF Named, Listed, FileOf
  <2>1. row[q].version <= newest[q] /\ (newest[q] = 1 => FileOf(q) \in disk)
    BY DEF Healthy, Named
  <2>2. newest[q] = 1 => FileOf(q) # Source
    BY <1>2, <1>3 DEF FileOf, Source
  <2> QED BY <1>1, <2>1, <2>2
<1>5. Known' /\ Handled'
  BY <1>1, NextFileStep DEF Base, Healthy
<1> QED BY <1>1, <1>4, <1>5 DEF Healthy

LEMMA EnvironmentStep ==
    ASSUME Base, Healthy, UNCHANGED setup,
           \/ CreateSegment \/ TurnWindow \/ Kill \/ Checkpoint \/ \E f \in dirty : Flush(f)
           \/ \E r \in Recs : ListDeletes(r)
           \/ \E to \in Roots, migrate, del \in BOOLEAN : SwitchRoot(to, migrate, del)
           \/ \E del \in BOOLEAN : Enqueue(del) \/ SaveFails(del)
    PROVE  Healthy'
<1>1. UNCHANGED <<row, newest, disk, torn>>
  BY DEF CreateSegment, TurnWindow, Kill, Checkpoint, Flush, Down, ListDeletes, SwitchRoot, Enqueue,
     SaveFails, fileVars, mergeVars
<1>2. work' \in {work, Idle}
  BY DEF CreateSegment, TurnWindow, Kill, Checkpoint, Flush, Down, ListDeletes, SwitchRoot, Enqueue,
     SaveFails
<1>3. Named' /\ torn' = {}
  BY <1>1, Frame DEF Healthy
<1>4. CASE work' = work
  BY <1>1, <1>3, <1>4, Frame DEF Healthy
<1>5. CASE work' = Idle
  BY <1>3, <1>5 DEF Healthy, Known, Handled, Idle
<1> QED BY <1>2, <1>4, <1>5

\* Only a power failure counts as one, and after it nothing is claimed.
LEMMA StepSound ==
    ASSUME IInv, [Next]_vars
    PROVE  Sound'
<1> SUFFICES ASSUME outages' = 0
             PROVE  Healthy'
  BY DEF Sound, Healthy
<1>1. Base /\ outages \in Nat
  <2>1. setup.outages \in Nat /\ outages \in 0..setup.outages
    BY SetupFacts DEF IInv, TypeOK
  <2> QED BY <2>1 DEF IInv, Base
<1>2. CASE UNCHANGED vars
  <2>1. UNCHANGED <<work, row, newest, disk, torn, outages, setup>>
    BY <1>2 DEF vars, moving, fileVars, mergeVars, countVars
  <2> QED BY <2>1, Frame DEF IInv, Sound, Healthy
<1>3. CASE Next
  <2>1. Move /\ UNCHANGED setup
    BY <1>3 DEF Next
  <2>2. ~ Outage
    BY <1>1 DEF Outage
  <2>3. outages = 0
    BY <2>1, <2>2 DEF Move, CreateSegment, CloseSegment, Worker, TakeJob, JobDone, JobFails, WindowOpens,
       Skip, OpenSource, CopyFile, Rewrite, DeleteSource, MoveFails, WorkOnly, TurnWindow, Kill,
       Checkpoint, AppendWrite, AppendCommit, AppendDelete, ListDeletes, DeleteRow, DeleteFile,
       SwitchRoot, Enqueue, SaveFails, Flush, countVars
  <2>4. Healthy
    BY <2>3 DEF IInv, Sound, Healthy
  <2>5. CASE Worker \/ JobFails \/ MoveFails
    BY <1>1, <2>1, <2>4, <2>5, TakeJobStep, LookStep, CopyFileStep, RewriteStep, DeleteSourceStep
       DEF Worker
  <2>6. CASE ~ Worker /\ ~ JobFails /\ ~ MoveFails
    BY <1>1, <2>1, <2>2, <2>4, <2>6, RecordStep, AppendWriteStep, AppendCommitStep, AppendDeleteStep,
       DeleteRowStep, DeleteFileStep, EnvironmentStep DEF Move
  <2> QED BY <2>5, <2>6
<1> QED BY <1>2, <1>3

\* The invariant holds of every behaviour.
LEMMA Invariance == Spec => []IInv
<1>1. IInv /\ [Next]_vars => IInv'
  <2> SUFFICES ASSUME IInv, [Next]_vars
               PROVE  IInv'
    OBVIOUS
  <2>1. Base'
    BY StepBase DEF IInv, Base
  <2>2. Sound'
    BY StepSound
  <2> QED BY <2>1, <2>2 DEF IInv, Base
<1> QED BY <1>1, InitIInv, PTL DEF Spec

-----------------------------------------------------------------------------
\* While the power does not fail, the row of a recording that nothing was
\* appended to names a file that is there and whole, whatever is copied,
\* fails, is killed or deleted (moveRecording, migrator.go).
THEOREM RowsIntact == Spec => []RowIntact
<1>1. IInv => RowIntact
  BY DEF IInv, Sound, Named, RowIntact
<1> QED BY <1>1, Invariance, PTL

\* The variables have their types: what is on disk, doomed, listed or waiting
\* is a file, a row or a job of this camera, and no budget is exceeded.
THEOREM TypeCorrect == Spec => []TypeOK
<1>1. IInv => TypeOK
  BY DEF IInv
<1> QED BY <1>1, Invariance, PTL

=============================================================================
