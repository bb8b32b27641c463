----------------------- MODULE TranscodeQueue_proofs -----------------------
(***************************************************************************)
(* Theorems about TranscodeQueue: every invariant its run checks, and that *)
(* outputs are kept, for any number of recordings, tasks and workers, any  *)
(* callers and any faults.                                                 *)
(***************************************************************************)
EXTENDS TranscodeQueue, TLAPS, WellFoundedInduction, FiniteSetTheorems

Over == {"remove", "tmp", "clear", "bak", "unmove", "commit", "back", "unbak", "format", "end"}

\* Only tasks there are get a worker, one that is not at work already; and
\* what a worker is to write of its task is known when ffmpeg has ended.
Known ==
    /\ \A t \in Tasks : pc[t] # "off" => t <= last
    /\ disp.task <= last /\ killing <= last
    /\ disp.task # None => disp.slots > 0 /\ pc[disp.task] = "off"
    /\ \A t \in With({"pending"}) : pc[t] = "off" /\ t # disp.task
    /\ up = "down" => active = {} /\ disp = Idle /\ killing = None
    /\ \A t \in Tasks : /\ pc[t] = "exited" => verdict[t] \in {"completed", "failed"}
                        /\ pc[t] \in {"finish", "quit"} => verdict[t] \in Ended

Base == TypeOK /\ Known

-----------------------------------------------------------------------------
LEMMA SetupFacts ==
    ASSUME setup \in Setups
    PROVE  /\ NumRecs \in Nat /\ MaxTasks \in Nat /\ Recs = 1..NumRecs /\ Tasks = 1..MaxTasks
           /\ setup.recs \in 0..NumRecs /\ setup.tasks \in 0..MaxTasks
           /\ MaxWorkers \in Nat /\ MaxWorkers > 0 /\ MaxPending \in Nat /\ MaxPending > 0
           /\ Callers \subseteq {"bus", "api", "backfill"}
           /\ setup.replace \in BOOLEAN /\ setup.timeouts \in BOOLEAN /\ setup.sweeping \in BOOLEAN
           /\ setup.window \in Nat /\ setup.fails \in Nat /\ setup.cancels \in Nat
           /\ setup.stops \in Nat /\ setup.crashes \in Nat /\ setup.deletes \in Nat
BY TranscodeAssumption DEF SetupType, Recs, Tasks, MaxWorkers, MaxPending, Callers

\* The oldest pending task is one of them.
LEMMA MinIn ==
    ASSUME NEW S, S \subseteq Nat, S # {}
    PROVE  Min(S) \in S
<1>1. PICK x \in S : \A y \in S : ~ (<<y, x>> \in OpToRel(<, Nat))
  BY NatLessThanWellFounded, WFMin
<1>2. \A y \in S : x <= y
  <2> SUFFICES ASSUME NEW y \in S
               PROVE  x <= y
    OBVIOUS
  <2>1. x \in Nat /\ y \in Nat /\ ~ (y < x)
    BY <1>1 DEF OpToRel
  <2> QED BY <2>1
<1> QED BY <1>2 DEF Min

\* A finite set of numbers can be put in order: each has its rank.
LEMMA AscendingOnce ==
    ASSUME NEW S, S \subseteq Nat, IsFiniteSet(S)
    PROVE  /\ Cardinality(S) \in Nat
           /\ Ascending(S) \in [1..Cardinality(S) -> S]
           /\ \A i, j \in 1..Cardinality(S) : Ascending(S)[i] = Ascending(S)[j] => i = j
<1> DEFINE n == Cardinality(S)
           D == 1..n
           Below(x) == {y \in S : y <= x}
           Rank == [x \in S |-> Cardinality(Below(x))]
<1>1. n \in Nat /\ IsFiniteSet(D) /\ Cardinality(D) = n
  BY FS_CardinalityType, FS_Interval
<1>2. \A x \in S : Rank[x] \in D
  <2> SUFFICES ASSUME NEW x \in S
               PROVE  Cardinality(Below(x)) \in D
    OBVIOUS
  <2>1. x \in Below(x) /\ Below(x) \in SUBSET S
    OBVIOUS
  <2>2. IsFiniteSet(Below(x)) /\ Cardinality(Below(x)) <= n
    BY <2>1, FS_Subset
  <2>3. Cardinality(Below(x)) # 0 /\ Cardinality(Below(x)) \in Nat
    BY <2>1, <2>2, FS_EmptySet, FS_CardinalityType
  <2> QED BY <1>1, <2>2, <2>3
<1>3. \A x, y \in S : x < y => Rank[x] < Rank[y]
  <2> SUFFICES ASSUME NEW x \in S, NEW y \in S, x < y
               PROVE  Cardinality(Below(x)) < Cardinality(Below(y))
    OBVIOUS
  <2>1. Below(x) \in SUBSET Below(y) /\ y \in Below(y) /\ y \notin Below(x)
    <3>1. x \in Nat /\ y \in Nat
      OBVIOUS
    <3>2. ASSUME NEW z \in S, z <= x
          PROVE  z <= y
      <4>1. z \in Nat
        OBVIOUS
      <4> QED BY <3>1, <3>2, <4>1
    <3>3. y \in Below(y) /\ y \notin Below(x)
      BY <3>1
    <3> QED BY <3>2, <3>3
  <2>2. IsFiniteSet(Below(y))
    BY FS_Subset
  <2>3. Cardinality(Below(x)) <= Cardinality(Below(y)) /\ Cardinality(Below(x)) # Cardinality(Below(y))
    BY <2>1, <2>2, FS_Subset
  <2>4. Cardinality(Below(x)) \in Nat /\ Cardinality(Below(y)) \in Nat
    BY <2>1, <2>2, FS_Subset, FS_CardinalityType
  <2> QED BY <2>3, <2>4
<1>4. \A x, y \in S : Rank[x] = Rank[y] => x = y
  <2> SUFFICES ASSUME NEW x \in S, NEW y \in S, Rank[x] = Rank[y]
               PROVE  x = y
    OBVIOUS
  <2>1. x \in Nat /\ y \in Nat /\ ~ (Rank[x] < Rank[y]) /\ ~ (Rank[y] < Rank[x])
    BY <1>1, <1>2
  <2> QED BY <1>3, <2>1
<1>5. \A k \in D : \E x \in S : Rank[x] = k
  <2>1. Rank \in Injection(S, D)
    BY <1>2, <1>4 DEF Injection, IsInjective
  <2>2. Rank \in Surjection(S, D)
    BY <1>1, <2>1, FS_Injection
  <2> QED BY <2>2 DEF Surjection
<1> DEFINE s == [k \in D |-> CHOOSE x \in S : Rank[x] = k]
<1>6. s \in [D -> S] /\ \A k \in D : Rank[s[k]] = k
  BY <1>5
<1>7. \A i, j \in D : i < j => s[i] < s[j]
  <2> SUFFICES ASSUME NEW i \in D, NEW j \in D, i < j
               PROVE  s[i] < s[j]
    OBVIOUS
  <2>1. s[i] \in Nat /\ s[j] \in Nat /\ Rank[s[i]] = i /\ Rank[s[j]] = j
    BY <1>6
  <2>2. i \in Nat /\ j \in Nat
    BY <1>1
  <2>3. Rank[s[i]] < Rank[s[j]] /\ Rank[s[i]] \in Nat /\ Rank[s[j]] \in Nat /\ s[i] \in S /\ s[j] \in S
    BY <1>6, <2>1, <2>2
  <2>4. s[j] < s[i] => Rank[s[j]] < Rank[s[i]]
    BY <1>3, <2>3
  <2> HIDE DEF Rank, s, D
  <2>5. s[i] # s[j]
    <3>1. ASSUME s[i] = s[j]
          PROVE  FALSE
      <4>1. Rank[s[i]] = Rank[s[j]]
        BY <3>1
      <4> QED BY <4>1, <2>3
    <3> QED BY <3>1
  <2>6. ~ (s[j] < s[i])
    BY <2>3, <2>4
  <2> QED BY <2>1, <2>5, <2>6
<1> HIDE DEF s
<1>8. /\ Ascending(S) \in [D -> S]
      /\ \A i, j \in D : i < j => Ascending(S)[i] < Ascending(S)[j]
  <2>1. \E q \in [D -> S] : \A i, j \in DOMAIN q : i < j => q[i] < q[j]
    BY <1>6, <1>7
  <2> QED BY <2>1 DEF Ascending
<1>9. ASSUME NEW i \in D, NEW j \in D, Ascending(S)[i] = Ascending(S)[j]
      PROVE  i = j
  <2>1. Ascending(S)[i] \in Nat
    BY <1>8
  <2>2. ~ (i < j) /\ ~ (j < i)
    BY <1>8, <1>9, <2>1
  <2> QED BY <1>1, <2>2
<1> QED BY <1>1, <1>8, <1>9

-----------------------------------------------------------------------------
\* What the types say that every step needs.
LEMMA Numbers ==
    ASSUME TypeOK
    PROVE  /\ setup \in Setups /\ Recs = 1..NumRecs /\ Tasks = 1..MaxTasks
           /\ NumRecs \in Nat /\ MaxTasks \in Nat /\ Tasks \subseteq Nat /\ Recs \subseteq Nat
           /\ last \in Nat /\ announced \in Nat /\ last <= MaxTasks
           /\ IsFiniteSet(Tasks) /\ IsFiniteSet(Recs)
           /\ \A S : S \subseteq Tasks => IsFiniteSet(S) /\ Cardinality(S) \in Nat
           /\ \A S : S \subseteq Recs => IsFiniteSet(S) /\ Cardinality(S) \in Nat
           /\ active \subseteq Tasks
           /\ MaxWorkers \in Nat /\ MaxWorkers > 0
           /\ \A S : With(S) \subseteq Tasks
<1>1. setup \in Setups /\ last \in 0..MaxTasks /\ announced \in 0..NumRecs
  BY DEF TypeOK
<1>2. NumRecs \in Nat /\ MaxTasks \in Nat /\ Recs = 1..NumRecs /\ Tasks = 1..MaxTasks
         /\ MaxWorkers \in Nat /\ MaxWorkers > 0
  BY <1>1, SetupFacts
<1>3. IsFiniteSet(Tasks) /\ IsFiniteSet(Recs)
  BY <1>2, FS_Interval
<1>4. /\ \A S : S \subseteq Tasks => IsFiniteSet(S) /\ Cardinality(S) \in Nat
      /\ \A S : S \subseteq Recs => IsFiniteSet(S) /\ Cardinality(S) \in Nat
  BY <1>3, FS_Subset, FS_CardinalityType
<1>5. active \subseteq Tasks
  BY DEF TypeOK
<1> QED BY <1>1, <1>2, <1>3, <1>4, <1>5 DEF With

LEMMA InitBase == Init => Base
<1> SUFFICES ASSUME Init
             PROVE  Base
  OBVIOUS
<1>1. setup \in Setups
  BY DEF Init
<1>0. /\ NumRecs \in Nat /\ MaxTasks \in Nat /\ Recs = 1..NumRecs /\ Tasks = 1..MaxTasks
      /\ MaxWorkers \in Nat
      /\ setup.fails \in Nat /\ setup.cancels \in Nat
      /\ setup.stops \in Nat /\ setup.crashes \in Nat /\ setup.deletes \in Nat
  BY <1>1, SetupFacts
<1>2. TypeOK
  BY <1>0, <1>1 DEF Init, TypeOK, NoFiles, Idle, Names, Contents, Places, Ended, None
<1>3. Known
  BY <1>0 DEF Init, Known, Idle, With, None
<1> QED BY <1>2, <1>3 DEF Base

\* Enqueueing: what changes is the tasks.
LEMMA PostBase ==
    ASSUME Base, UNCHANGED setup,
           \/ "bus" \in Callers /\ SegmentCompleted
           \/ "api" \in Callers /\ ((\E r \in Recs : PostTask(r)) \/ (\E t \in Tasks : RetryTask(t)))
           \/ "backfill" \in Callers /\ Backfill
    PROVE  Base'
<1>0. /\ setup.fails \in Nat /\ setup.recs \in 0..NumRecs
      /\ Recs = 1..NumRecs /\ NumRecs \in Nat /\ announced \in Nat
  BY Numbers, SetupFacts DEF Base
<1> USE <1>0 DEF Base, recVars, rowVars, taskVars, workVars, countVars
<1>1. TypeOK' /\ UNCHANGED <<last, rec, status, up, disp, active, pc, verdict, killing>>
  <2>1. CASE SegmentCompleted /\ "bus" \in Callers
    <3>1. announced + 1 \in Recs /\ announced' = announced + 1 /\ announced' \in 0..NumRecs
      BY <2>1 DEF SegmentCompleted, TypeOK
    <3>2. rows' \subseteq 1..announced'
      BY <2>1, <3>1 DEF SegmentCompleted, TypeOK
    <3>3. post' \in [Callers -> SUBSET Recs]
      <4>1. post \in [Callers -> SUBSET Recs]
        BY DEF TypeOK
      <4>2. post' = post \/ post' = [post EXCEPT !["bus"] = {announced + 1}]
        BY <2>1 DEF SegmentCompleted
      <4> QED BY <3>1, <4>1, <4>2 DEF Callers
    <3>4. file' \in [Recs -> [Names -> Contents]]
      BY <2>1, <3>1 DEF SegmentCompleted, TypeOK, Names, Contents
    <3>5. fails' \in 0..setup.fails
      BY <2>1 DEF SegmentCompleted, TypeOK, Admitted, Fault
    <3>6. doomed' \subseteq (1..announced') \ rows'
      <4>1. doomed' = doomed /\ rows' = rows \cup {announced + 1} /\ doomed \subseteq (1..announced) \ rows
        BY <2>1 DEF SegmentCompleted, TypeOK
      <4> QED BY <3>1, <4>1
    <3> QED BY <2>1, <3>1, <3>2, <3>3, <3>4, <3>5, <3>6 DEF SegmentCompleted, TypeOK, Callers, MaxWorkers
  <2>2. ASSUME "api" \in Callers, NEW r \in Recs, PostTask(r)
        PROVE  TypeOK' /\ UNCHANGED <<last, rec, status, up, disp, active, pc, verdict, killing>>
    BY <2>2, SMTT(40) DEF PostTask, TypeOK, Callers, MaxWorkers, Admitted, Fault
  <2>3. ASSUME "api" \in Callers, NEW t \in Tasks, RetryTask(t)
        PROVE  TypeOK' /\ UNCHANGED <<last, rec, status, up, disp, active, pc, verdict, killing>>
    <3>1. status[t] = "failed" /\ rec[t] \in 0..NumRecs /\ (status[t] # "none" => rec[t] # 0)
      BY <2>3 DEF RetryTask, TypeOK, None
    <3>2. rec[t] \in Recs
      BY <3>1
    <3> QED BY <2>3, <3>2, SMTT(40) DEF RetryTask, TypeOK, Callers, MaxWorkers, Admitted, Fault
  <2>4. CASE "backfill" \in Callers /\ Backfill
    <3>1. rows \subseteq Recs
      BY DEF TypeOK
    <3> QED BY <2>4, <3>1 DEF Backfill, TypeOK, Callers, MaxWorkers
  <2> QED BY <2>1, <2>2, <2>3, <2>4
<1>2. Known'
  BY <1>1 DEF Known, With
<1> QED BY <1>1, <1>2

\* The sequence of what is inserted.
LEMMA Batch ==
    ASSUME TypeOK, NEW c \in Callers
    PROVE  LET new == Ascending(post[c]) IN
           /\ post[c] \subseteq Recs /\ Cardinality(post[c]) \in Nat
           /\ new \in [1..Cardinality(post[c]) -> post[c]]
           /\ DOMAIN new = 1..Cardinality(post[c]) /\ Len(new) = Cardinality(post[c])
           /\ \A i, j \in 1..Cardinality(post[c]) : new[i] = new[j] => i = j
<1>1. post[c] \subseteq Recs
  BY DEF TypeOK
<1>2. post[c] \subseteq Nat /\ IsFiniteSet(post[c])
  BY <1>1, Numbers
<1>3. Ascending(post[c]) \in Seq(post[c])
  BY <1>2, AscendingOnce
<1> QED BY <1>1, <1>2, <1>3, AscendingOnce

\* What an insertion does to the tasks.
LEMMA Inserted ==
    ASSUME Base, NEW c \in Callers, InsertTasks(c)
    PROVE  LET n == Cardinality(post[c])
               new == Ascending(post[c])
           IN  /\ n \in Nat /\ n > 0 /\ last' = last + n /\ last' <= setup.tasks
               /\ \A t \in Tasks : t > last /\ t <= last + n =>
                     t - last \in 1..n /\ rec'[t] = new[t - last] /\ rec'[t] \in post[c]
                     /\ status'[t] = "pending"
               /\ \A t \in Tasks : ~ (t > last /\ t <= last + n) =>
                     rec'[t] = rec[t] /\ status'[t] = status[t]
               /\ rec' \in [Tasks -> 0..NumRecs] /\ DOMAIN status' = Tasks
<1> DEFINE n == Cardinality(post[c])
           new == Ascending(post[c])
<1> USE DEF Base
<1>1. n \in Nat /\ new \in [1..n -> post[c]] /\ DOMAIN new = 1..n /\ Len(new) = n
         /\ post[c] \subseteq Recs /\ post[c] # {} /\ IsFiniteSet(post[c])
  BY Batch, Numbers DEF InsertTasks
<1>2. n > 0
  BY <1>1, FS_EmptySet
<1>3. last \in Nat /\ Tasks \subseteq Nat /\ Recs = 1..NumRecs /\ NumRecs \in Nat
  BY Numbers
<1>4. \A t \in Tasks : t - last \in 1..n <=> t > last /\ t <= last + n
  BY <1>1, <1>3
<1>5. /\ rec' = [t \in Tasks |-> IF t - last \in 1..n THEN new[t - last] ELSE rec[t]]
      /\ status' = [t \in Tasks |-> IF t - last \in 1..n THEN "pending" ELSE status[t]]
      /\ last' = last + n /\ last + n <= setup.tasks
  BY <1>1 DEF InsertTasks
<1> HIDE DEF n, new
<1>6. \A t \in Tasks : t > last /\ t <= last + n =>
                     t - last \in 1..n /\ rec'[t] = new[t - last] /\ rec'[t] \in post[c]
                     /\ status'[t] = "pending"
  BY <1>1, <1>4, <1>5
<1>7. \A t \in Tasks : ~ (t > last /\ t <= last + n) =>
                     rec'[t] = rec[t] /\ status'[t] = status[t]
  BY <1>4, <1>5
<1>8. rec' \in [Tasks -> 0..NumRecs]
  <2>1. \A t \in Tasks : rec[t] \in 0..NumRecs
    BY DEF TypeOK
  <2>2. post[c] \subseteq 0..NumRecs
    BY <1>1, <1>3
  <2>3. \A t \in Tasks : rec'[t] \in 0..NumRecs
    BY <1>6, <1>7, <2>1, <2>2
  <2> QED BY <1>5, <2>3
<1> QED BY <1>1, <1>2, <1>5, <1>6, <1>7, <1>8 DEF n, new

LEMMA InsertBase ==
    ASSUME Base, UNCHANGED setup, NEW c \in Callers, InsertTasks(c)
    PROVE  Base'
<1> USE DEF Base
<1> DEFINE n == Cardinality(post[c])
<1>1. n \in Nat /\ n > 0 /\ last' = last + n /\ last' <= setup.tasks
         /\ rec' \in [Tasks -> 0..NumRecs] /\ DOMAIN status' = Tasks
  BY Inserted
<1>2. /\ \A t \in Tasks : t > last /\ t <= last + n =>
              rec'[t] \in post[c] /\ status'[t] = "pending"
      /\ \A t \in Tasks : ~ (t > last /\ t <= last + n) =>
              rec'[t] = rec[t] /\ status'[t] = status[t]
  BY Inserted
<1> HIDE DEF n
<1>3. post[c] \subseteq Recs /\ Recs \subseteq Nat /\ 0 \notin Recs /\ setup \in Setups
  BY Batch, Numbers
<1>4. last \in Nat /\ Tasks = 1..MaxTasks /\ MaxTasks \in Nat /\ setup.tasks \in 0..MaxTasks
  BY Numbers, SetupFacts
<1>5. last' \in 0..MaxTasks
  BY <1>1, <1>4
<1>6. status' \in [Tasks -> {"none", "pending", "running"} \cup Ended]
  <2>1. \A t \in Tasks : status'[t] \in {"none", "pending", "running"} \cup Ended
    BY <1>2 DEF TypeOK
  <2> QED BY <1>1, <1>4, <2>1 DEF InsertTasks
<1>7. \A t \in Tasks : (t <= last') = (status'[t] # "none") /\ (t <= last') = (rec'[t] # None)
  <2> SUFFICES ASSUME NEW t \in Tasks
               PROVE  (t <= last') = (status'[t] # "none") /\ (t <= last') = (rec'[t] # None)
    OBVIOUS
  <2>1. t \in Nat /\ (t <= last) = (status[t] # "none") /\ (t <= last) = (rec[t] # None)
    BY <1>4 DEF TypeOK
  <2>2. CASE t > last /\ t <= last + n
    BY <1>1, <1>2, <1>3, <1>4, <2>1, <2>2 DEF None
  <2>3. CASE ~ (t > last /\ t <= last + n)
    BY <1>1, <1>2, <1>4, <2>1, <2>3
  <2> QED BY <2>2, <2>3
<1>8. TypeOK'
  <2>1. post' \in [Callers -> SUBSET Recs]
    BY DEF InsertTasks, TypeOK
  <2> QED BY <1>1, <1>5, <1>6, <1>7, <2>1
          DEF InsertTasks, TypeOK, recVars, rowVars, workVars, countVars, Callers, MaxWorkers
<1>9. Known'
  <2>1. UNCHANGED <<disp, killing, pc, verdict, up, active>>
    BY DEF InsertTasks, workVars
  <2>2. \A t \in Tasks : pc[t] # "off" => t <= last'
    BY <1>1, <1>4 DEF Known
  <2>3. disp.task <= last' /\ killing <= last'
    BY <1>1, <1>4, SMTT(40) DEF Known, TypeOK
  <2>4. ASSUME NEW t \in Tasks, status'[t] = "pending"
        PROVE  pc[t] = "off" /\ t # disp.task
    <3>1. CASE t > last /\ t <= last + n
      <4>1. ~ (t <= last)
        BY <1>4, <3>1
      <4> QED BY <4>1 DEF Known, TypeOK
    <3>2. CASE ~ (t > last /\ t <= last + n)
      BY <1>2, <2>4, <3>2 DEF Known, With
    <3> QED BY <3>1, <3>2
  <2> QED BY <2>1, <2>2, <2>3, <2>4 DEF Known, With
<1> QED BY <1>8, <1>9

\* The numbers that type correctness rests on.
LEMMA Limits ==
    ASSUME TypeOK
    PROVE  /\ setup.fails \in Nat /\ setup.cancels \in Nat /\ setup.stops \in Nat
           /\ setup.crashes \in Nat /\ setup.deletes \in Nat
           /\ MaxWorkers \in Nat /\ MaxWorkers > 0
           /\ Recs = 1..NumRecs /\ NumRecs \in Nat /\ Tasks = 1..MaxTasks /\ MaxTasks \in Nat
           /\ announced \in Nat /\ last \in Nat /\ last <= MaxTasks
           /\ 0 \notin Tasks /\ 0 \notin Recs
BY Numbers, SetupFacts

\* Type correctness, in three parts.
DataTypes ==
    /\ setup \in Setups
    /\ announced \in 0..NumRecs /\ rows \subseteq 1..announced
    /\ doomed \subseteq (1..announced) \ rows /\ misfiled \subseteq Recs
    /\ format \in [Recs -> {"old", "new"}] /\ file \in [Recs -> [Names -> Contents]]
    /\ post \in [Callers -> SUBSET Recs]
    /\ up \in {"up", "stopping", "down"}
    /\ fails \in 0..setup.fails /\ cancels \in 0..setup.cancels /\ stops \in 0..setup.stops
    /\ crashes \in 0..setup.crashes /\ deletes \in 0..setup.deletes

TaskTypes ==
    /\ last \in 0..MaxTasks /\ rec \in [Tasks -> 0..NumRecs] /\ left \subseteq Tasks
    /\ status \in [Tasks -> {"none", "pending", "running"} \cup Ended]
    /\ \A t \in Tasks : (t <= last) = (status[t] # "none") /\ (t <= last) = (rec[t] # None)

WorkTypes ==
    /\ disp \in [slots : 0..MaxWorkers, task : 0..MaxTasks]
    /\ active = {t \in Tasks : pc[t] # "off"}
    /\ ctx \in [Tasks -> {"live", "cancelled", "timeout"}]
    /\ pc \in [Tasks -> Places]
    /\ verdict \in [Tasks -> {"none"} \cup Ended]
    /\ writes \in [Tasks -> Names \cup {"no", "gone"}]
    /\ killing \in 0..MaxTasks /\ excused \subseteq Tasks

LEMMA TypeParts ==
    /\ TypeOK <=> DataTypes /\ TaskTypes /\ WorkTypes
    /\ TypeOK' <=> DataTypes' /\ TaskTypes' /\ WorkTypes'
BY DEF TypeOK, DataTypes, TaskTypes, WorkTypes

\* What a step leaves alone keeps its types.
LEMMA TypeFrames ==
    /\ UNCHANGED <<setup, announced, rows, doomed, misfiled, format, file, post, up, fails,
                   cancels, stops, crashes, deletes>>
          /\ DataTypes => DataTypes'
    /\ UNCHANGED <<last, rec, status, left>> /\ TaskTypes => TaskTypes'
    /\ UNCHANGED <<setup, disp, active, ctx, pc, verdict, writes, killing, excused>> /\ WorkTypes => WorkTypes'
BY DEF DataTypes, TaskTypes, WorkTypes, Callers, MaxWorkers

LEMMA ServiceBase ==
    ASSUME Base, UNCHANGED setup, Service
    PROVE  Base'
<1> USE Limits DEF Base, recVars, rowVars, taskVars, workVars, countVars, Callers, MaxWorkers, None
<1>1. CASE Tick
  <2>1. FreeSlots \in 0..MaxWorkers
    <3>1. Cardinality(active) \in Nat
      BY Numbers
    <3> QED BY <1>1, <3>1 DEF Tick, FreeSlots
  <2>2. disp' = [slots |-> FreeSlots, task |-> 0]
    BY <1>1 DEF Tick, Idle
  <2>3. TypeOK'
    <3>1. DataTypes'
      BY <1>1, <2>1, <2>2, TypeParts, TypeFrames DEF Tick
    <3>2. TaskTypes'
      BY <1>1, <2>1, <2>2, TypeParts DEF Tick, TaskTypes
    <3>3. WorkTypes'
      BY <1>1, <2>1, <2>2, TypeParts DEF Tick, WorkTypes
    <3> QED BY <3>1, <3>2, <3>3, TypeParts
  <2>4. Known'
    BY <1>1, <2>2 DEF Tick, Known, With, TypeOK
  <2> QED BY <2>3, <2>4
<1>2. CASE Dequeue
  <2>1. CASE up = "up" /\ With({"pending"}) # {}
    <3> DEFINE t == Min(With({"pending"}))
    <3>1. t \in With({"pending"})
      BY <2>1, MinIn, Numbers
    <3>2. t \in Tasks /\ status[t] = "pending" /\ t <= last /\ pc[t] = "off" /\ t # 0
      <4> HIDE DEF t
      <4>1. t \in Tasks /\ status[t] = "pending"
        BY <3>1 DEF With
      <4>2. pc[t] = "off" /\ t # 0
        BY <3>1, <4>1 DEF Known, Tasks
      <4>3. t <= last
        BY <4>1 DEF TypeOK
      <4> QED BY <4>1, <4>2, <4>3
    <3>3. status' = [status EXCEPT ![t] = "running"] /\ disp' = [disp EXCEPT !.task = t]
             /\ disp.slots > 0
      BY <1>2, <2>1 DEF Dequeue
    <3> HIDE DEF t
    <3>4. TypeOK'
      <4>1. DataTypes'
        BY <1>2, <3>2, <3>3, TypeParts, TypeFrames DEF Dequeue
      <4>2. TaskTypes'
        BY <1>2, <3>2, <3>3, TypeParts DEF Dequeue, TaskTypes
      <4>3. WorkTypes'
        BY <1>2, <3>2, <3>3, TypeParts, SMTT(40) DEF Dequeue, WorkTypes
      <4> QED BY <4>1, <4>2, <4>3, TypeParts
    <3>5. Known'
      BY <1>2, <2>1, <3>2, <3>3, SMTT(40) DEF Dequeue, Known, With, TypeOK
    <3> QED BY <3>4, <3>5
  <2>2. CASE ~ (up = "up" /\ With({"pending"}) # {})
    <3>1. disp' = [slots |-> 0, task |-> 0] /\ UNCHANGED status
      BY <1>2, <2>2 DEF Dequeue, Idle
    <3>2. TypeOK'
      <4>1. DataTypes'
        BY <1>2, <3>1, TypeParts, TypeFrames DEF Dequeue
      <4>2. TaskTypes'
        BY <1>2, <3>1, TypeParts DEF Dequeue, TaskTypes
      <4>3. WorkTypes'
        BY <1>2, <3>1, TypeParts DEF Dequeue, WorkTypes
      <4> QED BY <4>1, <4>2, <4>3, TypeParts
    <3>3. Known'
      BY <1>2, <3>1 DEF Dequeue, Known, With, TypeOK, Idle
    <3> QED BY <3>2, <3>3
  <2> QED BY <2>1, <2>2
<1>3. CASE StartWorker
  <2> DEFINE t == disp.task
  <2>1. t \in Tasks /\ t <= last /\ disp.slots > 0 /\ disp.slots \in 0..MaxWorkers /\ pc[t] = "off"
    BY <1>3 DEF StartWorker, TypeOK, Known
  <2>2. /\ active' = active \cup {t} /\ pc' = [pc EXCEPT ![t] = "stat"]
        /\ ctx' = [ctx EXCEPT ![t] = IF up = "up" THEN "live" ELSE "cancelled"]
        /\ disp' = [slots |-> disp.slots - 1, task |-> 0]
    BY <1>3 DEF StartWorker
  <2>3. status[t] # "pending"
    BY <2>1 DEF Known, With
  <2> HIDE DEF t
  <2>4. TypeOK'
    <3>1. DataTypes'
      BY <1>3, <2>1, <2>2, TypeParts, TypeFrames DEF StartWorker
    <3>2. TaskTypes'
      BY <1>3, <2>1, <2>2, TypeParts DEF StartWorker, TaskTypes, Places
    <3>3. WorkTypes'
      BY <1>3, <2>1, <2>2, TypeParts, SMTT(40) DEF StartWorker, WorkTypes, Places
    <3> QED BY <3>1, <3>2, <3>3, TypeParts
  <2>5. Known'
    BY <1>3, <2>1, <2>2, <2>3, SMTT(40) DEF StartWorker, Known, With, TypeOK
  <2> QED BY <2>4, <2>5
<1>4. CASE CancelRow
  <2>1. killing \in Tasks /\ killing <= last
    BY <1>4 DEF CancelRow, TypeOK, Known
  <2>2. TypeOK'
    <3>1. DataTypes'
      <4>1. fails' \in 0..setup.fails
        <5>1. setup.fails \in Nat /\ fails \in 0..setup.fails
          BY Limits DEF TypeOK
        <5>2. fails' = fails \/ (fails < setup.fails /\ fails' = fails + 1)
          BY <1>4 DEF CancelRow, Fault
        <5> QED BY <5>1, <5>2
      <4> QED BY <1>4, <4>1, TypeParts DEF CancelRow, DataTypes
    <3>2. TaskTypes'
      BY <1>4, <2>1, TypeParts DEF CancelRow, TaskTypes, Ended
    <3>3. WorkTypes'
      BY <1>4, <2>1, TypeParts DEF CancelRow, WorkTypes, Ended
    <3> QED BY <3>1, <3>2, <3>3, TypeParts
  <2>3. Known'
    BY <1>4, <2>1 DEF CancelRow, Known, With, TypeOK
  <2> QED BY <2>2, <2>3
<1>5. CASE Stopped
  <2>1. TypeOK'
    BY <1>5 DEF Stopped, TypeOK
  <2>2. Known'
    BY <1>5 DEF Stopped, Known, With, TypeOK
  <2> QED BY <2>1, <2>2
<1> QED BY <1>1, <1>2, <1>3, <1>4, <1>5 DEF Service

\* A worker has a recording.
LEMMA AtRecording ==
    ASSUME Base, NEW t \in Tasks, pc[t] # "off"
    PROVE  /\ t <= last /\ t # disp.task /\ t \in active /\ status[t] \notin {"none", "pending"}
           /\ rec[t] \in Recs /\ up # "down" /\ t \in 1..last
<1>1. t <= last /\ rec[t] \in 0..NumRecs /\ rec[t] # 0 /\ status[t] # "none"
  BY DEF Base, Known, TypeOK, None
<1>2. status[t] # "pending" /\ t \in active
  BY DEF Base, Known, With, TypeOK
<1>3. up # "down"
  BY <1>2 DEF Base, Known
<1>4. t # disp.task
  BY <1>1 DEF Base, Known, None, TypeOK, Tasks
<1>5. rec[t] \in Recs /\ t \in 1..last
  BY <1>1, Limits DEF Base
<1> QED BY <1>1, <1>2, <1>3, <1>4, <1>5

\* The files keep their types, whatever is done with them.
LEMMA RenameTypes ==
    ASSUME TypeOK, NEW r \in Recs, NEW a \in Names, NEW b \in Names,
           Rename(r, a, b) \/ Unlink(r, a) \/ RenameFails(r, a)
    PROVE  /\ file' \in [Recs -> [Names -> Contents]]
           /\ writes' \in [Tasks -> Names \cup {"no", "gone"}]
<1>1. file \in [Recs -> [Names -> Contents]] /\ writes \in [Tasks -> Names \cup {"no", "gone"}]
  BY DEF TypeOK
<1>2. CASE Rename(r, a, b)
  <2>1. file' = [file EXCEPT ![r] = [@ EXCEPT ![b] = file[r][a], ![a] = "none"]]
    BY <1>2 DEF Rename
  <2>2. [file[r] EXCEPT ![b] = file[r][a], ![a] = "none"] \in [Names -> Contents]
    BY <1>1 DEF Contents
  <2>3. writes' \in [Tasks -> Names \cup {"no", "gone"}]
    BY <1>1, <1>2 DEF Rename, Moved
  <2> QED BY <1>1, <2>1, <2>2, <2>3
<1>3. CASE Unlink(r, a)
  BY <1>1, <1>3 DEF Unlink, Contents
<1>4. CASE RenameFails(r, a)
  BY <1>1, <1>4 DEF RenameFails
<1> QED BY <1>2, <1>3, <1>4

\* The steps of a worker on the files: one place, one action on the files.
Filing(t) ==
    \/ RemoveOutput(t) \/ MoveOutput(t) \/ ClearBackup(t) \/ MoveOriginal(t) \/ RestoreOutput(t)
    \/ Commit(t) \/ RestoreOriginal(t) \/ RemoveBackup(t)

LEMMA FilingForm ==
    ASSUME Base, NEW t \in Tasks, Filing(t)
    PROVE  /\ FilesOnly /\ pc[t] # "off"
           /\ \E b \in Over : pc' = [pc EXCEPT ![t] = b]
           /\ file' \in [Recs -> [Names -> Contents]]
           /\ writes' \in [Tasks -> Names \cup {"no", "gone"}]
           /\ fails' \in 0..setup.fails
<1>1. /\ FilesOnly /\ pc[t] # "off"
      /\ \E b \in Over : pc' = [pc EXCEPT ![t] = b]
  BY DEF Filing, RemoveOutput, MoveOutput, ClearBackup, MoveOriginal, RestoreOutput,
         Commit, RestoreOriginal, RemoveBackup, At, Over
<1>2. rec[t] \in Recs
  BY <1>1, AtRecording
<1>3. \E a, b \in Names : Rename(rec[t], a, b) \/ Unlink(rec[t], a) \/ RenameFails(rec[t], a)
  BY DEF Filing, RemoveOutput, MoveOutput, ClearBackup, MoveOriginal, RestoreOutput,
         Commit, RestoreOriginal, RemoveBackup, Names
<1>4. /\ file' \in [Recs -> [Names -> Contents]]
      /\ writes' \in [Tasks -> Names \cup {"no", "gone"}]
  BY <1>2, <1>3, RenameTypes DEF Base
<1>5. UNCHANGED fails \/ Fault
  BY DEF Filing, RemoveOutput, MoveOutput, ClearBackup, MoveOriginal, RestoreOutput,
         Commit, RestoreOriginal, RemoveBackup, RenameFails
<1>6. fails' \in 0..setup.fails
  <2>1. setup.fails \in Nat /\ fails \in 0..setup.fails
    BY Limits DEF Base, TypeOK
  <2> QED BY <1>5, <2>1 DEF Fault
<1> QED BY <1>1, <1>4, <1>6

LEMMA FilingBase ==
    ASSUME Base, UNCHANGED setup, NEW t \in Tasks, Filing(t)
    PROVE  Base'
<1>1. /\ FilesOnly /\ pc[t] # "off"
      /\ file' \in [Recs -> [Names -> Contents]]
      /\ writes' \in [Tasks -> Names \cup {"no", "gone"}]
      /\ fails' \in 0..setup.fails
  BY FilingForm
<1>2. PICK b \in Over : pc' = [pc EXCEPT ![t] = b]
  BY FilingForm
<1>3. status[t] # "pending" /\ t # disp.task /\ t <= last /\ t \in active
  BY <1>1, AtRecording
<1>4. TypeOK'
  BY <1>1, <1>2 DEF Base, TypeOK, Over, Places, FilesOnly, rowVars, taskVars, countVars, Callers, MaxWorkers
<1>5. Known'
  BY <1>1, <1>2, <1>3 DEF Base, TypeOK, Over, Known, With, FilesOnly, taskVars
<1> QED BY <1>4, <1>5 DEF Base

\* A step of a worker that is at work leaves the others alone.
LEMMA WorkerKnown ==
    ASSUME Base, NEW t \in Tasks, pc[t] # "off", UNCHANGED <<last, up, disp, active, killing>>,
           NEW b \in Places, pc' = [pc EXCEPT ![t] = b], b # "off",
           NEW v, verdict' = [verdict EXCEPT ![t] = v],
           NEW s, s # "pending", status' = [status EXCEPT ![t] = s],
           b = "exited" => v \in {"completed", "failed"}, b \in {"finish", "quit"} => v \in Ended
    PROVE  Known'
<1>1. pc \in [Tasks -> Places] /\ DOMAIN status = Tasks /\ DOMAIN verdict = Tasks
  BY DEF Base, TypeOK
<1>2. t <= last /\ t # disp.task /\ t \in active
  BY AtRecording
<1>3. \A u \in Tasks : pc'[u] # "off" => u <= last'
  BY <1>1, <1>2 DEF Base, Known
<1>4. /\ disp'.task <= last' /\ killing' <= last'
      /\ disp'.task # None => disp'.slots > 0 /\ pc'[disp'.task] = "off"
  BY <1>1, <1>2 DEF Base, Known, TypeOK
<1>5. \A u \in With({"pending"})' : pc'[u] = "off" /\ u # disp'.task
  BY <1>1, <1>2 DEF Base, Known, With
<1>6. up' = "down" => active' = {} /\ disp' = Idle /\ killing' = None
  BY DEF Base, Known
<1>7. \A u \in Tasks : /\ pc'[u] = "exited" => verdict'[u] \in {"completed", "failed"}
                       /\ pc'[u] \in {"finish", "quit"} => verdict'[u] \in Ended
  BY <1>1 DEF Base, Known
<1> QED BY <1>3, <1>4, <1>5, <1>6, <1>7 DEF Known

LEMMA Outcomes ==
    ASSUME Base, NEW t \in Tasks
    PROVE  /\ pc[t] = "exited" => verdict[t] \in {"completed", "failed"}
           /\ pc[t] \in {"finish", "quit"} => verdict[t] \in Ended
BY DEF Base, Known

\* How a task ended is in its row now, or the write was lost.
LEMMA Written ==
    ASSUME Base, NEW t \in Tasks, NEW s \in Ended, Write(t, s) \/ WriteLive(t, s)
    PROVE  /\ left' \subseteq Tasks /\ fails' \in 0..setup.fails
           /\ fails' = fails \/ fails' = fails + 1
           /\ \/ status' = [status EXCEPT ![t] = s] /\ fails' = fails
              \/ status' = status /\ (fails' = fails + 1 \/ ctx[t] # "live")
           /\ \E v \in {s, status[t]} : status' = [status EXCEPT ![t] = v]
           /\ status' \in [Tasks -> {"none", "pending", "running"} \cup Ended]
<1>1. setup.fails \in Nat /\ fails \in 0..setup.fails /\ left \subseteq Tasks
         /\ status \in [Tasks -> {"none", "pending", "running"} \cup Ended]
  BY Limits DEF Base, TypeOK
<1>2. \/ status' = [status EXCEPT ![t] = s] /\ left' = left /\ fails' = fails
      \/ /\ status' = status /\ left' = left \cup {t}
         /\ \/ fails < setup.fails /\ fails' = fails + 1
            \/ ctx[t] # "live" /\ fails' = fails
  BY DEF Write, WriteLive, Fault
<1>3. /\ left' \subseteq Tasks /\ fails' \in 0..setup.fails
      /\ fails' = fails \/ fails' = fails + 1
  BY <1>1, <1>2
<1>4. status = [status EXCEPT ![t] = status[t]]
  BY <1>1
<1>5. /\ \E v \in {s, status[t]} : status' = [status EXCEPT ![t] = v]
      /\ status' \in [Tasks -> {"none", "pending", "running"} \cup Ended]
  BY <1>1, <1>2, <1>4
<1> QED BY <1>2, <1>3, <1>5

LEMMA WorkerBase ==
    ASSUME Base, UNCHANGED setup, NEW t \in Tasks, Worker(t) \/ StartFails(t) \/ Progress(t)
    PROVE  Base'
<1> USE DEF recVars, rowVars, taskVars, workVars, countVars, Callers, MaxWorkers
<1>1. CASE Filing(t)
  BY <1>1, FilingBase
<1>2. CASE ~ Filing(t)
  <2>0. pc[t] # "off"
    BY <1>2 DEF Worker, Filing, StatInput, BudgetInterrupted, Quit, StartFfmpeg, FfmpegSucceeds,
                FfmpegFails, Decide, FinishTask, UpdateFormat, Deregister, StartFails, Progress, At
  <2>1. /\ t <= last /\ t # disp.task /\ t \in active /\ status[t] \notin {"none", "pending"}
        /\ rec[t] \in Recs /\ up # "down"
    BY <2>0, AtRecording
  <2>2. setup.fails \in Nat
    BY Limits DEF Base
  <2> USE <2>0, <2>1, <2>2 DEF Base
  <2>3. CASE StatInput(t)
    <3>1. TypeOK'
      <4>1. DataTypes'
        BY <2>3, TypeParts, TypeFrames DEF StatInput
      <4>2. TaskTypes'
        BY <2>3, TypeParts, TypeFrames DEF StatInput
      <4>3. WorkTypes'
        BY <2>3, TypeParts DEF StatInput, WorkTypes, Ended, Places
      <4> QED BY <4>1, <4>2, <4>3, TypeParts
    <3>2. Known'
      <4>1. UNCHANGED <<last, up, disp, active, killing>> /\ status' = [status EXCEPT ![t] = status[t]]
        BY <2>3 DEF StatInput, TypeOK
      <4>2. \/ /\ pc' = [pc EXCEPT ![t] = "quit"]
               /\ verdict' = [verdict EXCEPT ![t] = "cancelled"]
            \/ /\ pc' = [pc EXCEPT ![t] = "budget"]
               /\ verdict' = [verdict EXCEPT ![t] = verdict[t]]
        BY <2>3 DEF StatInput, TypeOK
      <4> QED BY <4>1, <4>2, WorkerKnown DEF Places, Ended
    <3> QED BY <3>1, <3>2
  <2>4. ASSUME NEW s \in Ended, Write(t, s) \/ WriteLive(t, s), NEW b \in Over, NEW v \in {"none"} \cup Ended,
               pc' = [pc EXCEPT ![t] = b], verdict' = [verdict EXCEPT ![t] = v],
               excused' = excused \/ excused' = excused \cup {t},
               UNCHANGED <<recVars, rowVars, post, last, rec, up, disp, active, ctx, writes,
                           killing, countVars>>
        PROVE  Base'
    <3>1. left' \subseteq Tasks /\ fails' \in 0..setup.fails
             /\ status' \in [Tasks -> {"none", "pending", "running"} \cup Ended]
      BY <2>4, Written
    <3>2. PICK w \in {s, status[t]} : status' = [status EXCEPT ![t] = w]
      BY <2>4, Written
    <3>3. w \notin {"none", "pending"}
      BY DEF Ended
    <3>4. TypeOK'
      <4>1. DataTypes'
        BY <2>4, <3>1, TypeParts DEF DataTypes
      <4>2. TaskTypes'
        BY <2>4, <3>1, <3>2, <3>3, TypeParts DEF TaskTypes
      <4>3. WorkTypes'
        BY <2>4, TypeParts DEF WorkTypes, Over, Places
      <4> QED BY <4>1, <4>2, <4>3, TypeParts
    <3>5. Known'
      <4>1. b \in Places /\ b \notin {"off", "exited", "finish", "quit"}
        BY DEF Over, Places
      <4> QED BY <2>4, <3>2, <3>3, <4>1, WorkerKnown
    <3> QED BY <3>4, <3>5
  <2>14. verdict = [verdict EXCEPT ![t] = verdict[t]] /\ verdict[t] \in {"none"} \cup Ended
    BY DEF TypeOK
  <2>15. CASE BudgetInterrupted(t)
    <3>1. /\ Write(t, "cancelled") /\ "cancelled" \in Ended /\ "end" \in Over
          /\ pc' = [pc EXCEPT ![t] = "end"] /\ verdict' = verdict
          /\ excused' = excused \/ excused' = excused \cup {t}
          /\ UNCHANGED <<recVars, rowVars, post, last, rec, up, disp, active, ctx, writes,
                         killing, countVars>>
      BY <2>15 DEF BudgetInterrupted, Ended, Over
    <3> QED BY <2>4, <2>14, <3>1
  <2>16. CASE Quit(t)
    <3>1. /\ WriteLive(t, verdict[t]) /\ "end" \in Over
          /\ pc' = [pc EXCEPT ![t] = "end"] /\ verdict' = [verdict EXCEPT ![t] = "none"]
          /\ excused' = excused
          /\ UNCHANGED <<recVars, rowVars, post, last, rec, up, disp, active, ctx, writes,
                         killing, countVars>>
      BY <2>16 DEF Quit, Over
    <3>2. verdict[t] \in Ended
      BY <2>16, Outcomes DEF Quit
    <3> QED BY <2>4, <3>1, <3>2
  <2>5. CASE StartFails(t)
    <3>1. fails' \in 0..setup.fails
      BY <2>5 DEF StartFails, TypeOK, Fault
    <3>2. TypeOK'
      BY <2>5, <3>1 DEF StartFails, TypeOK, Ended, Places
    <3>3. Known'
      <4>1. UNCHANGED <<last, up, disp, active, killing>> /\ status' = [status EXCEPT ![t] = status[t]]
               /\ pc' = [pc EXCEPT ![t] = "quit"] /\ verdict' = [verdict EXCEPT ![t] = "failed"]
        BY <2>5 DEF StartFails, TypeOK
      <4> QED BY <4>1, WorkerKnown DEF Places, Ended
    <3> QED BY <3>2, <3>3
  <2>6. CASE StartFfmpeg(t)
    <3>1. file' \in [Recs -> [Names -> Contents]]
      <4>1. Truncated(t) \in Contents
        BY DEF Truncated, Contents
      <4>2. file \in [Recs -> [Names -> Contents]] /\ "output" \in Names
        BY DEF TypeOK, Names
      <4> QED BY <2>6, <4>1, <4>2 DEF StartFfmpeg
    <3>2. TypeOK'
      <4>1. DataTypes'
        BY <2>6, <3>1, TypeParts DEF StartFfmpeg, DataTypes
      <4>2. TaskTypes'
        BY <2>6, <3>1, TypeParts DEF StartFfmpeg, TaskTypes, Ended, Places, Names
      <4>3. WorkTypes'
        BY <2>6, <3>1, TypeParts DEF StartFfmpeg, WorkTypes, Ended, Places, Names
      <4> QED BY <4>1, <4>2, <4>3, TypeParts
    <3>3. Known'
      <4>1. UNCHANGED <<last, up, disp, active, killing>> /\ status' = [status EXCEPT ![t] = status[t]]
        BY <2>6 DEF StartFfmpeg, TypeOK
      <4>2. \/ /\ pc' = [pc EXCEPT ![t] = "run"]
               /\ verdict' = [verdict EXCEPT ![t] = verdict[t]]
            \/ pc' = [pc EXCEPT ![t] = "exited"] /\ verdict' = [verdict EXCEPT ![t] = "failed"]
        BY <2>6 DEF StartFfmpeg, TypeOK
      <4> QED BY <4>1, <4>2, WorkerKnown DEF Places
    <3> QED BY <3>2, <3>3
  <2>7. CASE Progress(t)
    <3>1. TypeOK'
      BY <2>7 DEF Progress, TypeOK
    <3>2. Known'
      BY <2>7 DEF Progress, TypeOK, Known, With
    <3> QED BY <3>1, <3>2
  <2>8. CASE FfmpegSucceeds(t)
    <3>1. file' \in [Recs -> [Names -> Contents]]
      BY <2>8 DEF FfmpegSucceeds, TypeOK, Contents
    <3>2. TypeOK'
      BY <2>8, <3>1 DEF FfmpegSucceeds, TypeOK, Ended, Places, Names
    <3>3. Known'
      BY <2>8 DEF FfmpegSucceeds, TypeOK, Known, With
    <3> QED BY <3>2, <3>3
  <2>9. CASE FfmpegFails(t)
    <3>1. fails' \in 0..setup.fails
      BY <2>9 DEF FfmpegFails, TypeOK, Fault
    <3>2. TypeOK'
      BY <2>9, <3>1 DEF FfmpegFails, TypeOK, Ended, Places, Names
    <3>3. Known'
      BY <2>9 DEF FfmpegFails, TypeOK, Known, With
    <3> QED BY <3>2, <3>3
  <2>10. CASE Decide(t)
    <3>1. TypeOK'
      BY <2>10 DEF Decide, TypeOK, Ended, Places
    <3>2. Known'
      <4>1. UNCHANGED <<last, up, disp, active, killing>> /\ status' = [status EXCEPT ![t] = status[t]]
        BY <2>10 DEF Decide, TypeOK
      <4>2. verdict[t] \in {"completed", "failed"}
        BY <2>10, Outcomes DEF Decide
      <4>3. \E v \in Ended : verdict' = [verdict EXCEPT ![t] = v]
        BY <2>10, <4>2 DEF Decide, Ended
      <4>4. pc' = [pc EXCEPT ![t] = "finish"]
        BY <2>10 DEF Decide
      <4> QED BY <4>1, <4>3, <4>4, WorkerKnown DEF Places
    <3> QED BY <3>1, <3>2
  <2>11. CASE FinishTask(t)
    <3>1. /\ Write(t, verdict[t]) /\ AfterFinish(verdict[t]) \in Over
          /\ pc' = [pc EXCEPT ![t] = AfterFinish(verdict[t])] /\ verdict' = [verdict EXCEPT ![t] = "none"]
          /\ excused' = excused
          /\ UNCHANGED <<recVars, rowVars, post, last, rec, up, disp, active, ctx, writes,
                         killing, countVars>>
      BY <2>11 DEF FinishTask, AfterFinish, Over
    <3>2. verdict[t] \in Ended
      BY <2>11, Outcomes DEF FinishTask
    <3> QED BY <2>4, <3>1, <3>2
  <2>12. CASE UpdateFormat(t)
    <3>1. TypeOK'
      <4>1. fails' \in 0..setup.fails /\ misfiled' \subseteq Recs /\ format' \in [Recs -> {"old", "new"}]
        BY <2>12 DEF UpdateFormat, TypeOK, Fault
      <4> QED BY <2>12, <4>1 DEF UpdateFormat, TypeOK, Places
    <3>2. Known'
      BY <2>12 DEF UpdateFormat, TypeOK, Known, With
    <3> QED BY <3>1, <3>2
  <2>13. CASE Deregister(t)
    <3>1. TypeOK'
      BY <2>13 DEF Deregister, TypeOK, Places, At
    <3>2. Known'
      BY <2>13 DEF Deregister, TypeOK, Known, With, At
    <3> QED BY <3>1, <3>2
  <2> QED BY <1>2, <2>3, <2>15, <2>16, <2>5, <2>6, <2>7, <2>8, <2>9, <2>10, <2>11, <2>12, <2>13
          DEF Worker, Filing
<1> QED BY <1>1, <1>2

\* Cancels, timeouts, stops, crashes, starts; retention and the orphan scan.
Outer ==
    \/ \E t \in Tasks : CancelJob(t) \/ JobTimeout(t)
    \/ Stop \/ Crash
    \/ \E old \in SUBSET With({"running"}) : Start(old)
    \/ \E r \in Recs : DeleteRow(r) \/ DeleteFile(r) \/ Sweep(r)

LEMMA OuterBase ==
    ASSUME Base, UNCHANGED setup, Outer
    PROVE  Base'
<1> USE Limits DEF Base, recVars, rowVars, taskVars, workVars, countVars, Callers, MaxWorkers, None
<1>1. ASSUME NEW t \in Tasks, CancelJob(t)
      PROVE  Base'
  <2>1. t <= last /\ t \in 0..MaxTasks
    <3>1. status[t] # "none" /\ (t <= last) = (status[t] # "none") /\ Tasks = 1..MaxTasks
      BY <1>1, TypeParts DEF CancelJob, TaskTypes
    <3> QED BY <3>1
  <2>2. DataTypes'
    <3>1. cancels' \in 0..setup.cancels
      <4>1. setup.cancels \in Nat /\ cancels \in 0..setup.cancels
        BY TypeParts DEF DataTypes
      <4> QED BY <1>1, <4>1 DEF CancelJob
    <3> QED BY <1>1, <3>1, TypeParts DEF CancelJob, DataTypes
  <2>3. TaskTypes'
    BY <1>1, TypeParts DEF CancelJob, TaskTypes
  <2>4. WorkTypes'
    BY <1>1, <2>1, TypeParts DEF CancelJob, WorkTypes
  <2>5. Known'
    BY <1>1, <2>1 DEF CancelJob, Known, With
  <2> QED BY <2>2, <2>3, <2>4, <2>5, TypeParts
<1>2. ASSUME NEW t \in Tasks, JobTimeout(t)
      PROVE  Base'
  <2>2. DataTypes' /\ TaskTypes'
    BY <1>2, TypeParts, TypeFrames DEF JobTimeout
  <2>4. WorkTypes'
    BY <1>2, TypeParts DEF JobTimeout, WorkTypes
  <2>5. Known'
    BY <1>2 DEF JobTimeout, Known, With
  <2> QED BY <2>2, <2>4, <2>5, TypeParts
<1>3. CASE Stop
  <2>2. DataTypes'
    BY <1>3, TypeParts, SMTT(40) DEF Stop, DataTypes
  <2>3. TaskTypes'
    BY <1>3, TypeParts, TypeFrames DEF Stop
  <2>4. WorkTypes'
    BY <1>3, TypeParts DEF Stop, WorkTypes
  <2>5. Known'
    BY <1>3 DEF Stop, Known, With
  <2> QED BY <2>2, <2>3, <2>4, <2>5, TypeParts
<1>4. CASE Crash
  <2>2. DataTypes'
    BY <1>4, TypeParts, SMTT(40) DEF Crash, DataTypes
  <2>3. TaskTypes'
    BY <1>4, TypeParts DEF Crash, TaskTypes, With
  <2>4. WorkTypes'
    BY <1>4, TypeParts DEF Crash, WorkTypes, Idle, Places, Names, Ended
  <2>5. Known'
    BY <1>4 DEF Crash, Known, With, Idle, TypeOK
  <2> QED BY <2>2, <2>3, <2>4, <2>5, TypeParts
<1>5. ASSUME NEW old \in SUBSET With({"running"}), Start(old)
      PROVE  Base'
  <2>1. active = {} /\ disp = Idle /\ killing = None
    BY <1>5 DEF Start, Known
  <2>2. DataTypes'
    <3>1. file' \in [Recs -> [Names -> Contents]]
      <4>1. \A r \in Recs : file[r] \in [Names -> Contents]
        BY TypeParts DEF DataTypes
      <4>2. \A r \in Recs : [file[r] EXCEPT !["output"] = "none"] \in [Names -> Contents]
        BY <4>1 DEF Contents
      <4> QED BY <1>5, <4>1, <4>2 DEF Start
    <3> QED BY <1>5, <3>1, TypeParts DEF Start, DataTypes
  <2>3. TaskTypes'
    BY <1>5, TypeParts DEF Start, TaskTypes, RecoverStuck, With
  <2>4. WorkTypes'
    BY <1>5, TypeParts, TypeFrames DEF Start
  <2>5. Known'
    BY <1>5, <2>1 DEF Start, Known, With, RecoverStuck, Idle, TypeOK
  <2> QED BY <2>2, <2>3, <2>4, <2>5, TypeParts
<1>6. ASSUME NEW r \in Recs, DeleteRow(r)
      PROVE  Base'
  <2>1. DataTypes'
    <3>1. deletes' \in 0..setup.deletes
      <4>1. setup.deletes \in Nat /\ deletes \in 0..setup.deletes
        BY TypeParts DEF DataTypes
      <4> QED BY <1>6, <4>1 DEF DeleteRow
    <3>2. rows' \subseteq 1..announced /\ doomed' \subseteq (1..announced) \ rows'
      BY <1>6, TypeParts DEF DeleteRow, DataTypes
    <3> QED BY <1>6, <3>1, <3>2, TypeParts DEF DeleteRow, DataTypes
  <2>2. TaskTypes' /\ WorkTypes'
    BY <1>6, TypeParts, TypeFrames DEF DeleteRow
  <2>3. Known'
    BY <1>6 DEF DeleteRow, Known, With
  <2> QED BY <2>1, <2>2, <2>3, TypeParts
<1>8. ASSUME NEW r \in Recs, DeleteFile(r)
      PROVE  Base'
  <2>1. /\ file' \in [Recs -> [Names -> Contents]]
        /\ writes' \in [Tasks -> Names \cup {"no", "gone"}]
    BY <1>8, RenameTypes DEF DeleteFile, Names
  <2>2. DataTypes'
    BY <1>8, <2>1, TypeParts DEF DeleteFile, DataTypes
  <2>3. TaskTypes'
    BY <1>8, TypeParts, TypeFrames DEF DeleteFile
  <2>4. WorkTypes'
    BY <1>8, <2>1, TypeParts DEF DeleteFile, WorkTypes
  <2>5. Known'
    BY <1>8 DEF DeleteFile, Known, With
  <2> QED BY <2>2, <2>3, <2>4, <2>5, TypeParts
<1>7. ASSUME NEW r \in Recs, Sweep(r)
      PROVE  Base'
  <2>0. PICK n \in Names : Unlink(r, n)
    BY <1>7 DEF Sweep, Orphans
  <2>1. /\ file' \in [Recs -> [Names -> Contents]]
        /\ writes' \in [Tasks -> Names \cup {"no", "gone"}]
    BY <2>0, RenameTypes
  <2>2. DataTypes'
    BY <1>7, <2>1, TypeParts DEF Sweep, FilesOnly, DataTypes
  <2>3. TaskTypes'
    BY <1>7, TypeParts, TypeFrames DEF Sweep, FilesOnly
  <2>4. WorkTypes'
    BY <1>7, <2>1, TypeParts DEF Sweep, FilesOnly, WorkTypes
  <2>5. Known'
    BY <1>7 DEF Sweep, FilesOnly, Known, With
  <2> QED BY <2>2, <2>3, <2>4, <2>5, TypeParts
<1> QED BY <1>1, <1>2, <1>3, <1>4, <1>5, <1>6, <1>7, <1>8 DEF Outer

\* Enqueueing, up to the insertion.
Posting ==
    \/ "bus" \in Callers /\ SegmentCompleted
    \/ "api" \in Callers /\ ((\E r \in Recs : PostTask(r)) \/ (\E t \in Tasks : RetryTask(t)))
    \/ "backfill" \in Callers /\ Backfill

\* The steps by what they are about.
LEMMA MoveKinds ==
    Move <=> \/ Service \/ Posting \/ Outer
             \/ \E c \in Callers : InsertTasks(c)
             \/ \E t \in Tasks : Worker(t) \/ StartFails(t) \/ Progress(t)
BY DEF Move, Outer, Posting

LEMMA NextBase == Base /\ [Next]_vars => Base'
<1> SUFFICES ASSUME Base, [Next]_vars
             PROVE  Base'
  OBVIOUS
<1>1. CASE Next
  <2>1. Move /\ UNCHANGED setup
    BY <1>1 DEF Next
  <2> QED BY <2>1, MoveKinds, ServiceBase, PostBase, OuterBase, InsertBase, WorkerBase DEF Posting
<1>2. CASE UNCHANGED vars
  BY <1>2 DEF vars, moving, recVars, rowVars, taskVars, workVars, countVars, Base, TypeOK, Known, With,
              Callers, MaxWorkers
<1> QED BY <1>1, <1>2

-----------------------------------------------------------------------------
(* The slots, the causes, the backlog *)

\* The slots a tick still has to give are free, whatever ends meanwhile.
Slots == Cardinality(active) + disp.slots <= MaxWorkers

\* Whatever is cancelled has a cause, in each place the cancel passes by.
Cause ==
    /\ up = "stopping" => stops > 0
    /\ killing # None => killing \in excused
    /\ stops = 0 =>
          \A t \in Tasks : "cancelled" \in {ctx[t], verdict[t], status[t]} => t \in excused

\* Running tasks that no worker will bring to an end.
Stranded(t) ==
    /\ status[t] = "running" /\ t # killing
    /\ \/ pc[t] = "off" /\ (t = disp.task => up = "stopping")
       \/ pc[t] # "off" /\ ctx[t] # "live"
       \/ pc[t] \in Over
Doomed == {t \in Tasks : Stranded(t)}
Lost == MaxWorkers * (crashes + stops) + crashes
DoomedBounded == ~setup.timeouts => Cardinality(Doomed) <= Lost + fails

\* Those that have counted and are still to insert.
Counting == {c \in Callers : post[c] # {}}
QueueBounded ==
    "backfill" \notin Callers /\ ~setup.timeouts =>
       /\ \A c \in Callers : \A r, s \in post[c] : r = s
       /\ Cardinality(With({"pending"})) + Cardinality(Doomed) + Cardinality(Counting) <=
            MaxPending + Cardinality(Callers) - 1 + fails + Lost

\* Counting with one more.
LEMMA OneMore ==
    ASSUME NEW S, IsFiniteSet(S), NEW x
    PROVE  /\ IsFiniteSet(S \cup {x}) /\ Cardinality(S \cup {x}) \in Nat /\ Cardinality(S) \in Nat
           /\ Cardinality(S \cup {x}) <= Cardinality(S) + 1
<1>1. Cardinality(S) \in Nat
  BY FS_CardinalityType
<1>2. IsFiniteSet(S \cup {x}) /\ Cardinality(S \cup {x}) = IF x \in S THEN Cardinality(S) ELSE Cardinality(S) + 1
  BY FS_AddElement
<1> QED BY <1>1, <1>2

LEMMA SlotsFrame ==
    ASSUME Move
    PROVE  \/ UNCHANGED <<active, disp>>
           \/ Tick \/ Dequeue \/ StartWorker \/ Crash \/ \E t \in Tasks : Deregister(t)
<1> USE DEF workVars
<1>1. CASE Service
  BY <1>1 DEF Service, CancelRow, Stopped
<1>2. CASE Posting
  BY <1>2 DEF Posting, SegmentCompleted, PostTask, RetryTask, Backfill
<1>3. CASE Outer
  BY <1>3 DEF Outer, CancelJob, JobTimeout, Stop, Start, DeleteRow, DeleteFile, Sweep, FilesOnly
<1>4. CASE \E c \in Callers : InsertTasks(c)
  BY <1>4 DEF InsertTasks
<1>5. ASSUME NEW t \in Tasks, Worker(t) \/ StartFails(t) \/ Progress(t), ~Deregister(t)
      PROVE  UNCHANGED <<active, disp>>
  BY <1>5 DEF Worker, StatInput, BudgetInterrupted, Quit, StartFfmpeg, FfmpegSucceeds, FfmpegFails, Decide,
              FinishTask, RemoveOutput, MoveOutput, ClearBackup, MoveOriginal, RestoreOutput, Commit,
              RestoreOriginal, RemoveBackup, UpdateFormat, StartFails, Progress, FilesOnly
<1> QED BY <1>1, <1>2, <1>3, <1>4, <1>5, MoveKinds

LEMMA SlotsStep ==
    ASSUME Base, Slots, Move, UNCHANGED setup
    PROVE  Slots'
<1>1. /\ IsFiniteSet(active) /\ Cardinality(active) \in Nat /\ disp.slots \in Nat
      /\ MaxWorkers \in Nat /\ MaxWorkers' = MaxWorkers /\ active \subseteq Tasks
  <2>1. disp \in [slots : 0..MaxWorkers, task : 0..MaxTasks]
    BY DEF Base, TypeOK
  <2>2. IsFiniteSet(active) /\ Cardinality(active) \in Nat /\ MaxWorkers \in Nat /\ active \subseteq Tasks
    BY Numbers DEF Base
  <2> QED BY <2>1, <2>2 DEF MaxWorkers
<1>2. Cardinality(active) + disp.slots <= MaxWorkers
  BY DEF Slots
<1> USE <1>1, <1>2 DEF Slots
<1>3. CASE UNCHANGED <<active, disp>>
  BY <1>3
<1>4. CASE Tick
  BY <1>4 DEF Tick, FreeSlots, workVars, Base, TypeOK
<1>5. CASE Dequeue
  <2>1. disp'.slots = disp.slots \/ disp'.slots = 0
    BY <1>5 DEF Dequeue, Idle, Base, TypeOK
  <2>2. active' = active
    BY <1>5 DEF Dequeue, workVars
  <2> QED BY <2>1, <2>2
<1>6. CASE StartWorker
  <2>1. active' = active \cup {disp.task} /\ disp'.slots = disp.slots - 1 /\ disp.slots > 0
    BY <1>6 DEF StartWorker, Base, Known
  <2>2. Cardinality(active') <= Cardinality(active) + 1 /\ Cardinality(active') \in Nat
    BY <2>1, OneMore
  <2> HIDE DEF Slots
  <2>3. Cardinality(active') + disp'.slots <= MaxWorkers
    BY <2>1, <2>2
  <2> QED BY <2>3, <1>1 DEF Slots
<1>7. CASE Crash
  <2>1. active' = {} /\ disp'.slots = 0
    BY <1>7 DEF Crash, Idle
  <2> QED BY <2>1, FS_EmptySet
<1>8. ASSUME NEW t \in Tasks, Deregister(t)
      PROVE  Slots'
  <2>1. active' \subseteq active /\ disp' = disp
    BY <1>8 DEF Deregister
  <2>2. Cardinality(active') <= Cardinality(active) /\ Cardinality(active') \in Nat
    BY <2>1, FS_Subset, FS_CardinalityType
  <2> QED BY <2>1, <2>2
<1> QED BY <1>3, <1>4, <1>5, <1>6, <1>7, <1>8, SlotsFrame

LEMMA CauseStep ==
    ASSUME Base, Cause, Move, UNCHANGED setup
    PROVE  Cause'
<1>1. stops \in Nat /\ excused \subseteq Tasks /\ DOMAIN ctx = Tasks /\ DOMAIN verdict = Tasks
         /\ DOMAIN status = Tasks /\ None \notin Tasks
  <2>1. setup.stops \in Nat /\ None \notin Tasks
    BY Limits DEF Base, None
  <2>2. stops \in 0..setup.stops
    BY DEF Base, TypeOK
  <2> QED BY <2>1, <2>2 DEF Base, TypeOK
<1> USE <1>1 DEF Cause, recVars, rowVars, taskVars, workVars, countVars
<1>2. CASE Service
  <2>1. CASE StartWorker
    <3>1. up = "up" \/ stops > 0
      BY <2>1 DEF StartWorker, Base, TypeOK
    <3> QED BY <2>1, <3>1 DEF StartWorker
  <2>2. CASE Dequeue
    BY <2>2 DEF Dequeue
  <2>3. CASE CancelRow
    BY <2>3 DEF CancelRow
  <2>4. CASE Stopped \/ Tick
    BY <2>4 DEF Stopped, Tick
  <2> QED BY <1>2, <2>1, <2>2, <2>3, <2>4 DEF Service
<1>3. CASE Posting
  BY <1>3 DEF Posting, SegmentCompleted, PostTask, RetryTask, Backfill
<1>4. CASE Outer
  <2>1. ASSUME NEW t \in Tasks, CancelJob(t) \/ JobTimeout(t)
        PROVE  Cause'
    BY <2>1 DEF CancelJob, JobTimeout
  <2>2. CASE Stop \/ Crash
    BY <2>2 DEF Stop, Crash, None
  <2>3. ASSUME NEW old \in SUBSET With({"running"}), Start(old)
        PROVE  Cause'
    BY <2>3 DEF Start, RecoverStuck
  <2>4. ASSUME NEW r \in Recs, DeleteRow(r) \/ DeleteFile(r) \/ Sweep(r)
        PROVE  Cause'
    BY <2>4 DEF DeleteRow, DeleteFile, Sweep, FilesOnly
  <2> QED BY <1>4, <2>1, <2>2, <2>3, <2>4 DEF Outer
<1>5. ASSUME NEW c \in Callers, InsertTasks(c)
      PROVE  Cause'
  <2>1. \A t \in Tasks : status'[t] = "pending" \/ status'[t] = status[t]
    BY <1>5 DEF InsertTasks
  <2>2. UNCHANGED <<up, stops, killing, excused, ctx, verdict>>
    BY <1>5 DEF InsertTasks
  <2> QED BY <2>1, <2>2
<1>6. ASSUME NEW t \in Tasks, Worker(t) \/ StartFails(t) \/ Progress(t)
      PROVE  Cause'
  <2>0. ctx \in [Tasks -> {"live", "cancelled", "timeout"}]
    BY DEF Base, TypeOK
  <2>1. CASE StatInput(t) \/ StartFails(t) \/ Progress(t)
    BY <2>1 DEF StatInput, StartFails, Progress
  <2>6. CASE BudgetInterrupted(t)
    <3>1. /\ UNCHANGED <<up, stops, killing, ctx, verdict>> /\ excused \subseteq excused'
          /\ stops = 0 => t \in excused'
      BY <2>0, <2>6 DEF BudgetInterrupted
    <3>2. \E v \in {"cancelled", status[t]} : status' = [status EXCEPT ![t] = v]
      BY <2>6, Written DEF BudgetInterrupted, Ended
    <3> QED BY <3>1, <3>2
  <2>7. CASE Quit(t) \/ FinishTask(t)
    <3>1. /\ UNCHANGED <<up, stops, killing, ctx, excused>> /\ verdict' = [verdict EXCEPT ![t] = "none"]
      BY <2>7 DEF Quit, FinishTask
    <3>2. \E v \in {verdict[t], status[t]} : status' = [status EXCEPT ![t] = v]
      BY <2>7, Written, Outcomes DEF Quit, FinishTask
    <3> QED BY <3>1, <3>2
  <2>2. CASE StartFfmpeg(t) \/ FfmpegSucceeds(t) \/ FfmpegFails(t)
    BY <2>2 DEF StartFfmpeg, FfmpegSucceeds, FfmpegFails
  <2>3. CASE Decide(t)
    BY <2>3 DEF Decide
  <2>5. CASE Filing(t) \/ UpdateFormat(t) \/ Deregister(t)
    BY <2>5, FilingForm DEF FilesOnly, UpdateFormat, Deregister
  <2> QED BY <1>6, <2>1, <2>2, <2>3, <2>5, <2>6, <2>7 DEF Worker, Filing
<1> QED BY <1>2, <1>3, <1>4, <1>5, <1>6, MoveKinds

\* Faults come one at a time.
LEMMA FailsStep ==
    ASSUME Base, Move
    PROVE  fails \in Nat /\ (fails' = fails \/ fails' = fails + 1)
<1>1. fails \in Nat
  <2>1. setup.fails \in Nat /\ fails \in 0..setup.fails
    BY Limits DEF Base, TypeOK
  <2> QED BY <2>1
<1> USE <1>1 DEF countVars
<1>2. CASE Service
  BY <1>2 DEF Service, Tick, Dequeue, StartWorker, CancelRow, Stopped, Fault
<1>3. CASE Outer
  BY <1>3 DEF Outer, CancelJob, JobTimeout, Stop, Crash, Start, DeleteRow, DeleteFile, Sweep
<1>4. CASE Posting
  BY <1>4 DEF Posting, SegmentCompleted, PostTask, RetryTask, Backfill, Admitted, Fault
<1>5. CASE \E c \in Callers : InsertTasks(c)
  BY <1>5 DEF InsertTasks
<1>6. ASSUME NEW t \in Tasks, Worker(t) \/ StartFails(t) \/ Progress(t)
      PROVE  fails' = fails \/ fails' = fails + 1
  BY <1>6 DEF Worker, StatInput, BudgetInterrupted, Quit, StartFfmpeg, FfmpegSucceeds, FfmpegFails,
              Decide, FinishTask, RemoveOutput, MoveOutput, ClearBackup, MoveOriginal, RestoreOutput,
              Commit, RestoreOriginal, RemoveBackup, UpdateFormat, Deregister, StartFails, Progress,
              RenameFails, Fault, Write, WriteLive
<1> QED BY <1>1, <1>2, <1>3, <1>4, <1>5, <1>6, MoveKinds

\* Only a stop and a crash doom tasks, and the loss of what is written of one.
LEMMA DoomedFrame ==
    ASSUME Base, Move, UNCHANGED setup, ~setup.timeouts, ~Stop, ~Crash
    PROVE  \/ Doomed' \subseteq Doomed
           \/ fails' = fails + 1 /\ \E x \in Tasks : Doomed' \subseteq Doomed \cup {x}
<1>1. /\ DOMAIN pc = Tasks /\ DOMAIN ctx = Tasks /\ DOMAIN status = Tasks /\ DOMAIN verdict = Tasks
      /\ None \notin Tasks /\ Tasks' = Tasks /\ fails \in Nat
  BY Limits, FailsStep DEF Base, TypeOK, None, Tasks
<1> USE <1>1 DEF recVars, rowVars, taskVars, workVars, countVars
<1>2. ASSUME NEW x \in Tasks, fails' = fails + 1,
             \A u \in Tasks : Stranded(u)' => u = x \/ Stranded(u)
      PROVE  fails' = fails + 1 /\ \E y \in Tasks : Doomed' \subseteq Doomed \cup {y}
  BY <1>2 DEF Doomed
<1>3. ASSUME \A u \in Tasks : Stranded(u)' => Stranded(u)
      PROVE  Doomed' \subseteq Doomed
  BY <1>3 DEF Doomed
<1>4. CASE CancelRow
  <2>1. /\ killing \in Tasks /\ killing' = None /\ UNCHANGED <<pc, ctx, disp, up>>
        /\ \/ /\ status' = IF status[killing] \in {"pending", "running"}
                           THEN [status EXCEPT ![killing] = "cancelled"] ELSE status
              /\ UNCHANGED fails
           \/ fails' = fails + 1 /\ UNCHANGED status
    <3>1. killing \in 0..MaxTasks /\ killing # None /\ MaxTasks \in Nat
      BY <1>4, Limits DEF CancelRow, Base, TypeOK
    <3>2. killing \in Tasks
      BY <3>1 DEF None, Tasks
    <3> QED BY <1>4, <3>2 DEF CancelRow, Fault
  <2>2. CASE UNCHANGED fails
    <3>1. status' = IF status[killing] \in {"pending", "running"}
                    THEN [status EXCEPT ![killing] = "cancelled"] ELSE status
      BY <2>1, <2>2
    <3>2. \A u \in Tasks : Stranded(u)' => Stranded(u)
      BY <2>1, <3>1 DEF Stranded
    <3> QED BY <1>3, <3>2
  <2>3. CASE fails' = fails + 1 /\ UNCHANGED status
    <3>1. \A u \in Tasks : Stranded(u)' => u = killing \/ Stranded(u)
      BY <2>1, <2>3 DEF Stranded
    <3> QED BY <1>2, <2>1, <2>3, <3>1
  <2> QED BY <2>1, <2>2, <2>3
<1>5. ASSUME NEW t \in Tasks, FinishTask(t) \/ Quit(t)
      PROVE  \/ Doomed' \subseteq Doomed
             \/ fails' = fails + 1 /\ \E x \in Tasks : Doomed' \subseteq Doomed \cup {x}
  <2>1. /\ UNCHANGED <<ctx, disp, up, killing>> /\ pc[t] # "off"
        /\ \E b \in Places : pc' = [pc EXCEPT ![t] = b]
        /\ \/ status' = [status EXCEPT ![t] = verdict[t]]
           \/ status' = status /\ (fails' = fails + 1 \/ ctx[t] # "live")
    <3>1. verdict[t] \in Ended /\ (Write(t, verdict[t]) \/ WriteLive(t, verdict[t]))
      BY <1>5, Outcomes DEF FinishTask, Quit
    <3>2. \/ status' = [status EXCEPT ![t] = verdict[t]]
          \/ status' = status /\ (fails' = fails + 1 \/ ctx[t] # "live")
      BY <3>1, Written
    <3>3. /\ UNCHANGED <<ctx, disp, up, killing>> /\ pc[t] # "off"
          /\ \E b \in Places : pc' = [pc EXCEPT ![t] = b]
      BY <1>5 DEF FinishTask, Quit, AfterFinish, Places
    <3> QED BY <3>2, <3>3
  <2>2. verdict[t] # "running"
    BY <1>5, Outcomes DEF FinishTask, Quit, Ended
  <2>3. \A u \in Tasks \ {t} : Stranded(u)' => Stranded(u)
    BY <2>1 DEF Stranded
  <2>4. CASE status' = [status EXCEPT ![t] = verdict[t]]
    BY <1>3, <2>2, <2>3, <2>4 DEF Stranded
  <2>5. CASE status' = status /\ ctx[t] # "live"
    <3>1. Stranded(t)' => Stranded(t)
      BY <2>1, <2>5 DEF Stranded
    <3> QED BY <1>3, <2>3, <3>1
  <2>6. CASE status' = status /\ fails' = fails + 1
    BY <1>2, <2>3, <2>6
  <2> QED BY <2>1, <2>4, <2>5, <2>6
<1>6. CASE ~CancelRow /\ \A t \in Tasks : ~FinishTask(t) /\ ~Quit(t)
  <2> SUFFICES ASSUME NEW u \in Tasks, Stranded(u)'
               PROVE  Stranded(u)
    BY <1>3
  <2> USE DEF Stranded
  <2>1. CASE Service
    <3>1. CASE StartWorker
      BY <3>1 DEF StartWorker, Base, Known, TypeOK, Over
    <3>2. CASE Dequeue
      <4>1. disp.task = None
        BY <3>2 DEF Dequeue
      <4>2. CASE up = "up" /\ With({"pending"}) # {}
        <5>1. status' = [status EXCEPT ![Min(With({"pending"}))] = "running"]
                 /\ disp'.task = Min(With({"pending"}))
          BY <3>2, <4>2 DEF Dequeue, Base, TypeOK
        <5>2. Min(With({"pending"})) \in With({"pending"})
          BY <4>2, MinIn, Numbers DEF Base
        <5>3. pc[Min(With({"pending"}))] = "off"
          BY <5>2 DEF Base, Known
        <5> QED BY <3>2, <4>1, <4>2, <5>1, <5>3 DEF Dequeue, Over
      <4>3. CASE ~(up = "up" /\ With({"pending"}) # {})
        BY <3>2, <4>1, <4>3 DEF Dequeue
      <4> QED BY <4>2, <4>3
    <3>3. CASE Stopped \/ Tick
      BY <3>3 DEF Stopped, Tick, Idle
    <3> QED BY <1>6, <2>1, <3>1, <3>2, <3>3 DEF Service
  <2>2. CASE Posting
    BY <2>2 DEF Posting, SegmentCompleted, PostTask, RetryTask, Backfill
  <2>3. CASE Outer
    <3>1. ASSUME NEW t \in Tasks, CancelJob(t)
          PROVE  Stranded(u)
      BY <3>1 DEF CancelJob
    <3>2. ASSUME NEW old \in SUBSET With({"running"}), Start(old)
          PROVE  Stranded(u)
      BY <3>2 DEF Start, RecoverStuck, Base, Known, Idle
    <3>3. ASSUME NEW r \in Recs, DeleteRow(r) \/ DeleteFile(r) \/ Sweep(r)
          PROVE  Stranded(u)
      BY <3>3 DEF DeleteRow, DeleteFile, Sweep, FilesOnly
    <3> QED BY <2>3, <3>1, <3>2, <3>3 DEF Outer, JobTimeout
  <2>4. ASSUME NEW c \in Callers, InsertTasks(c)
        PROVE  Stranded(u)
    <3>1. status'[u] = "pending" \/ status'[u] = status[u]
      BY <2>4 DEF InsertTasks
    <3> QED BY <2>4, <3>1 DEF InsertTasks
  <2>5. ASSUME NEW t \in Tasks, Worker(t) \/ StartFails(t) \/ Progress(t)
        PROVE  Stranded(u)
    <3>1. CASE StatInput(t) \/ StartFails(t)
      BY <3>1 DEF StatInput, StartFails, Over
    <3>2. CASE BudgetInterrupted(t)
      <4>1. \E v \in {"cancelled", status[t]} : status' = [status EXCEPT ![t] = v]
        BY <3>2, Written DEF BudgetInterrupted, Ended
      <4> QED BY <3>2, <4>1 DEF BudgetInterrupted
    <3>3. CASE Progress(t)
      BY <3>3 DEF Progress, Over
    <3>4. CASE StartFfmpeg(t) \/ FfmpegSucceeds(t) \/ FfmpegFails(t) \/ Decide(t)
      BY <3>4 DEF StartFfmpeg, FfmpegSucceeds, FfmpegFails, Decide, Over
    <3>5. CASE Filing(t)
      <4>1. UNCHANGED <<ctx, status, disp, killing, up>> /\ pc[t] \in Over
               /\ \E b \in Over : pc' = [pc EXCEPT ![t] = b]
        BY <3>5, FilingForm DEF FilesOnly, Filing, RemoveOutput, MoveOutput, ClearBackup, MoveOriginal,
           RestoreOutput, Commit, RestoreOriginal, RemoveBackup, At, Over
      <4> QED BY <4>1 DEF Over
    <3>6. CASE UpdateFormat(t)
      BY <3>6 DEF UpdateFormat, Over
    <3>7. CASE Deregister(t)
      BY <3>7 DEF Deregister, At, Over
    <3> QED BY <1>6, <2>5, <3>1, <3>2, <3>3, <3>4, <3>5, <3>6, <3>7 DEF Worker, Filing
  <2> QED BY <2>1, <2>2, <2>3, <2>4, <2>5, MoveKinds
<1> QED BY <1>4, <1>5, <1>6

LEMMA DoomedFinite ==
    ASSUME Base
    PROVE  /\ Doomed \subseteq Tasks /\ IsFiniteSet(Doomed) /\ Cardinality(Doomed) \in Nat
           /\ With({"pending"}) \subseteq Tasks /\ IsFiniteSet(With({"pending"}))
           /\ Cardinality(With({"pending"})) \in Nat
           /\ IsFiniteSet(Callers) /\ Cardinality(Callers) \in Nat
           /\ Counting \subseteq Callers /\ IsFiniteSet(Counting) /\ Cardinality(Counting) \in Nat
           /\ Cardinality(Counting) <= Cardinality(Callers)
<1>1. Doomed \subseteq Tasks /\ With({"pending"}) \subseteq Tasks
  BY DEF Doomed, With
<1>2. /\ IsFiniteSet(Doomed) /\ Cardinality(Doomed) \in Nat
      /\ IsFiniteSet(With({"pending"})) /\ Cardinality(With({"pending"})) \in Nat
  BY <1>1, Numbers DEF Base
<1>3. Callers \subseteq {"bus", "api", "backfill"}
  BY Numbers, SetupFacts DEF Base
<1>4. IsFiniteSet({"bus"}) /\ IsFiniteSet({"bus", "api"}) /\ IsFiniteSet({"bus", "api", "backfill"})
  <2>1. IsFiniteSet({"bus"})
    BY FS_Singleton
  <2>2. IsFiniteSet({"bus"} \cup {"api"})
    BY <2>1, OneMore
  <2>3. IsFiniteSet({"bus"} \cup {"api"} \cup {"backfill"})
    BY <2>2, OneMore
  <2>4. {"bus"} \cup {"api"} = {"bus", "api"}
           /\ {"bus"} \cup {"api"} \cup {"backfill"} = {"bus", "api", "backfill"}
    OBVIOUS
  <2> QED BY <2>1, <2>2, <2>3, <2>4
<1>5. IsFiniteSet(Callers) /\ Cardinality(Callers) \in Nat
  BY <1>3, <1>4, FS_Subset, FS_CardinalityType
<1>6. Counting \subseteq Callers
  BY DEF Counting
<1>7. /\ IsFiniteSet(Counting) /\ Cardinality(Counting) \in Nat
      /\ Cardinality(Counting) <= Cardinality(Callers)
  BY <1>5, <1>6, FS_Subset, FS_CardinalityType
<1> QED BY <1>1, <1>2, <1>5, <1>6, <1>7

\* What the loss of one write adds.
LEMMA DoomedGrows ==
    ASSUME Base, Move, UNCHANGED setup, ~setup.timeouts, ~Stop, ~Crash
    PROVE  /\ Cardinality(Doomed') + fails <= Cardinality(Doomed) + fails'
           /\ fails' = fails => Doomed' \subseteq Doomed
           /\ IsFiniteSet(Doomed') /\ Cardinality(Doomed') \in Nat
<1>1. IsFiniteSet(Doomed) /\ Cardinality(Doomed) \in Nat
  BY DoomedFinite
<1>2. fails \in Nat /\ (fails' = fails \/ fails' = fails + 1)
  BY FailsStep
<1>3. CASE Doomed' \subseteq Doomed
  <2>1. /\ IsFiniteSet(Doomed') /\ Cardinality(Doomed') <= Cardinality(Doomed)
        /\ Cardinality(Doomed') \in Nat
    BY <1>1, <1>3, FS_Subset, FS_CardinalityType
  <2> QED BY <1>1, <1>2, <1>3, <2>1
<1>4. ASSUME fails' = fails + 1, NEW x \in Tasks, Doomed' \subseteq Doomed \cup {x}
      PROVE  /\ Cardinality(Doomed') + fails <= Cardinality(Doomed) + fails'
             /\ fails' = fails => Doomed' \subseteq Doomed
             /\ IsFiniteSet(Doomed') /\ Cardinality(Doomed') \in Nat
  <2>1. IsFiniteSet(Doomed \cup {x}) /\ Cardinality(Doomed \cup {x}) <= Cardinality(Doomed) + 1
           /\ Cardinality(Doomed \cup {x}) \in Nat
    BY <1>1, OneMore
  <2>2. /\ IsFiniteSet(Doomed') /\ Cardinality(Doomed') <= Cardinality(Doomed \cup {x})
        /\ Cardinality(Doomed') \in Nat
    BY <1>4, <2>1, FS_Subset, FS_CardinalityType
  <2>3. fails' # fails
    BY <1>2, <1>4
  <2> QED BY <1>1, <1>2, <1>4, <2>1, <2>2, <2>3
<1> QED BY <1>3, <1>4, DoomedFrame

\* What a stop or a crash costs.
LEMMA LostGrows ==
    ASSUME Base, UNCHANGED setup
    PROVE  /\ Lost \in Nat
           /\ UNCHANGED <<crashes, stops>> => Lost' = Lost
           /\ Stop => Lost' = Lost + MaxWorkers
           /\ Crash => Lost' = Lost + MaxWorkers + 1
           /\ ~Stop /\ ~Crash /\ Move => UNCHANGED <<crashes, stops>>
<1>1. MaxWorkers \in Nat /\ setup.crashes \in Nat /\ setup.stops \in Nat
  BY Limits DEF Base
<1>2. crashes \in 0..setup.crashes /\ stops \in 0..setup.stops
  BY DEF Base, TypeOK
<1>3. crashes \in Nat /\ stops \in Nat /\ MaxWorkers' = MaxWorkers
  BY <1>1, <1>2 DEF MaxWorkers
<1>4. \A w, a, b \in Nat :
         /\ w * (a + b) + a \in Nat
         /\ w * ((a + 1) + b) + (a + 1) = (w * (a + b) + a) + w + 1
         /\ w * (a + (b + 1)) + a = (w * (a + b) + a) + w
  OBVIOUS
<1>5. Lost \in Nat /\ (UNCHANGED <<crashes, stops>> => Lost' = Lost)
  BY <1>1, <1>3, <1>4 DEF Lost
<1>6. Stop => Lost' = Lost + MaxWorkers
  <2>1. Stop => stops' = stops + 1 /\ crashes' = crashes
    BY DEF Stop
  <2> QED BY <1>1, <1>3, <1>4, <2>1 DEF Lost
<1>7. Crash => Lost' = Lost + MaxWorkers + 1
  <2>1. Crash => stops' = stops /\ crashes' = crashes + 1
    BY DEF Crash
  <2> QED BY <1>1, <1>3, <1>4, <2>1 DEF Lost
<1>8. ~Stop /\ ~Crash /\ Move => UNCHANGED <<crashes, stops>>
  <2> USE DEF countVars
  <2>1. CASE Service
    BY <2>1 DEF Service, Tick, Dequeue, StartWorker, CancelRow, Stopped
  <2>2. CASE Posting
    BY <2>2 DEF Posting, SegmentCompleted, PostTask, RetryTask, Backfill
  <2>3. CASE Outer
    BY <2>3 DEF Outer, CancelJob, JobTimeout, Start, DeleteRow, DeleteFile, Sweep, FilesOnly
  <2>4. CASE \E c \in Callers : InsertTasks(c)
    BY <2>4 DEF InsertTasks
  <2>5. ASSUME NEW t \in Tasks, Worker(t) \/ StartFails(t) \/ Progress(t)
        PROVE  UNCHANGED <<crashes, stops>>
    BY <2>5 DEF Worker, StatInput, BudgetInterrupted, Quit, StartFfmpeg, FfmpegSucceeds, FfmpegFails, Decide,
                FinishTask, RemoveOutput, MoveOutput, ClearBackup, MoveOriginal, RestoreOutput, Commit,
                RestoreOriginal, RemoveBackup, UpdateFormat, Deregister, StartFails, Progress, FilesOnly
  <2> QED BY <2>1, <2>2, <2>3, <2>4, <2>5, MoveKinds
<1> QED BY <1>5, <1>6, <1>7, <1>8

\* A stop dooms no more than the workers and the task claimed, a crash the
\* task being cancelled as well.
LEMMA DoomedLeaps ==
    ASSUME Base, Slots, UNCHANGED setup, Stop \/ Crash
    PROVE  /\ Cardinality(Doomed') \in Nat
           /\ Stop => Cardinality(Doomed') <= Cardinality(Doomed) + MaxWorkers
           /\ Crash => Cardinality(Doomed') <= Cardinality(Doomed) + MaxWorkers + 1
<1> DEFINE taken == active \cup (IF disp.task = None THEN {} ELSE {disp.task})
<1>1. IsFiniteSet(active) /\ Cardinality(active) \in Nat /\ MaxWorkers \in Nat /\ active \subseteq Tasks
         /\ Tasks' = Tasks
  BY Numbers DEF Base, Tasks
<1>2. disp.slots \in Nat /\ (disp.task # None => disp.slots > 0)
         /\ Cardinality(active) + disp.slots <= MaxWorkers
  <2>1. disp \in [slots : 0..MaxWorkers, task : 0..MaxTasks]
    BY DEF Base, TypeOK
  <2> QED BY <1>1, <2>1 DEF Base, Known, Slots
<1>3. IsFiniteSet(taken) /\ Cardinality(taken) \in Nat /\ Cardinality(taken) <= MaxWorkers
  <2>1. CASE disp.task = None
    BY <1>1, <1>2, <2>1
  <2>2. CASE disp.task # None
    <3>1. taken = active \cup {disp.task}
      BY <2>2
    <3>2. IsFiniteSet(taken) /\ Cardinality(taken) \in Nat /\ Cardinality(taken) <= Cardinality(active) + 1
      BY <1>1, <3>1, OneMore
    <3> HIDE DEF taken
    <3> QED BY <1>1, <1>2, <2>2, <3>2
  <2> QED BY <2>1, <2>2
<1>4. pc \in [Tasks -> Places] /\ active = {t \in Tasks : pc[t] # "off"}
  BY DEF Base, TypeOK
<1>5. Stop => Doomed' \subseteq Doomed \cup taken
  <2> SUFFICES ASSUME Stop, NEW u \in Tasks, Stranded(u)', u \notin taken
               PROVE  Stranded(u)
    BY <1>1 DEF Doomed
  <2>1. UNCHANGED <<status, killing, pc>>
    BY DEF Stop
  <2>2. u \notin active /\ (disp.task # None => u # disp.task) /\ u # None
    BY Limits DEF Base, None
  <2> QED BY <1>4, <2>1, <2>2 DEF Stranded
<1>6. Crash => Doomed' \subseteq Doomed \cup (taken \cup {killing})
  <2> SUFFICES ASSUME Crash, NEW u \in Tasks, Stranded(u)', u \notin taken, u # killing
               PROVE  Stranded(u)
    BY <1>1 DEF Doomed
  <2>1. status' = status
    BY DEF Crash
  <2>2. u \notin active /\ (disp.task # None => u # disp.task) /\ u # None
    BY Limits DEF Base, None
  <2> QED BY <1>4, <2>1, <2>2 DEF Stranded
<1>7. IsFiniteSet(Doomed) /\ Cardinality(Doomed) \in Nat
  BY DoomedFinite
<1> HIDE DEF taken
<1>8. ASSUME NEW S, IsFiniteSet(S), Cardinality(S) \in Nat, Doomed' \subseteq Doomed \cup S
      PROVE  Cardinality(Doomed') \in Nat /\ Cardinality(Doomed') <= Cardinality(Doomed) + Cardinality(S)
  <2>1. IsFiniteSet(Doomed \cup S) /\ Cardinality(Doomed \cup S) = Cardinality(Doomed) + Cardinality(S) - Cardinality(Doomed \cap S)
    BY <1>7, <1>8, FS_Union
  <2>2. IsFiniteSet(Doomed') /\ Cardinality(Doomed') <= Cardinality(Doomed \cup S)
    BY <1>8, <2>1, FS_Subset
  <2>3. Cardinality(Doomed \cap S) \in Nat /\ Cardinality(Doomed') \in Nat /\ Cardinality(Doomed \cup S) \in Nat
    BY <1>7, <2>1, <2>2, FS_Intersection, FS_CardinalityType
  <2> QED BY <1>7, <1>8, <2>1, <2>2, <2>3
<1>9. Stop => Cardinality(Doomed') \in Nat /\ Cardinality(Doomed') <= Cardinality(Doomed) + MaxWorkers
  <2> SUFFICES ASSUME Stop
               PROVE  Cardinality(Doomed') \in Nat /\ Cardinality(Doomed') <= Cardinality(Doomed) + MaxWorkers
    OBVIOUS
  <2>1. Cardinality(Doomed') \in Nat /\ Cardinality(Doomed') <= Cardinality(Doomed) + Cardinality(taken)
    BY <1>3, <1>5, <1>8
  <2> QED BY <1>1, <1>3, <1>7, <2>1
<1>10. Crash => Cardinality(Doomed') \in Nat /\ Cardinality(Doomed') <= Cardinality(Doomed) + MaxWorkers + 1
  <2> SUFFICES ASSUME Crash
               PROVE  Cardinality(Doomed') \in Nat /\ Cardinality(Doomed') <= Cardinality(Doomed) + MaxWorkers + 1
    OBVIOUS
  <2>1. IsFiniteSet(taken \cup {killing}) /\ Cardinality(taken \cup {killing}) \in Nat
           /\ Cardinality(taken \cup {killing}) <= Cardinality(taken) + 1
    BY <1>3, OneMore
  <2>2. Cardinality(Doomed') \in Nat
           /\ Cardinality(Doomed') <= Cardinality(Doomed) + Cardinality(taken \cup {killing})
    BY <1>6, <1>8, <2>1
  <2> QED BY <1>1, <1>3, <1>7, <2>1, <2>2
<1> QED BY <1>9, <1>10

LEMMA DoomedStep ==
    ASSUME Base, Slots, DoomedBounded, Move, UNCHANGED setup
    PROVE  DoomedBounded'
<1> SUFFICES ASSUME ~setup.timeouts
             PROVE  Cardinality(Doomed') <= Lost' + fails'
  BY DEF DoomedBounded
<1>1. Cardinality(Doomed) <= Lost + fails /\ Cardinality(Doomed) \in Nat /\ Lost \in Nat
         /\ MaxWorkers \in Nat /\ fails \in Nat /\ fails' \in Nat
  BY DoomedFinite, LostGrows, Limits, FailsStep DEF DoomedBounded, Base
<1>2. CASE Stop
  <2>1. Lost' = Lost + MaxWorkers /\ Cardinality(Doomed') \in Nat
           /\ Cardinality(Doomed') <= Cardinality(Doomed) + MaxWorkers
    BY <1>2, LostGrows, DoomedLeaps
  <2>2. fails' = fails
    BY <1>2 DEF Stop
  <2> QED BY <1>1, <2>1, <2>2
<1>3. CASE Crash
  <2>1. Lost' = Lost + MaxWorkers + 1 /\ Cardinality(Doomed') \in Nat
           /\ Cardinality(Doomed') <= Cardinality(Doomed) + MaxWorkers + 1
    BY <1>3, LostGrows, DoomedLeaps
  <2>2. fails' = fails
    BY <1>3 DEF Crash
  <2> QED BY <1>1, <2>1, <2>2
<1>4. CASE ~Stop /\ ~Crash
  <2>1. Lost' = Lost
    BY <1>4, LostGrows
  <2>2. Cardinality(Doomed') + fails <= Cardinality(Doomed) + fails' /\ Cardinality(Doomed') \in Nat
    BY <1>4, DoomedGrows
  <2> QED BY <1>1, <2>1, <2>2
<1> QED BY <1>2, <1>3, <1>4

\* Who counts and inserts, and what leaves both alone.
LEMMA QueueFrame ==
    ASSUME Base, Move, UNCHANGED setup, ~Stop, ~Crash,
           \A old \in SUBSET With({"running"}) : ~Start(old),
           \A c \in Callers : ~InsertTasks(c), ~Posting
    PROVE  /\ UNCHANGED post /\ With({"pending"})' \subseteq With({"pending"})
           /\ fails' \in Nat /\ fails \in Nat /\ fails' >= fails
<1>0. DOMAIN status = Tasks /\ fails \in Nat
  <2>1. setup.fails \in Nat /\ fails \in 0..setup.fails
    BY Limits DEF Base, TypeOK
  <2> QED BY <2>1 DEF Base, TypeOK
<1>1. fails' = fails \/ fails' = fails + 1
  BY FailsStep
<1>2. UNCHANGED post /\ \A u \in Tasks : status'[u] = "pending" => status[u] = "pending"
  <2> USE <1>0 DEF taskVars
  <2>1. CASE Service
    <3>1. CASE Dequeue
      <4>1. post' = post /\ (status' = status \/ status' = [status EXCEPT ![Min(With({"pending"}))] = "running"])
        BY <3>1 DEF Dequeue
      <4> QED BY <4>1
    <3> QED BY <2>1, <3>1 DEF Service, Tick, StartWorker, CancelRow, Stopped
  <2>2. CASE Outer
    BY <2>2 DEF Outer, CancelJob, JobTimeout, DeleteRow, DeleteFile, Sweep, FilesOnly
  <2>3. ASSUME NEW t \in Tasks, Worker(t) \/ StartFails(t) \/ Progress(t)
        PROVE  UNCHANGED post /\ \A u \in Tasks : status'[u] = "pending" => status[u] = "pending"
    <3>1. CASE FinishTask(t) \/ Quit(t) \/ BudgetInterrupted(t)
      <4>1. post' = post /\ \E v \in Ended : Write(t, v) \/ WriteLive(t, v)
        BY <3>1, Outcomes DEF FinishTask, Quit, BudgetInterrupted, Ended
      <4>2. \E v \in Ended \cup {status[t]} : status' = [status EXCEPT ![t] = v]
        BY <4>1, Written
      <4> QED BY <4>1, <4>2 DEF Ended
    <3>2. CASE StatInput(t) \/ StartFails(t) \/ Progress(t)
      BY <3>2 DEF StatInput, StartFails, Progress
    <3>3. CASE ~(FinishTask(t) \/ StatInput(t) \/ BudgetInterrupted(t) \/ Quit(t) \/ StartFails(t) \/ Progress(t))
      <4>1. UNCHANGED <<post, status>>
        BY <2>3, <3>3 DEF Worker, StartFfmpeg, FfmpegSucceeds, FfmpegFails, Decide,
                RemoveOutput, MoveOutput, ClearBackup, MoveOriginal, RestoreOutput, Commit,
                RestoreOriginal, RemoveBackup, UpdateFormat, Deregister, FilesOnly
      <4> QED BY <4>1
    <3> QED BY <3>1, <3>2, <3>3
  <2> QED BY <2>1, <2>2, <2>3, MoveKinds
<1> QED BY <1>0, <1>1, <1>2 DEF With, Tasks

\* The sum that the cap bounds: tasks that wait, that wait for a restart,
\* and that have been counted in.
LEMMA QueueStep ==
    ASSUME Base, Slots, DoomedBounded, QueueBounded, Move, UNCHANGED setup
    PROVE  QueueBounded'
<1> SUFFICES ASSUME "backfill" \notin Callers, ~setup.timeouts
             PROVE  /\ \A c \in Callers : \A r, s \in post'[c] : r = s
                    /\ Cardinality(With({"pending"})') + Cardinality(Doomed') + Cardinality(Counting') <=
                         MaxPending + Cardinality(Callers) - 1 + fails' + Lost'
  BY DEF QueueBounded, Callers, MaxPending
<1> DEFINE P == Cardinality(With({"pending"}))
           D == Cardinality(Doomed)
           C == Cardinality(Counting)
           K == Cardinality(Callers)
<1>1. /\ \A c \in Callers : \A r, s \in post[c] : r = s
      /\ P + D + C <= MaxPending + K - 1 + fails + Lost
  BY DEF QueueBounded
<1>2. P \in Nat /\ D \in Nat /\ C \in Nat /\ K \in Nat /\ C <= K /\ IsFiniteSet(Doomed)
         /\ IsFiniteSet(Counting) /\ IsFiniteSet(With({"pending"})) /\ IsFiniteSet(Callers)
  BY DoomedFinite
<1>3. Lost \in Nat /\ MaxPending \in Nat /\ MaxPending > 0 /\ fails \in Nat /\ MaxWorkers \in Nat
  <2>1. setup.fails \in Nat /\ fails \in 0..setup.fails
    BY Limits DEF Base, TypeOK
  <2> QED BY <2>1, LostGrows, Numbers, SetupFacts DEF Base
<1>4. /\ P' \in Nat /\ D' \in Nat /\ C' \in Nat /\ C' <= K /\ Callers' = Callers
      /\ IsFiniteSet(Doomed') /\ IsFiniteSet(Counting') /\ IsFiniteSet(With({"pending"})')
  <2>1. Doomed' \subseteq Tasks /\ With({"pending"})' \subseteq Tasks
    BY DEF Doomed, With, Tasks
  <2>2. /\ IsFiniteSet(Doomed') /\ Cardinality(Doomed') \in Nat
        /\ IsFiniteSet(With({"pending"})') /\ Cardinality(With({"pending"})') \in Nat
    BY <2>1, Numbers DEF Base
  <2>3. Counting' \subseteq Callers /\ Callers' = Callers
    BY DEF Counting, Callers
  <2>4. IsFiniteSet(Counting') /\ Cardinality(Counting') <= Cardinality(Callers)
           /\ Cardinality(Counting') \in Nat
    BY <1>2, <2>3, FS_Subset, FS_CardinalityType
  <2> QED BY <2>2, <2>3, <2>4
<1>5. ~Stop /\ ~Crash => /\ Lost' = Lost /\ D' + fails <= D + fails'
                         /\ fails' = fails => Doomed' \subseteq Doomed /\ D' <= D
  <2> SUFFICES ASSUME ~Stop, ~Crash
               PROVE  /\ Lost' = Lost /\ D' + fails <= D + fails'
                      /\ fails' = fails => Doomed' \subseteq Doomed /\ D' <= D
    OBVIOUS
  <2>1. Lost' = Lost /\ D' + fails <= D + fails' /\ (fails' = fails => Doomed' \subseteq Doomed)
    BY LostGrows, DoomedGrows
  <2> QED BY <1>2, <2>1, FS_Subset
<1>11. P + D + C <= MaxPending + K - 1 + fails + Lost
  BY <1>1
<1>12. /\ P \in Nat /\ D \in Nat /\ C \in Nat /\ K \in Nat /\ C <= K
       /\ Lost \in Nat /\ MaxPending \in Nat /\ MaxPending > 0 /\ fails \in Nat /\ MaxWorkers \in Nat
       /\ P' \in Nat /\ D' \in Nat /\ C' \in Nat /\ C' <= K
  BY <1>2, <1>3, <1>4
<1>6. CASE Stop \/ Crash
  <2>1. Counting' = {} /\ UNCHANGED <<status, fails>> /\ \A c \in Callers : post'[c] = {}
    BY <1>4, <1>6 DEF Stop, Crash, Counting, Callers
  <2>2. C' = 0 /\ P' = P
    BY <2>1, FS_EmptySet DEF With
  <2>3. CASE Stop
    <3>1. Lost' = Lost + MaxWorkers /\ D' <= D + MaxWorkers
      BY <2>3, LostGrows, DoomedLeaps
    <3>3. UNCHANGED fails
      BY <2>1
    <3>2. P' + D' + C' <= MaxPending + K - 1 + fails' + Lost'
      BY <1>11, <1>12, <2>2, <3>1, <3>3
    <3> QED BY <2>1, <3>2
  <2>4. CASE Crash
    <3>1. Lost' = Lost + MaxWorkers + 1 /\ D' <= D + MaxWorkers + 1
      BY <2>4, LostGrows, DoomedLeaps
    <3>3. UNCHANGED fails
      BY <2>1
    <3>2. P' + D' + C' <= MaxPending + K - 1 + fails' + Lost'
      BY <1>11, <1>12, <2>2, <3>1, <3>3
    <3> QED BY <2>1, <3>2
  <2> QED BY <1>6, <2>3, <2>4
<1>7. ASSUME ~Stop, ~Crash, NEW old \in SUBSET With({"running"}), Start(old)
      PROVE  /\ \A c \in Callers : \A r, s \in post'[c] : r = s
             /\ P' + D' + C' <= MaxPending + K - 1 + fails' + Lost'
  <2>1. disp.task = None /\ killing = None /\ \A t \in Tasks : pc[t] = "off"
    BY <1>7 DEF Start, Base, Known, TypeOK, Idle
  <2>2. old \subseteq Doomed
    BY <2>1, Limits DEF With, Doomed, Stranded, Base, None
  <2>3. status' = RecoverStuck(old) /\ UNCHANGED <<post, fails, pc, disp, killing, ctx>> /\ up' = "up"
    BY <1>7 DEF Start, taskVars, workVars
  <2>4. With({"pending"})' \subseteq With({"pending"}) \cup old
    BY <2>3 DEF With, RecoverStuck
  <2>5. Doomed' \subseteq Doomed \ old
    <3>1. \A t \in old : t \notin Doomed'
      BY <2>3 DEF Doomed, Stranded, RecoverStuck, With
    <3> QED BY <1>5, <1>7, <2>3, <3>1
  <2>6. IsFiniteSet(old) /\ Cardinality(old) \in Nat /\ Cardinality(Doomed \ old) = D - Cardinality(old)
           /\ IsFiniteSet(Doomed \ old)
    <3>1. IsFiniteSet(old)
      BY <1>2, <2>2, FS_Subset
    <3>2. IsFiniteSet(Doomed \ old) /\ Cardinality(Doomed \ old) = D - Cardinality(Doomed \cap old)
      BY <1>2, FS_Difference
    <3>3. Doomed \cap old = old
      BY <2>2
    <3> QED BY <3>1, <3>2, <3>3, FS_CardinalityType
  <2>12. Cardinality(old) \in Nat
    BY <2>6
  <2>7. D' <= D - Cardinality(old)
    BY <2>5, <2>6, FS_Subset
  <2>8. P' <= P + Cardinality(old)
    <3>1. IsFiniteSet(With({"pending"}) \cup old)
             /\ Cardinality(With({"pending"}) \cup old) = P + Cardinality(old) - Cardinality(With({"pending"}) \cap old)
      BY <1>2, <2>6, FS_Union
    <3>2. P' <= Cardinality(With({"pending"}) \cup old)
      BY <2>4, <3>1, FS_Subset
    <3>3. Cardinality(With({"pending"}) \cap old) \in Nat /\ Cardinality(With({"pending"}) \cup old) \in Nat
      BY <1>2, <3>1, FS_Intersection, FS_CardinalityType
    <3> QED BY <1>2, <1>4, <2>6, <3>1, <3>2, <3>3
  <2>9. C' = C /\ Lost' = Lost
    BY <1>5, <1>7, <2>3 DEF Counting, Callers
  <2>11. UNCHANGED fails
    BY <2>3
  <2>10. P' + D' + C' <= MaxPending + K - 1 + fails' + Lost'
    BY <1>11, <1>12, <2>11, <2>12, <2>7, <2>8, <2>9
  <2> QED BY <1>1, <2>3, <2>10
<1>8. ASSUME NEW c \in Callers, InsertTasks(c)
      PROVE  /\ \A k \in Callers : \A r, s \in post'[k] : r = s
             /\ P' + D' + C' <= MaxPending + K - 1 + fails' + Lost'
  <2>1. post \in [Callers -> SUBSET Recs] /\ post' = [post EXCEPT ![c] = {}] /\ fails' = fails
           /\ post[c] # {} /\ up = "up" /\ up' = up
    BY <1>8 DEF InsertTasks, Base, TypeOK
  <2>2. Cardinality(post[c]) = 1
    <3>1. PICK r \in post[c] : TRUE
      BY <2>1
    <3>2. post[c] = {r}
      BY <1>1, <3>1
    <3> QED BY <3>2, FS_Singleton
  <2>3. P' <= P + 1
    <3>1. \A t \in Tasks : status'[t] = "pending" => status[t] = "pending" \/ t = last + 1
      <4>1. \A t \in Tasks : ~ (t > last /\ t <= last + 1) => status'[t] = status[t]
        BY <1>8, <2>2, Inserted
      <4>2. \A t \in Tasks : t > last /\ t <= last + 1 => t = last + 1
        BY Numbers DEF Base
      <4> QED BY <4>1, <4>2
    <3>2. With({"pending"})' \subseteq With({"pending"}) \cup {last + 1}
      BY <3>1 DEF With, Tasks
    <3>3. IsFiniteSet(With({"pending"}) \cup {last + 1}) /\ Cardinality(With({"pending"}) \cup {last + 1}) <= P + 1
             /\ Cardinality(With({"pending"}) \cup {last + 1}) \in Nat
      BY <1>2, OneMore
    <3>4. P' <= Cardinality(With({"pending"}) \cup {last + 1})
      BY <3>2, <3>3, FS_Subset
    <3> QED BY <1>2, <1>4, <3>3, <3>4
  <2>4. Counting' = Counting \ {c} /\ c \in Counting
    BY <1>4, <2>1 DEF Counting
  <2>5. C' = C - 1
    BY <1>2, <2>4, FS_RemoveElement
  <2>6. Lost' = Lost /\ D' <= D
    <3>1. ~Stop /\ ~Crash
      BY <2>1 DEF Stop, Crash
    <3> QED BY <1>5, <2>1, <3>1
  <2>7. \A k \in Callers : \A r, s \in post'[k] : r = s
    BY <1>1, <2>1
  <2>9. UNCHANGED fails
    BY <2>1
  <2>8. P' + D' + C' <= MaxPending + K - 1 + fails' + Lost'
    BY <1>11, <1>12, <2>9, <2>3, <2>5, <2>6
  <2> QED BY <2>7, <2>8
<1>9. CASE Posting /\ ~Stop /\ ~Crash
  <2>1. UNCHANGED status
    BY <1>9 DEF Posting, SegmentCompleted, PostTask, RetryTask, Backfill
  <2>2. \/ UNCHANGED <<post, fails>>
        \/ /\ Admitted
           /\ \E c \in Callers, r \in Recs \cup {0} : post' = [post EXCEPT ![c] = {r}]
    <3>1. CASE "bus" \in Callers /\ SegmentCompleted
      <4>1. announced + 1 \in Recs
        <5>1. announced \in Nat /\ announced < setup.recs /\ setup.recs \in 0..NumRecs /\ Recs = 1..NumRecs
                 /\ NumRecs \in Nat
          BY <3>1, Numbers, SetupFacts DEF SegmentCompleted, Base
        <5> QED BY <5>1
      <4>2. \/ UNCHANGED <<post, fails>>
            \/ Admitted /\ post' = [post EXCEPT !["bus"] = {announced + 1}]
        BY <3>1 DEF SegmentCompleted
      <4> QED BY <3>1, <4>1, <4>2
    <3>2. ASSUME "api" \in Callers, NEW r \in Recs, PostTask(r)
          PROVE  Admitted /\ \E c \in Callers, s \in Recs \cup {0} : post' = [post EXCEPT ![c] = {s}]
      BY <3>2 DEF PostTask
    <3>3. ASSUME "api" \in Callers, NEW t \in Tasks, RetryTask(t)
          PROVE  Admitted /\ \E c \in Callers, s \in Recs \cup {0} : post' = [post EXCEPT ![c] = {s}]
      <4>1. rec[t] \in Recs \cup {0}
        BY Numbers, SMTT(40) DEF Base, TypeOK
      <4> QED BY <3>3, <4>1 DEF RetryTask
    <3> QED BY <1>9, <3>1, <3>2, <3>3 DEF Posting
  <2>3. P' = P /\ Lost' = Lost /\ D' = D
    <3>1. UNCHANGED <<status, pc, ctx, killing, disp, up>> /\ Tasks' = Tasks
      BY <1>9, <2>1 DEF Posting, SegmentCompleted, PostTask, RetryTask, Backfill, workVars, Tasks
    <3>2. Doomed' = Doomed
      BY <3>1 DEF Doomed, Stranded
    <3> QED BY <1>5, <1>9, <2>1, <3>2 DEF With
  <2>4. CASE UNCHANGED <<post, fails>>
    <3>1. C' = C
      BY <2>4 DEF Counting, Callers
    <3>3. UNCHANGED fails
      BY <2>4
    <3>2. P' + D' + C' <= MaxPending + K - 1 + fails' + Lost'
      BY <1>11, <1>12, <2>3, <3>3, <3>1
    <3> QED BY <1>1, <2>4, <3>2
  <2>5. ASSUME Admitted, NEW c \in Callers, NEW r, post' = [post EXCEPT ![c] = {r}]
        PROVE  /\ \A k \in Callers : \A q, s \in post'[k] : q = s
               /\ P' + D' + C' <= MaxPending + K - 1 + fails' + Lost'
    <3>1. DOMAIN post = Callers
      BY DEF Base, TypeOK
    <3>2. \A k \in Callers : \A q, s \in post'[k] : q = s
      BY <1>1, <2>5, <3>1
    <3>3. Counting' \subseteq Counting \cup {c}
      BY <1>4, <2>5, <3>1 DEF Counting
    <3>4. C' <= C + 1
      <4>1. IsFiniteSet(Counting \cup {c}) /\ Cardinality(Counting \cup {c}) <= C + 1
               /\ Cardinality(Counting \cup {c}) \in Nat
        BY <1>2, OneMore
      <4>2. C' <= Cardinality(Counting \cup {c})
        BY <3>3, <4>1, FS_Subset
      <4> QED BY <1>2, <1>4, <4>1, <4>2
    <3>5. (P < MaxPending /\ fails' = fails) \/ fails' = fails + 1
      BY <2>5 DEF Admitted, Room, Fault
    <3>6. D <= Lost + fails
      BY DEF DoomedBounded
    <3>7. P' + D' + C' <= MaxPending + K - 1 + fails' + Lost'
      BY <1>11, <1>12, <2>3, <3>4, <3>5, <3>6
    <3> QED BY <3>2, <3>7
  <2> QED BY <2>2, <2>4, <2>5
<1>10. ASSUME ~Stop, ~Crash, \A old \in SUBSET With({"running"}) : ~Start(old),
              \A c \in Callers : ~InsertTasks(c), ~Posting
       PROVE  /\ \A c \in Callers : \A r, s \in post'[c] : r = s
              /\ P' + D' + C' <= MaxPending + K - 1 + fails' + Lost'
  <2>1. /\ UNCHANGED post /\ With({"pending"})' \subseteq With({"pending"})
        /\ fails' \in Nat /\ fails' >= fails
    BY <1>10, QueueFrame
  <2>2. P' <= P
    BY <1>2, <2>1, FS_Subset
  <2>3. C' = C
    BY <2>1 DEF Counting, Callers
  <2>4. Lost' = Lost /\ D' + fails <= D + fails'
    BY <1>5, <1>10
  <2>6. fails' \in Nat /\ fails' >= fails
    BY <2>1
  <2>5. P' + D' + C' <= MaxPending + K - 1 + fails' + Lost'
    BY <1>11, <1>12, <2>6, <2>2, <2>3, <2>4
  <2> QED BY <1>1, <2>1, <2>5
<1> QED BY <1>6, <1>7, <1>8, <1>9, <1>10

LEMMA Backlog ==
    ASSUME Base, QueueBounded
    PROVE  BacklogBounded
<1> SUFFICES ASSUME "backfill" \notin Callers, ~setup.timeouts
             PROVE  Cardinality(With({"pending"})) <=
                      MaxPending + Cardinality(Callers) - 1 + fails
                          + MaxWorkers * (crashes + stops) + crashes
  BY DEF BacklogBounded
<1>1. Cardinality(With({"pending"})) + Cardinality(Doomed) + Cardinality(Counting) <=
            MaxPending + Cardinality(Callers) - 1 + fails + Lost
  BY DEF QueueBounded
<1>2. /\ Cardinality(With({"pending"})) \in Nat /\ Cardinality(Doomed) \in Nat
      /\ Cardinality(Counting) \in Nat /\ Cardinality(Callers) \in Nat
  BY DoomedFinite
<1>3. /\ MaxPending \in Nat /\ fails \in Nat /\ MaxWorkers \in Nat /\ crashes \in Nat /\ stops \in Nat
  <2>1. setup.fails \in Nat /\ fails \in 0..setup.fails /\ crashes \in 0..setup.crashes
           /\ stops \in 0..setup.stops /\ setup.stops \in Nat /\ setup.crashes \in Nat
    BY Limits DEF Base, TypeOK
  <2> QED BY <2>1, Numbers, SetupFacts DEF Base
<1>4. MaxWorkers * (crashes + stops) \in Nat
  BY <1>3
<1> HIDE DEF MaxWorkers, MaxPending, Callers
<1> DEFINE x == MaxWorkers * (crashes + stops)
<1>5. Lost = x + crashes /\ x \in Nat
  BY <1>4 DEF Lost
<1> HIDE DEF x
<1>6. Cardinality(With({"pending"})) <= MaxPending + Cardinality(Callers) - 1 + fails + x + crashes
  BY <1>1, <1>2, <1>3, <1>5
<1> QED BY <1>6 DEF x

-----------------------------------------------------------------------------
(* The files *)

\* Tasks are for recordings there have been, whose rows begin as recorded;
\* the manager's subscriber makes one task for each.
Announced ==
    /\ \A t \in Tasks : rec[t] <= announced
    /\ \A c \in Callers : post[c] \subseteq 1..announced
    /\ \A r \in Recs : r > announced => format[r] = "old"
    /\ Callers = {"bus"} =>
          /\ \A t, u \in Tasks : rec[t] = rec[u] /\ rec[t] # None => t = u
          /\ \A t \in Tasks : rec[t] \notin post["bus"]

\* Only an ffmpeg that runs writes.
Writers == \A t \in Tasks : pc[t] # "run" => writes[t] = "no"

\* What each name may hold.
CleanAt(r) ==
    /\ file[r]["input"] \in Whole \cup {"none"} /\ file[r]["bak"] \in Whole \cup {"none"}
    /\ file[r]["tmp"] \in {"whole", "none"} /\ file[r]["output"] \in {"part", "whole", "none"}

\* What a worker finds at the names it is to move.
AtWorkOf(t) ==
    LET f == file[rec[t]] IN
    /\ pc[t] = "run" => writes[t] = "output" /\ f["output"] = "part"
    /\ pc[t] = "tmp" => f["output"] = "whole"
    /\ pc[t] \in {"exited", "finish"} /\ verdict[t] = "completed" => f["output"] = "whole"
    /\ pc[t] \in {"clear", "bak", "commit", "back", "unmove"} => f["tmp"] = "whole"
    /\ pc[t] = "back" => fails > 0
    /\ rec[t] \in rows =>
          /\ pc[t] \notin {"stat", "quit", "commit", "back", "end"} => f["input"] # "none"
          /\ pc[t] \in {"commit", "back"} /\ ~setup.sweeping => f["bak"] # "none"

\* Between the two renames, and between the second and the update of the row.
Between(r) == \E t \in WorkersOf(r) : pc[t] \in {"commit", "back"}
Committed(r) == \E t \in WorkersOf(r) : pc[t] \in {"unbak", "format"}

\* Where the footage is: at the recording's path, or on its way there, or
\* left under the backup's name by a crash or by a failed restoration.
HeldAt(r) ==
    \/ file[r]["input"] # "none"
    \/ Between(r)
    \/ ~setup.sweeping /\ file[r]["bak"] # "none" /\ (crashes > 0 \/ fails > 1)

FormatOf(content) == IF content = "orig" THEN "old" ELSE "new"
FormattedAt(r) ==
    /\ Committed(r) => file[r]["input"] = "whole"
    /\ r \notin misfiled =>
          /\ ~Committed(r) /\ file[r]["input"] # "none" => format[r] = FormatOf(file[r]["input"])
          /\ ~setup.sweeping /\ Between(r) => format[r] = FormatOf(file[r]["bak"])

FilesInv ==
    /\ Writers
    /\ Unshared => (\A r \in Recs : CleanAt(r)) /\ (\A t \in Tasks : pc[t] # "off" => AtWorkOf(t))
    /\ Unshared /\ BackupSafe => \A r \in rows : HeldAt(r)
    /\ Unshared /\ BackupSafe /\ crashes = 0 => \A r \in rows : FormattedAt(r)

\* What a worker's step leaves alone.
LocalTo(t) ==
    /\ \A s \in Recs : s # rec[t] => /\ file'[s] = file[s] /\ format'[s] = format[s]
                                     /\ s \in misfiled' <=> s \in misfiled
    /\ \A u \in Tasks : u # t => /\ pc'[u] = pc[u] /\ verdict'[u] = verdict[u]
                                 /\ rec[u] # rec[t] => writes'[u] = writes[u]
                                 /\ writes[u] = "no" => writes'[u] = "no"
    /\ UNCHANGED <<announced, rows, post, last, rec, up, disp, stops, crashes, deletes>>
    /\ fails' = fails \/ fails' = fails + 1

LEMMA RenameEffect ==
    ASSUME TypeOK, NEW r \in Recs, NEW a \in Names, NEW b \in Names, a # b, Rename(r, a, b)
    PROVE  /\ file[r][a] # "none" /\ file'[r][b] = file[r][a] /\ file'[r][a] = "none"
           /\ \A n \in Names : n # a /\ n # b => file'[r][n] = file[r][n]
           /\ \A s \in Recs : s # r => file'[s] = file[s]
           /\ \A u \in Tasks : rec[u] # r \/ writes[u] = "no" => writes'[u] = writes[u]
<1>1. file \in [Recs -> [Names -> Contents]] /\ writes \in [Tasks -> Names \cup {"no", "gone"}]
  BY DEF TypeOK
<1>2. file' = [file EXCEPT ![r] = [@ EXCEPT ![b] = file[r][a], ![a] = "none"]] /\ file[r][a] # "none"
  BY DEF Rename
<1>3. writes' = Moved(r, a, b)
  BY DEF Rename
<1>4. \A u \in Tasks : rec[u] # r \/ writes[u] = "no" => writes'[u] = writes[u]
  BY <1>1, <1>3 DEF Moved, Names
<1>5. file'[r] = [file[r] EXCEPT ![b] = file[r][a], ![a] = "none"] /\ \A s \in Recs : s # r => file'[s] = file[s]
  BY <1>1, <1>2
<1>6. file[r] \in [Names -> Contents]
  BY <1>1
<1> QED BY <1>2, <1>4, <1>5, <1>6

LEMMA UnlinkEffect ==
    ASSUME TypeOK, NEW r \in Recs, NEW a \in Names, Unlink(r, a)
    PROVE  /\ file'[r][a] = "none"
           /\ \A n \in Names : n # a => file'[r][n] = file[r][n]
           /\ \A s \in Recs : s # r => file'[s] = file[s]
           /\ \A u \in Tasks : rec[u] # r \/ writes[u] # a => writes'[u] = writes[u]
<1>1. file \in [Recs -> [Names -> Contents]] /\ writes \in [Tasks -> Names \cup {"no", "gone"}]
  BY DEF TypeOK
<1>2. file' = [file EXCEPT ![r][a] = "none"]
  BY DEF Unlink
<1>3. writes' = [t \in Tasks |-> IF rec[t] = r /\ writes[t] = a THEN "gone" ELSE writes[t]]
  BY DEF Unlink
<1>4. file'[r] = [file[r] EXCEPT ![a] = "none"] /\ \A s \in Recs : s # r => file'[s] = file[s]
  BY <1>1, <1>2
<1>5. file[r] \in [Names -> Contents]
  BY <1>1
<1> QED BY <1>1, <1>3, <1>4, <1>5

LEMMA WorkerLocal ==
    ASSUME Base, UNCHANGED setup, NEW t \in Tasks, Worker(t) \/ StartFails(t) \/ Progress(t)
    PROVE  LocalTo(t) /\ pc[t] # "off"
<1>0. pc[t] # "off"
  BY DEF Worker, StatInput, BudgetInterrupted, Quit, StartFfmpeg, FfmpegSucceeds, FfmpegFails, Decide,
         FinishTask, RemoveOutput, MoveOutput, ClearBackup, MoveOriginal, RestoreOutput, Commit,
         RestoreOriginal, RemoveBackup, UpdateFormat, Deregister, StartFails, Progress, At
<1>1. rec[t] \in Recs
  BY <1>0, AtRecording
<1>2. /\ file \in [Recs -> [Names -> Contents]] /\ writes \in [Tasks -> Names \cup {"no", "gone"}]
      /\ pc \in [Tasks -> Places] /\ verdict \in [Tasks -> {"none"} \cup Ended]
      /\ format \in [Recs -> {"old", "new"}]
  BY DEF Base, TypeOK
<1>9. fails' = fails \/ fails' = fails + 1
  BY FailsStep, MoveKinds
<1> USE <1>0, <1>1, <1>2, <1>9 DEF recVars, rowVars, taskVars, workVars, countVars
<1>3. CASE Filing(t)
  <2>1. FilesOnly /\ \E b \in Over : pc' = [pc EXCEPT ![t] = b]
    BY <1>3, FilingForm
  <2>3. \E a, b \in Names : a # b /\ (Rename(rec[t], a, b) \/ Unlink(rec[t], a) \/ RenameFails(rec[t], a))
    BY <1>3 DEF Filing, RemoveOutput, MoveOutput, ClearBackup, MoveOriginal, RestoreOutput,
                Commit, RestoreOriginal, RemoveBackup, Names
  <2>4. /\ \A s \in Recs : s # rec[t] => file'[s] = file[s]
        /\ \A u \in Tasks : rec[u] # rec[t] \/ writes[u] = "no" => writes'[u] = writes[u]
    <3>1. ASSUME NEW a \in Names, NEW b \in Names, a # b, Rename(rec[t], a, b)
          PROVE  /\ \A s \in Recs : s # rec[t] => file'[s] = file[s]
                 /\ \A u \in Tasks : rec[u] # rec[t] \/ writes[u] = "no" => writes'[u] = writes[u]
      BY <3>1, RenameEffect DEF Base
    <3>2. ASSUME NEW a \in Names, Unlink(rec[t], a)
          PROVE  /\ \A s \in Recs : s # rec[t] => file'[s] = file[s]
                 /\ \A u \in Tasks : rec[u] # rec[t] \/ writes[u] = "no" => writes'[u] = writes[u]
      <4>1. a # "no"
        BY DEF Names
      <4> QED BY <3>2, <4>1, UnlinkEffect DEF Base
    <3>3. ASSUME NEW a \in Names, RenameFails(rec[t], a)
          PROVE  /\ \A s \in Recs : s # rec[t] => file'[s] = file[s]
                 /\ \A u \in Tasks : rec[u] # rec[t] \/ writes[u] = "no" => writes'[u] = writes[u]
      BY <3>3 DEF RenameFails
    <3> QED BY <2>3, <3>1, <3>2, <3>3
  <2> QED BY <2>1, <2>4 DEF LocalTo, FilesOnly
<1>4. CASE StatInput(t) \/ BudgetInterrupted(t) \/ Quit(t) \/ StartFails(t) \/ Progress(t)
  BY <1>4 DEF StatInput, BudgetInterrupted, Quit, StartFails, Progress, LocalTo
<1>5. CASE StartFfmpeg(t)
  BY <1>5 DEF StartFfmpeg, LocalTo
<1>6. CASE FfmpegSucceeds(t)
  <2>1. \A s \in Recs : s # rec[t] => file'[s] = file[s]
    BY <1>6 DEF FfmpegSucceeds
  <2> QED BY <1>6, <2>1 DEF FfmpegSucceeds, LocalTo
<1>7. CASE FfmpegFails(t) \/ Decide(t) \/ FinishTask(t)
  BY <1>7 DEF FfmpegFails, Decide, FinishTask, LocalTo
<1>8. CASE UpdateFormat(t) \/ Deregister(t)
  BY <1>8 DEF UpdateFormat, Deregister, At, LocalTo
<1> QED BY <1>3, <1>4, <1>5, <1>6, <1>7, <1>8 DEF Worker, Filing

\* With one worker, or one task for each recording, no two meet.
LEMMA SoleWorker ==
    ASSUME Base, Slots, Announced, Unshared, NEW t \in Tasks, NEW u \in Tasks,
           pc[t] # "off", pc[u] # "off", rec[t] = rec[u]
    PROVE  t = u
<1>1. CASE Callers = {"bus"}
  <2>1. rec[t] # None
    BY AtRecording, Limits DEF Base, None
  <2> QED BY <1>1, <2>1 DEF Announced
<1>2. CASE MaxWorkers = 1
  <2>1. IsFiniteSet(active) /\ Cardinality(active) \in Nat
    BY Numbers DEF Base
  <2>2. disp.slots \in Nat
    <3>1. disp \in [slots : 0..MaxWorkers, task : 0..MaxTasks] /\ MaxWorkers \in Nat
      BY Limits DEF Base, TypeOK
    <3> QED BY <3>1
  <2>3. Cardinality(active) <= 1
    BY <1>2, <2>1, <2>2 DEF Slots
  <2>4. t \in active /\ u \in active
    BY DEF Base, TypeOK
  <2>5. {t, u} \subseteq active /\ IsFiniteSet({t, u})
    BY <2>1, <2>4, FS_Subset
  <2>6. Cardinality({t, u}) <= 1
    <3>1. Cardinality({t, u}) <= Cardinality(active) /\ Cardinality({t, u}) \in Nat
      BY <2>1, <2>5, FS_Subset, FS_CardinalityType
    <3> QED BY <2>1, <2>3, <3>1
  <2>7. t # u => Cardinality({t, u}) = 2
    <3>1. IsFiniteSet({t}) /\ Cardinality({t}) = 1
      BY FS_Singleton
    <3>2. t # u => Cardinality({t} \cup {u}) = 2
      BY <3>1, FS_AddElement
    <3>3. {t} \cup {u} = {t, u}
      OBVIOUS
    <3> QED BY <3>2, <3>3
  <2> QED BY <2>6, <2>7
<1> QED BY <1>1, <1>2 DEF Unshared

LEMMA AnnouncedStep ==
    ASSUME Base, Announced, Move, UNCHANGED setup
    PROVE  Announced'
<1>1. /\ announced \in Nat /\ NumRecs \in Nat /\ Recs = 1..NumRecs /\ rows \subseteq 1..announced
      /\ rec \in [Tasks -> 0..NumRecs] /\ format \in [Recs -> {"old", "new"}]
      /\ post \in [Callers -> SUBSET Recs] /\ Callers' = Callers /\ rows \subseteq Recs
  <2>1. /\ announced \in 0..NumRecs /\ rows \subseteq 1..announced
        /\ rec \in [Tasks -> 0..NumRecs] /\ format \in [Recs -> {"old", "new"}]
        /\ post \in [Callers -> SUBSET Recs]
    BY DEF Base, TypeOK
  <2>2. NumRecs \in Nat /\ Recs = 1..NumRecs /\ Callers' = Callers
    BY Limits DEF Base, Callers
  <2> QED BY <2>1, <2>2
<1> USE <1>1 DEF recVars, rowVars, taskVars, workVars, countVars
<1>2. CASE UNCHANGED <<announced, rec, format>> /\ (post' = post \/ \A c \in Callers : post'[c] = {})
  BY <1>2 DEF Announced
<1>3. CASE Service
  <2>1. UNCHANGED <<announced, rec, format, post>>
    BY <1>3 DEF Service, Tick, Dequeue, StartWorker, CancelRow, Stopped
  <2> QED BY <1>2, <2>1
<1>4. CASE Outer
  <2>1. UNCHANGED <<announced, rec, format>> /\ (post' = post \/ \A c \in Callers : post'[c] = {})
    BY <1>4 DEF Outer, CancelJob, JobTimeout, Stop, Crash, Start, DeleteRow, DeleteFile, Sweep, FilesOnly
  <2> QED BY <1>2, <2>1
<1>5. ASSUME NEW t \in Tasks, Worker(t) \/ StartFails(t) \/ Progress(t)
      PROVE  Announced'
  <2>1. UNCHANGED <<announced, rec, post>>
    BY <1>5, WorkerLocal DEF LocalTo
  <2>2. CASE UNCHANGED format
    BY <1>2, <2>1, <2>2
  <2>3. CASE UpdateFormat(t)
    <3>1. \A r \in Recs : r > announced => format'[r] = format[r]
      BY <2>3 DEF UpdateFormat
    <3> QED BY <2>1, <3>1 DEF Announced
  <2>4. UpdateFormat(t) \/ UNCHANGED format
    BY <1>5 DEF Worker, StatInput, BudgetInterrupted, Quit, StartFfmpeg, FfmpegSucceeds, FfmpegFails, Decide,
                FinishTask, RemoveOutput, MoveOutput, ClearBackup, MoveOriginal, RestoreOutput, Commit,
                RestoreOriginal, RemoveBackup, Deregister, StartFails, Progress, FilesOnly
  <2> QED BY <2>2, <2>3, <2>4
<1>6. CASE Posting
  <2>1. CASE "bus" \in Callers /\ SegmentCompleted
    <3>1. announced' = announced + 1 /\ UNCHANGED <<rec, format>>
             /\ (post' = post \/ post' = [post EXCEPT !["bus"] = {announced + 1}])
      BY <2>1 DEF SegmentCompleted
    <3>2. \A t \in Tasks : rec[t] <= announced' /\ rec[t] # announced + 1
      BY <3>1 DEF Announced
    <3>3. \A c \in Callers : post'[c] \subseteq 1..announced'
      BY <3>1 DEF Announced
    <3>4. \A r \in Recs : r > announced' => format'[r] = "old"
      BY <3>1 DEF Announced
    <3> QED BY <3>1, <3>2, <3>3, <3>4 DEF Announced
  <2>2. ASSUME "api" \in Callers, NEW r \in rows, post' = [post EXCEPT !["api"] = {r}],
               UNCHANGED <<announced, rec, format>>
        PROVE  Announced'
    <3>1. \A c \in Callers : post'[c] \subseteq 1..announced
      BY <2>2 DEF Announced
    <3>2. Callers' # {"bus"}
      BY <2>2
    <3>3. /\ \A t \in Tasks : rec'[t] <= announced'
          /\ \A s \in Recs : s > announced' => format'[s] = "old"
      BY <2>2 DEF Announced
    <3>4. \A c \in Callers' : post'[c] \subseteq 1..announced'
      BY <2>2, <3>1
    <3> QED BY <3>2, <3>3, <3>4 DEF Announced, Tasks, Recs
  <2>3. ASSUME "api" \in Callers, NEW t \in Tasks, RetryTask(t)
        PROVE  Announced'
    <3>0. status[t] = "failed" /\ rec[t] \in 0..NumRecs /\ rec[t] <= announced
             /\ (t <= last) = (status[t] # "none") /\ (t <= last) = (rec[t] # 0)
      BY <2>3 DEF RetryTask, Base, TypeOK, None, Announced
    <3>1. rec[t] \in 1..announced
      <4>1. rec[t] # 0
        BY <3>0
      <4> QED BY <3>0, <4>1
    <3>2. UNCHANGED <<announced, rec, format>> /\ post' = [post EXCEPT !["api"] = {rec[t]}]
      BY <2>3 DEF RetryTask
    <3> QED BY <2>3, <3>1, <3>2 DEF Announced
  <2>4. CASE "backfill" \in Callers /\ Backfill
    <3>1. UNCHANGED <<announced, rec, format>>
             /\ \E s \in SUBSET rows : post' = [post EXCEPT !["backfill"] = s]
      BY <2>4 DEF Backfill
    <3> QED BY <2>4, <3>1 DEF Announced
  <2> QED BY <1>6, <2>1, <2>2, <2>3, <2>4 DEF Posting, PostTask
<1>7. ASSUME NEW c \in Callers, InsertTasks(c)
      PROVE  Announced'
  <2> DEFINE n == Cardinality(post[c])
             new == Ascending(post[c])
  <2>1. UNCHANGED <<announced, format>> /\ post' = [post EXCEPT ![c] = {}]
    BY <1>7 DEF InsertTasks
  <2>2. /\ \A t \in Tasks : t > last /\ t <= last + n => rec'[t] = new[t - last] /\ rec'[t] \in post[c]
                                                            /\ t - last \in 1..n
        /\ \A t \in Tasks : ~ (t > last /\ t <= last + n) => rec'[t] = rec[t]
    BY <1>7, Inserted
  <2>3. \A i, j \in 1..n : new[i] = new[j] => i = j
    BY Batch DEF Base
  <2> HIDE DEF n, new
  <2>4. \A t \in Tasks : rec'[t] <= announced'
    <3>1. \A r \in post[c] : r <= announced
      BY DEF Announced
    <3>2. \A t \in Tasks : rec[t] <= announced
      BY DEF Announced
    <3> QED BY <2>1, <2>2, <3>1, <3>2
  <2>5. \A k \in Callers : post'[k] \subseteq 1..announced'
    BY <2>1 DEF Announced
  <2>6. \A r \in Recs : r > announced' => format'[r] = "old"
    BY <2>1 DEF Announced
  <2>7. ASSUME Callers = {"bus"}
        PROVE  /\ \A t, u \in Tasks : rec'[t] = rec'[u] /\ rec'[t] # None => t = u
               /\ \A t \in Tasks : rec'[t] \notin post'["bus"]
    <3>1. c = "bus" /\ post'["bus"] = {}
      BY <2>1, <2>7
    <3>2. ASSUME NEW t \in Tasks, NEW u \in Tasks, rec'[t] = rec'[u], rec'[t] # None
          PROVE  t = u
      <4>0. t \in Nat /\ u \in Nat /\ last \in Nat
        BY Numbers DEF Base
      <4>1. CASE t > last /\ t <= last + n /\ u > last /\ u <= last + n
        <5>1. t - last \in 1..n /\ u - last \in 1..n /\ new[t - last] = new[u - last]
          BY <2>2, <3>2, <4>1
        <5>2. t - last = u - last
          BY <2>3, <5>1
        <5> QED BY <4>0, <5>2
      <4>2. \A v \in Tasks : rec[v] \notin post[c]
        BY <2>7, <3>1 DEF Announced
      <4>3. CASE (t > last /\ t <= last + n) /\ ~ (u > last /\ u <= last + n)
        BY <2>2, <3>2, <4>2, <4>3
      <4>4. CASE ~ (t > last /\ t <= last + n) /\ (u > last /\ u <= last + n)
        BY <2>2, <3>2, <4>2, <4>4
      <4>5. CASE ~ (t > last /\ t <= last + n) /\ ~ (u > last /\ u <= last + n)
        BY <2>2, <2>7, <3>2, <4>5 DEF Announced
      <4> QED BY <4>1, <4>3, <4>4, <4>5
    <3> QED BY <3>1, <3>2
  <2> QED BY <1>1, <2>4, <2>5, <2>6, <2>7 DEF Announced
<1> QED BY <1>3, <1>4, <1>5, <1>6, <1>7, MoveKinds

\* What is said of a recording, as its one worker sees it.
HeldBy(t) ==
    \/ file[rec[t]]["input"] # "none" \/ pc[t] \in {"commit", "back"}
    \/ ~setup.sweeping /\ file[rec[t]]["bak"] # "none" /\ (crashes > 0 \/ fails > 1)
FormattedBy(t) ==
    LET f == file[rec[t]] IN
    /\ pc[t] \in {"unbak", "format"} => f["input"] = "whole"
    /\ rec[t] \notin misfiled =>
          /\ pc[t] \notin {"unbak", "format"} /\ f["input"] # "none" => format[rec[t]] = FormatOf(f["input"])
          /\ ~setup.sweeping /\ pc[t] \in {"commit", "back"} => format[rec[t]] = FormatOf(f["bak"])
Sound(t) ==
    /\ CleanAt(rec[t]) /\ (pc[t] # "off" => AtWorkOf(t))
    /\ BackupSafe /\ rec[t] \in rows => HeldBy(t)
    /\ BackupSafe /\ crashes = 0 /\ rec[t] \in rows => FormattedBy(t)

\* What a step of worker t leaves as it is, for the properties of its recording.
Steady(t) ==
    /\ UNCHANGED <<setup, rec, rows, crashes>> /\ fails \in Nat
    /\ rec[t] \in Recs /\ {"input", "output", "tmp", "bak"} = Names

LEMMA SteadyWorker ==
    ASSUME Base, UNCHANGED setup, NEW t \in Tasks, Worker(t) \/ StartFails(t) \/ Progress(t)
    PROVE  Steady(t)
<1>1. LocalTo(t) /\ rec[t] \in Recs
  BY WorkerLocal, AtRecording
<1>2. fails \in Nat
  <2>1. fails \in 0..setup.fails /\ setup.fails \in Nat
    BY Limits DEF Base, TypeOK
  <2> QED BY <2>1
<1> QED BY <1>1, <1>2 DEF LocalTo, Steady, Names

\* The steps before the renames.
LEMMA EarlySound ==
    ASSUME Base, UNCHANGED setup, Writers, NEW t \in Tasks, Sound(t),
           \A u \in Tasks : pc[u] # "off" /\ rec[u] = rec[t] => u = t,
           \/ StatInput(t) \/ BudgetInterrupted(t) \/ Quit(t) \/ StartFails(t) \/ Progress(t) \/ StartFfmpeg(t)
           \/ FfmpegSucceeds(t) \/ FfmpegFails(t) \/ Decide(t) \/ FinishTask(t)
           \/ UpdateFormat(t) \/ Deregister(t)
    PROVE  Sound(t)'
<1>0. Steady(t)
  BY SteadyWorker DEF Worker
<1>1. /\ file \in [Recs -> [Names -> Contents]] /\ writes \in [Tasks -> Names \cup {"no", "gone"}]
      /\ pc \in [Tasks -> Places] /\ verdict \in [Tasks -> {"none"} \cup Ended]
      /\ format \in [Recs -> {"old", "new"}]
  BY DEF Base, TypeOK
<1>11. fails' = fails \/ fails' = fails + 1
  BY FailsStep, MoveKinds DEF Worker
<1> USE <1>0, <1>1, <1>11 DEF Steady, recVars, rowVars, taskVars, workVars, countVars
<1>2. CASE StatInput(t) \/ BudgetInterrupted(t) \/ Quit(t) \/ StartFails(t)
  <2>1. /\ UNCHANGED <<file, format, misfiled, writes>>
        /\ \/ pc'[t] \in {"end", "quit"}
           \/ pc[t] = "stat" /\ pc'[t] = "budget" /\ file[rec[t]]["input"] # "none"
        /\ pc[t] \in {"stat", "budget", "quit"}
    BY <1>2 DEF StatInput, BudgetInterrupted, Quit, StartFails
  <2> QED BY <2>1 DEF Sound, CleanAt, AtWorkOf, HeldBy, FormattedBy, BackupSafe
<1>3. CASE Progress(t)
  <2>1. UNCHANGED <<file, format, misfiled, writes, verdict, pc, fails>>
    BY <1>3 DEF Progress
  <2> QED BY <2>1 DEF Sound, CleanAt, AtWorkOf, HeldBy, FormattedBy, BackupSafe
<1>4. CASE StartFfmpeg(t)
  <2>1. UNCHANGED <<format, misfiled, fails>> /\ pc[t] = "budget"
    BY <1>4 DEF StartFfmpeg
  <2>2. CASE file[rec[t]]["input"] \in Whole
    <3>1. Truncated(t) = "part"
      BY DEF Truncated, Writers
    <3>2. /\ pc'[t] = "run" /\ writes'[t] = "output" /\ verdict' = verdict
          /\ file' = [file EXCEPT ![rec[t]]["output"] = "part"]
      BY <1>4, <2>2, <3>1 DEF StartFfmpeg
    <3>3. /\ file'[rec[t]]["output"] = "part" /\ file'[rec[t]]["input"] = file[rec[t]]["input"]
          /\ file'[rec[t]]["tmp"] = file[rec[t]]["tmp"] /\ file'[rec[t]]["bak"] = file[rec[t]]["bak"]
      BY <3>2
    <3> QED BY <2>1, <3>2, <3>3 DEF Sound, CleanAt, AtWorkOf, HeldBy, FormattedBy, BackupSafe
  <2>3. CASE file[rec[t]]["input"] \notin Whole
    <3>1. UNCHANGED <<file, writes>> /\ pc'[t] = "exited" /\ verdict'[t] = "failed"
      BY <1>4, <2>3 DEF StartFfmpeg
    <3> QED BY <2>1, <3>1 DEF Sound, CleanAt, AtWorkOf, HeldBy, FormattedBy, BackupSafe
  <2> QED BY <2>2, <2>3
<1>5. CASE FfmpegSucceeds(t)
  <2>1. UNCHANGED <<format, misfiled, fails>> /\ pc[t] = "run" /\ pc'[t] = "exited"
    BY <1>5 DEF FfmpegSucceeds
  <2>2. writes[t] = "output" /\ file[rec[t]]["output"] = "part"
    BY <2>1 DEF Sound, AtWorkOf
  <2>3. file' = [file EXCEPT ![rec[t]]["output"] = "whole"]
    BY <1>5, <2>2 DEF FfmpegSucceeds
  <2>4. /\ file'[rec[t]]["output"] = "whole" /\ file'[rec[t]]["input"] = file[rec[t]]["input"]
        /\ file'[rec[t]]["tmp"] = file[rec[t]]["tmp"] /\ file'[rec[t]]["bak"] = file[rec[t]]["bak"]
    BY <2>3
  <2> QED BY <2>1, <2>4 DEF Sound, CleanAt, AtWorkOf, HeldBy, FormattedBy, BackupSafe
<1>6. CASE FfmpegFails(t)
  <2>1. /\ UNCHANGED <<format, misfiled, file>> /\ pc[t] = "run" /\ pc'[t] = "exited" /\ verdict'[t] = "failed"
    BY <1>6 DEF FfmpegFails
  <2> QED BY <2>1 DEF Sound, CleanAt, AtWorkOf, HeldBy, FormattedBy, BackupSafe
<1>7. CASE Decide(t)
  <2>1. /\ UNCHANGED <<format, misfiled, file, fails>> /\ pc[t] = "exited" /\ pc'[t] = "finish"
        /\ verdict'[t] = verdict[t] \/ verdict'[t] # "completed"
    BY <1>7 DEF Decide
  <2> QED BY <2>1 DEF Sound, CleanAt, AtWorkOf, HeldBy, FormattedBy, BackupSafe
<1>8. CASE FinishTask(t)
  <2>1. /\ UNCHANGED <<format, misfiled, file>> /\ pc[t] = "finish"
        /\ pc'[t] = "remove" \/ (pc'[t] = "tmp" /\ verdict[t] = "completed") \/ pc'[t] = "end"
    BY <1>8 DEF FinishTask, AfterFinish
  <2> QED BY <2>1 DEF Sound, CleanAt, AtWorkOf, HeldBy, FormattedBy, BackupSafe
<1>9. CASE UpdateFormat(t)
  <2>1. /\ UNCHANGED file /\ pc[t] = "format" /\ pc'[t] = "end"
        /\ \/ rec[t] \in rows => format'[rec[t]] = "new"
           \/ rec[t] \in misfiled'
    BY <1>9 DEF UpdateFormat
  <2> QED BY <2>1 DEF Sound, CleanAt, AtWorkOf, HeldBy, FormattedBy, BackupSafe, FormatOf
<1>10. CASE Deregister(t)
  <2>1. UNCHANGED <<file, fails, format, misfiled>> /\ pc[t] = "end" /\ pc'[t] = "off"
    BY <1>10 DEF Deregister, At
  <2> QED BY <2>1 DEF Sound, CleanAt, AtWorkOf, HeldBy, FormattedBy, BackupSafe
<1> QED BY <1>2, <1>3, <1>4, <1>5, <1>6, <1>7, <1>8, <1>9, <1>10

\* The renames.
LEMMA FilingSound ==
    ASSUME Base, UNCHANGED setup, NEW t \in Tasks, Sound(t), Filing(t)
    PROVE  Sound(t)'
<1>0. Steady(t) /\ UNCHANGED <<format, misfiled, crashes, verdict>>
  <2>1. FilesOnly
    BY FilingForm
  <2> QED BY <2>1, SteadyWorker DEF Worker, Filing, FilesOnly, rowVars, countVars
<1>1. pc \in [Tasks -> Places] /\ TypeOK
  BY DEF Base, TypeOK
<1> USE <1>0, <1>1 DEF Steady, At
<1>2. CASE RemoveOutput(t)
  <2>1. UNCHANGED fails /\ Unlink(rec[t], "output")
    BY <1>2 DEF RemoveOutput
  <2>2. file'[rec[t]]["output"] = "none" /\ \A n \in Names : n # "output" => file'[rec[t]][n] = file[rec[t]][n]
    BY <2>1, UnlinkEffect
  <2>3. pc[t] = "remove" /\ pc'[t] = "end"
    BY <1>2 DEF RemoveOutput
  <2> QED BY <2>1, <2>2, <2>3 DEF Sound, CleanAt, AtWorkOf, HeldBy, FormattedBy, BackupSafe
<1>3. CASE MoveOutput(t)
  <2>1. pc[t] = "tmp"
    BY <1>3 DEF MoveOutput
  <2>2. CASE Rename(rec[t], "output", "tmp") /\ UNCHANGED fails /\ pc'[t] = "clear"
    <3>1. /\ file[rec[t]]["output"] # "none" /\ file'[rec[t]]["tmp"] = file[rec[t]]["output"]
          /\ file'[rec[t]]["output"] = "none"
          /\ \A n \in Names : n # "output" /\ n # "tmp" => file'[rec[t]][n] = file[rec[t]][n]
      BY <2>2, RenameEffect
    <3> QED BY <2>1, <2>2, <3>1 DEF Sound, CleanAt, AtWorkOf, HeldBy, FormattedBy, BackupSafe, Whole
  <2>3. CASE RenameFails(rec[t], "output") /\ pc'[t] = "end"
    <3>1. /\ file' = file
          /\ (file[rec[t]]["output"] = "none" /\ fails' = fails) \/ (file[rec[t]]["output"] # "none" /\ fails' = fails + 1)
      BY <2>3 DEF RenameFails, Fault
    <3> QED BY <2>1, <2>3, <3>1 DEF Sound, CleanAt, AtWorkOf, HeldBy, FormattedBy, BackupSafe
  <2> QED BY <1>3, <2>2, <2>3 DEF MoveOutput
<1>4. CASE ClearBackup(t)
  <2>1. UNCHANGED fails /\ Unlink(rec[t], "bak")
    BY <1>4 DEF ClearBackup
  <2>2. file'[rec[t]]["bak"] = "none" /\ \A n \in Names : n # "bak" => file'[rec[t]][n] = file[rec[t]][n]
    BY <2>1, UnlinkEffect
  <2>3. pc[t] = "clear" /\ pc'[t] = "bak"
    BY <1>4 DEF ClearBackup
  <2> QED BY <2>1, <2>2, <2>3 DEF Sound, CleanAt, AtWorkOf, HeldBy, FormattedBy, BackupSafe
<1>5. CASE MoveOriginal(t)
  <2>1. pc[t] = "bak"
    BY <1>5 DEF MoveOriginal
  <2>2. CASE Rename(rec[t], "input", "bak") /\ UNCHANGED fails /\ pc'[t] = "commit"
    <3>1. /\ file[rec[t]]["input"] # "none" /\ file'[rec[t]]["bak"] = file[rec[t]]["input"]
          /\ file'[rec[t]]["input"] = "none"
          /\ \A n \in Names : n # "input" /\ n # "bak" => file'[rec[t]][n] = file[rec[t]][n]
      BY <2>2, RenameEffect
    <3> QED BY <2>1, <2>2, <3>1 DEF Sound, CleanAt, AtWorkOf, HeldBy, FormattedBy, BackupSafe, Whole
  <2>3. CASE RenameFails(rec[t], "input") /\ pc'[t] = "unmove"
    <3>1. /\ file' = file
          /\ (file[rec[t]]["input"] = "none" /\ fails' = fails) \/ (file[rec[t]]["input"] # "none" /\ fails' = fails + 1)
      BY <2>3 DEF RenameFails, Fault
    <3> QED BY <2>1, <2>3, <3>1 DEF Sound, CleanAt, AtWorkOf, HeldBy, FormattedBy, BackupSafe
  <2> QED BY <1>5, <2>2, <2>3 DEF MoveOriginal
<1>6. CASE RestoreOutput(t)
  <2>1. pc[t] = "unmove"
    BY <1>6 DEF RestoreOutput
  <2>2. CASE Rename(rec[t], "tmp", "output") /\ UNCHANGED fails /\ pc'[t] = "end"
    <3>1. /\ file[rec[t]]["tmp"] # "none" /\ file'[rec[t]]["output"] = file[rec[t]]["tmp"]
          /\ file'[rec[t]]["tmp"] = "none"
          /\ \A n \in Names : n # "tmp" /\ n # "output" => file'[rec[t]][n] = file[rec[t]][n]
      BY <2>2, RenameEffect
    <3> QED BY <2>1, <2>2, <3>1 DEF Sound, CleanAt, AtWorkOf, HeldBy, FormattedBy, BackupSafe, Whole
  <2>3. CASE RenameFails(rec[t], "tmp") /\ pc'[t] = "end"
    <3>1. /\ file' = file
          /\ (file[rec[t]]["tmp"] = "none" /\ fails' = fails) \/ (file[rec[t]]["tmp"] # "none" /\ fails' = fails + 1)
      BY <2>3 DEF RenameFails, Fault
    <3> QED BY <2>1, <2>3, <3>1 DEF Sound, CleanAt, AtWorkOf, HeldBy, FormattedBy, BackupSafe
  <2> QED BY <1>6, <2>2, <2>3 DEF RestoreOutput
<1>7. CASE Commit(t)
  <2>1. pc[t] = "commit"
    BY <1>7 DEF Commit
  <2>2. CASE Rename(rec[t], "tmp", "input") /\ UNCHANGED fails /\ pc'[t] = "unbak"
    <3>1. /\ file[rec[t]]["tmp"] # "none" /\ file'[rec[t]]["input"] = file[rec[t]]["tmp"]
          /\ file'[rec[t]]["tmp"] = "none"
          /\ \A n \in Names : n # "tmp" /\ n # "input" => file'[rec[t]][n] = file[rec[t]][n]
      BY <2>2, RenameEffect
    <3> QED BY <2>1, <2>2, <3>1 DEF Sound, CleanAt, AtWorkOf, HeldBy, FormattedBy, BackupSafe, Whole
  <2>3. CASE RenameFails(rec[t], "tmp") /\ pc'[t] = "back"
    <3>1. /\ file' = file
          /\ (file[rec[t]]["tmp"] = "none" /\ fails' = fails) \/ (file[rec[t]]["tmp"] # "none" /\ fails' = fails + 1)
      BY <2>3 DEF RenameFails, Fault
    <3> QED BY <2>1, <2>3, <3>1 DEF Sound, CleanAt, AtWorkOf, HeldBy, FormattedBy, BackupSafe
  <2> QED BY <1>7, <2>2, <2>3 DEF Commit
<1>8. CASE RestoreOriginal(t)
  <2>1. pc[t] = "back"
    BY <1>8 DEF RestoreOriginal
  <2>2. CASE Rename(rec[t], "bak", "input") /\ UNCHANGED fails /\ pc'[t] = "unmove"
    <3>1. /\ file[rec[t]]["bak"] # "none" /\ file'[rec[t]]["input"] = file[rec[t]]["bak"]
          /\ file'[rec[t]]["bak"] = "none"
          /\ \A n \in Names : n # "bak" /\ n # "input" => file'[rec[t]][n] = file[rec[t]][n]
      BY <2>2, RenameEffect
    <3> QED BY <2>1, <2>2, <3>1 DEF Sound, CleanAt, AtWorkOf, HeldBy, FormattedBy, BackupSafe, Whole
  <2>3. CASE RenameFails(rec[t], "bak") /\ pc'[t] = "end"
    <3>1. /\ file' = file
          /\ (file[rec[t]]["bak"] = "none" /\ fails' = fails) \/ (file[rec[t]]["bak"] # "none" /\ fails' = fails + 1)
      BY <2>3 DEF RenameFails, Fault
    <3> QED BY <2>1, <2>3, <3>1 DEF Sound, CleanAt, AtWorkOf, HeldBy, FormattedBy, BackupSafe
  <2> QED BY <1>8, <2>2, <2>3 DEF RestoreOriginal
<1>9. CASE RemoveBackup(t)
  <2>1. UNCHANGED fails /\ Unlink(rec[t], "bak")
    BY <1>9 DEF RemoveBackup
  <2>2. file'[rec[t]]["bak"] = "none" /\ \A n \in Names : n # "bak" => file'[rec[t]][n] = file[rec[t]][n]
    BY <2>1, UnlinkEffect
  <2>3. pc[t] = "unbak" /\ pc'[t] = "format"
    BY <1>9 DEF RemoveBackup
  <2> QED BY <2>1, <2>2, <2>3 DEF Sound, CleanAt, AtWorkOf, HeldBy, FormattedBy, BackupSafe
<1> QED BY <1>2, <1>3, <1>4, <1>5, <1>6, <1>7, <1>8, <1>9 DEF Filing

LEMMA WriterSelf ==
    ASSUME Base, UNCHANGED setup, Writers, NEW t \in Tasks, Worker(t) \/ StartFails(t) \/ Progress(t)
    PROVE  pc'[t] # "run" => writes'[t] = "no"
<1>1. pc \in [Tasks -> Places] /\ writes \in [Tasks -> Names \cup {"no", "gone"}] /\ rec[t] \in Recs
  BY WorkerLocal, AtRecording DEF Base, TypeOK
<1> USE <1>1 DEF Writers, recVars, rowVars, taskVars, workVars, countVars
<1>2. CASE Filing(t)
  <2>1. pc[t] # "run"
    BY <1>2 DEF Filing, RemoveOutput, MoveOutput, ClearBackup, MoveOriginal, RestoreOutput,
                Commit, RestoreOriginal, RemoveBackup, At
  <2>2. writes[t] = "no"
    BY <2>1
  <2>3. \E a, b \in Names : a # b /\ (Rename(rec[t], a, b) \/ Unlink(rec[t], a) \/ RenameFails(rec[t], a))
    BY <1>2 DEF Filing, RemoveOutput, MoveOutput, ClearBackup, MoveOriginal, RestoreOutput,
                Commit, RestoreOriginal, RemoveBackup, Names
  <2>4. ASSUME NEW a \in Names, NEW b \in Names, a # b,
               Rename(rec[t], a, b) \/ Unlink(rec[t], a) \/ RenameFails(rec[t], a)
        PROVE  writes'[t] = writes[t]
    <3>1. writes[t] # a
      BY <2>2 DEF Names
    <3> QED BY <2>2, <2>4, <3>1, RenameEffect, UnlinkEffect DEF RenameFails, Base
  <2> QED BY <2>2, <2>3, <2>4
<1>3. CASE StatInput(t) \/ BudgetInterrupted(t) \/ Quit(t) \/ StartFails(t) \/ StartFfmpeg(t)
  BY <1>3 DEF StatInput, BudgetInterrupted, Quit, StartFails, StartFfmpeg
<1>4. CASE Progress(t) \/ FfmpegSucceeds(t) \/ FfmpegFails(t)
  BY <1>4 DEF Progress, FfmpegSucceeds, FfmpegFails
<1>5. CASE Decide(t) \/ FinishTask(t)
  BY <1>5 DEF Decide, FinishTask
<1>6. CASE UpdateFormat(t) \/ Deregister(t)
  BY <1>6 DEF UpdateFormat, Deregister, At
<1> QED BY <1>2, <1>3, <1>4, <1>5, <1>6 DEF Worker, Filing

LEMMA WorkerFiles ==
    ASSUME Base, Slots, Announced, FilesInv, UNCHANGED setup,
           NEW t \in Tasks, Worker(t) \/ StartFails(t) \/ Progress(t)
    PROVE  FilesInv'
<1>1. LocalTo(t) /\ pc[t] # "off" /\ Steady(t)
  BY WorkerLocal, SteadyWorker
<1>2. pc'[t] # "run" => writes'[t] = "no"
  BY WriterSelf DEF FilesInv
<1>3. Writers'
  BY <1>1, <1>2 DEF Writers, LocalTo, FilesInv
<1>4. Unshared' = Unshared /\ (BackupSafe' => BackupSafe) /\ rec' = rec /\ rows' = rows /\ rows \subseteq Recs
         /\ crashes' = crashes
  <2>1. rows \subseteq 1..announced /\ announced \in 0..NumRecs
    BY DEF Base, TypeOK
  <2>2. rows \subseteq Recs
    BY <2>1, Limits DEF Base
  <2> QED BY <1>1, <2>2 DEF Unshared, MaxWorkers, Callers, BackupSafe, LocalTo, Steady
<1>5. ASSUME Unshared
      PROVE  /\ \A r \in Recs : CleanAt(r)'
             /\ \A u \in Tasks : pc'[u] # "off" => AtWorkOf(u)'
             /\ BackupSafe' => \A r \in rows : HeldAt(r)'
             /\ BackupSafe' /\ crashes = 0 => \A r \in rows : FormattedAt(r)'
  <2>1. \A u \in Tasks : pc[u] # "off" /\ rec[u] = rec[t] => u = t
    BY <1>1, <1>5, SoleWorker
  <2>2. rec[t] \in Recs /\ \A r \in Recs : CleanAt(r)
    BY <1>1, <1>5 DEF FilesInv, Steady
  <2>3. /\ Between(rec[t]) <=> pc[t] \in {"commit", "back"}
        /\ Committed(rec[t]) <=> pc[t] \in {"unbak", "format"}
    BY <1>1, <2>1 DEF Between, Committed, WorkersOf
  <2>4. Sound(t)
    BY <1>1, <1>5, <2>2, <2>3 DEF FilesInv, Sound, HeldAt, HeldBy, FormattedAt, FormattedBy
  <2>5. Sound(t)'
    <3>1. CASE Filing(t)
      BY <2>4, <3>1, FilingSound
    <3>2. CASE ~Filing(t)
      BY <2>1, <2>4, <3>2, EarlySound DEF Worker, Filing, FilesInv
    <3> QED BY <3>1, <3>2
  <2>6. \A u \in Tasks : u # t /\ pc[u] # "off" => rec[u] # rec[t]
    BY <2>1
  <2>7. ASSUME NEW s \in Recs, s # rec[t]
        PROVE  /\ (Between(s)' <=> Between(s)) /\ (Committed(s)' <=> Committed(s))
               /\ file'[s] = file[s] /\ format'[s] = format[s]
               /\ s \in misfiled' <=> s \in misfiled
    <3>1. WorkersOf(s)' = WorkersOf(s) /\ t \notin WorkersOf(s)
      BY <1>1, <1>4, <2>7 DEF WorkersOf, LocalTo, Tasks
    <3> QED BY <1>1, <2>7, <3>1 DEF Between, Committed, LocalTo, WorkersOf
  <2>8. /\ Between(rec[t])' <=> pc'[t] \in {"commit", "back"}
        /\ Committed(rec[t])' <=> pc'[t] \in {"unbak", "format"}
    <3>1. \A u \in Tasks : u # t => pc'[u] = pc[u]
      BY <1>1 DEF LocalTo
    <3> QED BY <1>4, <2>1, <3>1 DEF Between, Committed, WorkersOf, Tasks
  <2>9. \A r \in Recs : CleanAt(r)'
    <3>1. CleanAt(rec[t])'
      BY <2>5 DEF Sound
    <3>2. ASSUME NEW s \in Recs, s # rec[t]
          PROVE  CleanAt(s)'
      BY <2>2, <2>7, <3>2 DEF CleanAt
    <3> QED BY <1>4, <3>1, <3>2 DEF CleanAt
  <2>10. ASSUME NEW u \in Tasks, pc'[u] # "off"
         PROVE  AtWorkOf(u)'
    <3>1. CASE u = t
      BY <2>5, <2>10, <3>1 DEF Sound
    <3>2. CASE u # t
      <4>1. pc'[u] = pc[u] /\ verdict'[u] = verdict[u] /\ rec[u] # rec[t] /\ writes'[u] = writes[u]
        BY <1>1, <2>6, <2>10, <3>2 DEF LocalTo
      <4>2. AtWorkOf(u) /\ file'[rec[u]] = file[rec[u]]
        <5>1. rec[u] \in Recs
          BY <2>10, <4>1, AtRecording
        <5> QED BY <1>1, <1>5, <2>10, <4>1, <5>1 DEF FilesInv, LocalTo
      <4>3. fails \in Nat /\ (fails' = fails \/ fails' = fails + 1)
        BY <1>1 DEF LocalTo, Steady
      <4> QED BY <1>4, <4>1, <4>2, <4>3 DEF AtWorkOf
    <3> QED BY <3>1, <3>2
  <2>11. ASSUME BackupSafe', NEW s \in rows
         PROVE  HeldAt(s)'
    <3>1. CASE s = rec[t]
      BY <1>4, <2>5, <2>8, <2>11, <3>1 DEF Sound, HeldAt, HeldBy
    <3>2. CASE s # rec[t]
      <4>1. HeldAt(s)
        BY <1>4, <1>5, <2>11 DEF FilesInv
      <4>2. fails \in Nat /\ (fails' = fails \/ fails' = fails + 1)
        BY <1>1 DEF LocalTo, Steady
      <4> QED BY <1>4, <2>7, <3>2, <4>1, <4>2 DEF HeldAt
    <3> QED BY <3>1, <3>2
  <2>12. ASSUME BackupSafe', crashes = 0, NEW s \in rows
         PROVE  FormattedAt(s)'
    <3>1. CASE s = rec[t]
      BY <1>4, <2>5, <2>8, <2>12, <3>1 DEF Sound, FormattedAt, FormattedBy
    <3>2. CASE s # rec[t]
      <4>1. FormattedAt(s)
        BY <1>4, <1>5, <2>12 DEF FilesInv
      <4> QED BY <1>4, <2>7, <3>2, <4>1 DEF FormattedAt
    <3> QED BY <3>1, <3>2
  <2> QED BY <2>9, <2>10, <2>11, <2>12
<1> QED BY <1>3, <1>4, <1>5 DEF FilesInv

LEMMA RowsAre ==
    ASSUME Base
    PROVE  rows \subseteq Recs /\ fails \in Nat
<1>1. rows \subseteq 1..announced /\ announced \in 0..NumRecs
  BY DEF Base, TypeOK
<1>2. fails \in 0..setup.fails /\ setup.fails \in Nat
  BY Limits DEF Base, TypeOK
<1>3. Recs = 1..NumRecs /\ NumRecs \in Nat
  BY Limits DEF Base
<1> QED BY <1>1, <1>2, <1>3

\* Files and workers as they were, and no new rows.
LEMMA FilesFrame ==
    ASSUME Base, FilesInv, UNCHANGED <<setup, file, format, misfiled, writes, pc, verdict, crashes>>,
           rows' \subseteq rows, fails' = fails \/ fails' = fails + 1,
           \A t \in Tasks : pc[t] # "off" => rec'[t] = rec[t]
    PROVE  FilesInv'
<1>0. rows \subseteq Recs /\ fails \in Nat
  BY RowsAre
<1> USE <1>0
<1>1. \A r : WorkersOf(r)' = WorkersOf(r)
  BY DEF WorkersOf, Tasks
<1>2. \A r : (Between(r)' <=> Between(r)) /\ (Committed(r)' <=> Committed(r))
  BY <1>1 DEF Between, Committed
<1>3. Unshared' = Unshared /\ (BackupSafe' => BackupSafe) /\ Recs' = Recs /\ Tasks' = Tasks
  BY DEF Unshared, MaxWorkers, Callers, BackupSafe, Recs, Tasks
<1>4. Writers'
  BY <1>3 DEF FilesInv, Writers
<1>5. Unshared => (\A r \in Recs : CleanAt(r)') /\ (\A t \in Tasks : pc'[t] # "off" => AtWorkOf(t)')
  BY DEF FilesInv, CleanAt, AtWorkOf
<1>6. Unshared /\ BackupSafe' => \A r \in rows' : HeldAt(r)'
  BY <1>2, <1>3 DEF FilesInv, HeldAt
<1>7. Unshared /\ BackupSafe' /\ crashes = 0 => \A r \in rows' : FormattedAt(r)'
  BY <1>2, <1>3 DEF FilesInv, FormattedAt
<1> QED BY <1>3, <1>4, <1>5, <1>6, <1>7 DEF FilesInv

LEMMA ServiceFiles ==
    ASSUME Base, FilesInv, UNCHANGED setup, Service
    PROVE  FilesInv'
<1>0. fails \in Nat
  <2>1. fails \in 0..setup.fails /\ setup.fails \in Nat
    BY Limits DEF Base, TypeOK
  <2> QED BY <2>1
<1> USE <1>0 DEF recVars, rowVars, taskVars, workVars, countVars
<1>1. CASE ~StartWorker
  <2>1. /\ UNCHANGED <<file, rows, format, misfiled, writes, pc, verdict, crashes, rec>>
        /\ fails' = fails \/ fails' = fails + 1
    BY <1>1 DEF Service, Tick, Dequeue, CancelRow, Stopped, Fault
  <2> QED BY <2>1, FilesFrame
<1>2. CASE StartWorker
  <2>1. UNCHANGED <<file, rows, format, misfiled, writes, verdict, crashes, fails, rec>>
           /\ pc' = [pc EXCEPT ![disp.task] = "stat"] /\ disp.task \in Tasks /\ pc[disp.task] = "off"
    <3>1. disp.task \in Tasks /\ pc[disp.task] = "off"
      BY <1>2 DEF StartWorker, Base, Known, TypeOK, None, Tasks
    <3> QED BY <1>2, <3>1 DEF StartWorker
  <2>2. pc \in [Tasks -> Places] /\ Tasks' = Tasks /\ Recs' = Recs
    BY DEF Base, TypeOK, Tasks, Recs
  <2>3. \A u \in Tasks : pc'[u] # pc[u] => pc[u] = "off" /\ pc'[u] = "stat"
    BY <2>1, <2>2
  <2>4. \A r : /\ Between(r)' <=> Between(r)
               /\ Committed(r)' <=> Committed(r)
    BY <2>1, <2>2, <2>3 DEF Between, Committed, WorkersOf
  <2>5. Unshared' = Unshared /\ BackupSafe' = BackupSafe
    BY <2>1 DEF Unshared, MaxWorkers, Callers, BackupSafe
  <2>6. Writers'
    BY <2>1, <2>2, <2>3 DEF FilesInv, Writers
  <2>7. Unshared => (\A r \in Recs : CleanAt(r)') /\ (\A t \in Tasks : pc'[t] # "off" => AtWorkOf(t)')
    BY <2>1, <2>2, <2>3 DEF FilesInv, CleanAt, AtWorkOf
  <2>8. Unshared /\ BackupSafe => \A r \in rows : HeldAt(r)'
    BY <2>1, <2>4 DEF FilesInv, HeldAt
  <2>9. Unshared /\ BackupSafe /\ crashes = 0 => \A r \in rows : FormattedAt(r)'
    BY <2>1, <2>4 DEF FilesInv, FormattedAt
  <2> QED BY <2>1, <2>2, <2>5, <2>6, <2>7, <2>8, <2>9 DEF FilesInv
<1> QED BY <1>1, <1>2

LEMMA PostFiles ==
    ASSUME Base, Announced, FilesInv, UNCHANGED setup, Posting
    PROVE  FilesInv'
<1>0. fails \in Nat
  <2>1. fails \in 0..setup.fails /\ setup.fails \in Nat
    BY Limits DEF Base, TypeOK
  <2> QED BY <2>1
<1> USE <1>0 DEF recVars, rowVars, taskVars, workVars, countVars
<1>1. CASE ~SegmentCompleted
  <2>1. UNCHANGED <<file, rows, format, misfiled, writes, pc, verdict, crashes, rec>> /\ (fails' = fails \/ fails' = fails + 1)
    BY <1>1 DEF Posting, PostTask, RetryTask, Backfill, Admitted, Fault
  <2> QED BY <2>1, FilesFrame
<1>2. CASE SegmentCompleted
  <2> DEFINE new == announced + 1
  <2>1. /\ UNCHANGED <<format, misfiled, writes, pc, verdict, crashes, rec>> /\ (fails' = fails \/ fails' = fails + 1)
        /\ rows' = rows \cup {new} /\ file' = [file EXCEPT ![new]["input"] = "orig"]
    BY <1>2 DEF SegmentCompleted, Admitted, Fault
  <2>2. new \in Recs /\ new > announced /\ announced \in Nat
    <3>1. announced < setup.recs /\ announced \in Nat /\ setup.recs \in 0..NumRecs /\ NumRecs \in Nat
             /\ Recs = 1..NumRecs
      BY <1>2, Numbers, SetupFacts DEF SegmentCompleted, Base
    <3> QED BY <3>1
  <2>3. file \in [Recs -> [Names -> Contents]] /\ Tasks' = Tasks /\ Recs' = Recs
    BY DEF Base, TypeOK, Tasks, Recs
  <2>4. format[new] = "old" /\ \A t \in Tasks : rec[t] # new
    BY <2>2 DEF Announced
  <2> HIDE DEF new
  <2>5. /\ \A s \in Recs : s # new => file'[s] = file[s]
        /\ file'[new]["input"] = "orig" /\ file'[new]["output"] = file[new]["output"]
        /\ file'[new]["tmp"] = file[new]["tmp"] /\ file'[new]["bak"] = file[new]["bak"]
    BY <2>1, <2>2, <2>3 DEF Names
  <2>6. \A r : /\ WorkersOf(r)' = WorkersOf(r)
               /\ Between(r)' <=> Between(r)
               /\ Committed(r)' <=> Committed(r)
    BY <2>1 DEF Between, Committed, WorkersOf, Tasks
  <2>7. WorkersOf(new) = {} /\ ~Between(new) /\ ~Committed(new)
    BY <2>4 DEF Between, Committed, WorkersOf
  <2>8. Unshared' = Unshared /\ (BackupSafe' => BackupSafe) /\ rows \subseteq Recs
    <3>1. rows \subseteq 1..announced /\ announced \in 0..NumRecs
      BY DEF Base, TypeOK
    <3>2. rows \subseteq Recs
      BY <3>1, Limits DEF Base
    <3> QED BY <2>1, <3>2 DEF Unshared, MaxWorkers, Callers, BackupSafe
  <2>9. Writers'
    BY <2>1, <2>3 DEF FilesInv, Writers
  <2>10. Unshared => \A r \in Recs : CleanAt(r)'
    <3> SUFFICES ASSUME Unshared, NEW r \in Recs
                 PROVE  CleanAt(r)'
      OBVIOUS
    <3>1. CleanAt(r)
      BY DEF FilesInv
    <3>2. CASE r = new
      BY <2>5, <3>1, <3>2 DEF CleanAt, Whole
    <3>3. CASE r # new
      BY <2>5, <3>1, <3>3 DEF CleanAt
    <3> QED BY <3>2, <3>3
  <2>11. Unshared => \A t \in Tasks : pc'[t] # "off" => AtWorkOf(t)'
    <3> SUFFICES ASSUME Unshared, NEW t \in Tasks, pc'[t] # "off"
                 PROVE  AtWorkOf(t)'
      OBVIOUS
    <3>1. AtWorkOf(t) /\ rec[t] \in Recs /\ rec[t] # new
      BY <2>1, <2>4, AtRecording DEF FilesInv
    <3>2. file'[rec[t]] = file[rec[t]] /\ (rec[t] \in rows' => rec[t] \in rows)
      BY <2>1, <2>5, <3>1
    <3> QED BY <2>1, <3>1, <3>2 DEF AtWorkOf
  <2>12. Unshared /\ BackupSafe' => \A r \in rows' : HeldAt(r)'
    <3> SUFFICES ASSUME Unshared, BackupSafe', NEW r \in rows'
                 PROVE  HeldAt(r)'
      OBVIOUS
    <3>1. CASE r = new
      BY <2>5, <3>1 DEF HeldAt
    <3>2. CASE r # new
      <4>1. r \in rows /\ HeldAt(r)
        BY <2>1, <2>8, <3>2 DEF FilesInv
      <4> QED BY <2>1, <2>5, <2>6, <2>8, <3>2, <4>1 DEF HeldAt
    <3> QED BY <3>1, <3>2
  <2>13. Unshared /\ BackupSafe' /\ crashes' = 0 => \A r \in rows' : FormattedAt(r)'
    <3> SUFFICES ASSUME Unshared, BackupSafe', crashes' = 0, NEW r \in rows'
                 PROVE  FormattedAt(r)'
      OBVIOUS
    <3>1. CASE r = new
      BY <2>1, <2>4, <2>5, <2>6, <2>7, <3>1 DEF FormattedAt, FormatOf
    <3>2. CASE r # new
      <4>1. r \in rows /\ FormattedAt(r)
        BY <2>1, <2>8, <3>2 DEF FilesInv
      <4> QED BY <2>1, <2>5, <2>6, <2>8, <3>2, <4>1 DEF FormattedAt
    <3> QED BY <3>1, <3>2
  <2> QED BY <2>3, <2>8, <2>9, <2>10, <2>11, <2>12, <2>13 DEF FilesInv
<1> QED BY <1>1, <1>2

LEMMA InsertFiles ==
    ASSUME Base, FilesInv, UNCHANGED setup, NEW c \in Callers, InsertTasks(c)
    PROVE  FilesInv'
<1>1. UNCHANGED <<file, rows, format, misfiled, writes, pc, verdict, crashes, fails>> /\ fails \in Nat
  <2>1. fails \in 0..setup.fails /\ setup.fails \in Nat
    BY Limits DEF Base, TypeOK
  <2> QED BY <2>1 DEF InsertTasks, recVars, rowVars, workVars, countVars
<1>2. ASSUME NEW t \in Tasks, pc[t] # "off"
      PROVE  rec'[t] = rec[t]
  <2>1. t <= last /\ t \in Nat /\ last \in Nat
    BY <1>2, AtRecording, Numbers DEF Base
  <2> QED BY <2>1, Inserted
<1> QED BY <1>1, <1>2, FilesFrame

LEMMA CrashFiles ==
    ASSUME Base, FilesInv, UNCHANGED setup, Crash
    PROVE  FilesInv'
<1>1. /\ UNCHANGED <<file, rows, format, misfiled, fails, rec>> /\ crashes \in Nat /\ crashes' > 0 /\ Tasks' = Tasks
      /\ Recs' = Recs /\ \A t \in Tasks : pc'[t] = "off" /\ writes'[t] = "no"
  <2>1. crashes \in 0..setup.crashes /\ setup.crashes \in Nat
    BY Limits DEF Base, TypeOK
  <2> QED BY <2>1 DEF Crash, recVars, rowVars, Tasks, Recs
<1>2. Unshared' = Unshared /\ (BackupSafe' => BackupSafe /\ ~setup.sweeping) /\ setup.sweeping \in BOOLEAN
  <2>1. setup.sweeping \in BOOLEAN
    BY Numbers, SetupFacts DEF Base
  <2> QED BY <1>1, <2>1 DEF Unshared, MaxWorkers, Callers, BackupSafe
<1>3. Writers'
  BY <1>1 DEF Writers
<1>4. Unshared => (\A r \in Recs : CleanAt(r)') /\ (\A t \in Tasks : pc'[t] # "off" => AtWorkOf(t)')
  BY <1>1 DEF FilesInv, CleanAt
<1>5. Unshared /\ BackupSafe' => \A r \in rows : HeldAt(r)'
  <2> SUFFICES ASSUME Unshared, BackupSafe', NEW r \in rows
               PROVE  HeldAt(r)'
    OBVIOUS
  <2>1. HeldAt(r)
    BY <1>2 DEF FilesInv
  <2>2. CASE Between(r)
    <3>1. PICK t \in Tasks : rec[t] = r /\ pc[t] \in {"commit", "back"}
      BY <2>2 DEF Between, WorkersOf
    <3>2. AtWorkOf(t)
      BY <3>1 DEF FilesInv
    <3>3. file[r]["bak"] # "none"
      BY <1>2, <3>1, <3>2 DEF AtWorkOf
    <3> QED BY <1>1, <1>2, <3>3 DEF HeldAt
  <2>3. CASE ~Between(r)
    BY <1>1, <1>2, <2>1, <2>3 DEF HeldAt
  <2> QED BY <2>2, <2>3
<1> QED BY <1>1, <1>2, <1>3, <1>4, <1>5 DEF FilesInv

LEMMA StartFiles ==
    ASSUME Base, FilesInv, UNCHANGED setup, NEW old \in SUBSET With({"running"}), Start(old)
    PROVE  FilesInv'
<1>1. /\ UNCHANGED <<rows, format, misfiled, fails, rec, pc, writes, verdict, crashes>> /\ Tasks' = Tasks /\ Recs' = Recs
      /\ \A t \in Tasks : pc[t] = "off"
  BY DEF Start, rowVars, taskVars, workVars, countVars, Base, Known, TypeOK, Tasks, Recs
<1>2. \A r \in Recs : /\ file'[r]["input"] = file[r]["input"] /\ file'[r]["bak"] = file[r]["bak"]
                      /\ file'[r]["tmp"] = file[r]["tmp"]
                      /\ file'[r]["output"] = file[r]["output"] \/ file'[r]["output"] = "none"
  <2> SUFFICES ASSUME NEW r \in Recs
               PROVE  /\ file'[r]["input"] = file[r]["input"] /\ file'[r]["bak"] = file[r]["bak"]
                      /\ file'[r]["tmp"] = file[r]["tmp"]
                      /\ file'[r]["output"] = file[r]["output"] \/ file'[r]["output"] = "none"
    OBVIOUS
  <2>1. file'[r] = IF r \in Listed THEN file[r] ELSE [file[r] EXCEPT !["output"] = "none"]
    BY DEF Start
  <2>2. file[r] \in [Names -> Contents]
    BY DEF Base, TypeOK
  <2> QED BY <2>1, <2>2 DEF Names
<1>3. rows \subseteq Recs
  <2>1. rows \subseteq 1..announced /\ announced \in 0..NumRecs
    BY DEF Base, TypeOK
  <2> QED BY <2>1, Limits DEF Base
<1>4. Unshared' = Unshared /\ BackupSafe' = BackupSafe
  BY <1>1 DEF Unshared, MaxWorkers, Callers, BackupSafe
<1>5. \A r : ~Between(r) /\ ~Between(r)' /\ ~Committed(r) /\ ~Committed(r)'
  BY <1>1 DEF Between, Committed, WorkersOf
<1>6. Writers'
  BY <1>1 DEF Writers, FilesInv
<1>7. Unshared => (\A r \in Recs : CleanAt(r)') /\ (\A t \in Tasks : pc'[t] # "off" => AtWorkOf(t)')
  BY <1>1, <1>2 DEF FilesInv, CleanAt
<1>8. Unshared /\ BackupSafe => \A r \in rows : HeldAt(r)'
  BY <1>1, <1>2, <1>3, <1>5 DEF FilesInv, HeldAt
<1>9. Unshared /\ BackupSafe /\ crashes = 0 => \A r \in rows : FormattedAt(r)'
  BY <1>1, <1>2, <1>3, <1>5 DEF FilesInv, FormattedAt
<1> QED BY <1>1, <1>4, <1>6, <1>7, <1>8, <1>9 DEF FilesInv

\* A file goes that no row names.
LEMMA UnlinkFiles ==
    ASSUME Base, FilesInv, UNCHANGED setup, NEW r \in Recs, DeleteFile(r) \/ Sweep(r)
    PROVE  FilesInv'
<1>1. PICK n \in Names :
         /\ Unlink(r, n)
         /\ n = "input" => r \notin rows
         /\ \/ n = "input"
            \/ setup.sweeping /\ (file[r][n] = "orig" \/ WorkersOf(r) = {})
  <2>1. CASE DeleteFile(r)
    BY <2>1 DEF DeleteFile, Names, Base, TypeOK
  <2>2. CASE Sweep(r)
    BY <2>2 DEF Sweep, FilesOnly, Orphans
  <2> QED BY <2>1, <2>2
<1>2. UNCHANGED <<rows, format, misfiled, fails, rec, pc, verdict, crashes>> /\ Tasks' = Tasks /\ Recs' = Recs
  BY DEF DeleteFile, Sweep, FilesOnly, rowVars, taskVars, countVars, Tasks, Recs
<1>3. /\ file'[r][n] = "none" /\ \A m \in Names : m # n => file'[r][m] = file[r][m]
      /\ \A s \in Recs : s # r => file'[s] = file[s]
      /\ \A u \in Tasks : rec[u] # r \/ writes[u] # n => writes'[u] = writes[u]
  BY <1>1, UnlinkEffect DEF Base
<1>4. rows \subseteq Recs
  <2>1. rows \subseteq 1..announced /\ announced \in 0..NumRecs
    BY DEF Base, TypeOK
  <2> QED BY <2>1, Limits DEF Base
<1>5. Unshared' = Unshared /\ BackupSafe' = BackupSafe
  BY <1>2 DEF Unshared, MaxWorkers, Callers, BackupSafe
<1>6. \A s : /\ WorkersOf(s)' = WorkersOf(s)
             /\ Between(s)' <=> Between(s)
             /\ Committed(s)' <=> Committed(s)
  BY <1>2 DEF Between, Committed, WorkersOf
<1>7. Writers'
  BY <1>2, <1>3 DEF Writers, FilesInv, Names
<1> USE DEF Names
<1>8. Unshared => \A s \in Recs : CleanAt(s)'
  BY <1>3 DEF FilesInv, CleanAt
<1>9. Unshared => \A t \in Tasks : pc'[t] # "off" => AtWorkOf(t)'
  <2> SUFFICES ASSUME Unshared, NEW t \in Tasks, pc[t] # "off"
               PROVE  AtWorkOf(t)'
    BY <1>2
  <2>1. AtWorkOf(t) /\ rec[t] \in Recs
    BY AtRecording DEF FilesInv
  <2>2. CASE rec[t] # r
    <3>1. file'[rec[t]] = file[rec[t]] /\ writes'[t] = writes[t]
      BY <1>3, <2>1, <2>2
    <3> QED BY <1>2, <2>1, <3>1 DEF AtWorkOf
  <2>3. CASE rec[t] = r
    <3>1. t \in WorkersOf(r)
      BY <2>3 DEF WorkersOf
    <3>2. CASE n = "input"
      <4>1. writes[t] = "output" => writes'[t] = writes[t]
        BY <1>3, <3>2
      <4>2. rec'[t] = r /\ r \notin rows'
        BY <1>1, <1>2, <2>3, <3>2
      <4> QED BY <1>2, <1>3, <2>1, <2>3, <3>2, <4>1, <4>2 DEF AtWorkOf
    <3>3. CASE n # "input" /\ setup.sweeping /\ file[r][n] = "orig"
      <4>1. writes[t] = "output" /\ n # "output" => writes'[t] = writes[t]
        BY <1>3
      <4> QED BY <1>2, <1>3, <2>1, <2>3, <3>3, <4>1 DEF AtWorkOf
    <3> QED BY <1>1, <3>1, <3>2, <3>3
  <2> QED BY <2>2, <2>3
<1>10. Unshared /\ BackupSafe => \A s \in rows' : HeldAt(s)'
  <2> SUFFICES ASSUME Unshared, BackupSafe, NEW s \in rows'
               PROVE  HeldAt(s)'
    OBVIOUS
  <2>1. s \in rows /\ s \in Recs /\ HeldAt(s)
    BY <1>2, <1>4 DEF FilesInv
  <2>2. CASE s # r
    BY <1>2, <1>3, <1>6, <2>1, <2>2 DEF HeldAt
  <2>3. CASE s = r
    BY <1>1, <1>2, <1>3, <1>6, <2>1, <2>3 DEF HeldAt
  <2> QED BY <2>2, <2>3
<1>11. Unshared /\ BackupSafe /\ crashes = 0 => \A s \in rows' : FormattedAt(s)'
  <2> SUFFICES ASSUME Unshared, BackupSafe, crashes = 0, NEW s \in rows'
               PROVE  FormattedAt(s)'
    OBVIOUS
  <2>1. s \in rows /\ s \in Recs /\ FormattedAt(s)
    BY <1>2, <1>4 DEF FilesInv
  <2>2. CASE s # r
    BY <1>2, <1>3, <1>6, <2>1, <2>2 DEF FormattedAt
  <2>3. CASE s = r
    BY <1>1, <1>2, <1>3, <1>6, <2>1, <2>3 DEF FormattedAt
  <2> QED BY <2>2, <2>3
<1> QED BY <1>2, <1>5, <1>7, <1>8, <1>9, <1>10, <1>11 DEF FilesInv

LEMMA OuterFiles ==
    ASSUME Base, FilesInv, UNCHANGED setup, Outer
    PROVE  FilesInv'
<1>1. CASE Stop \/ (\E t \in Tasks : CancelJob(t) \/ JobTimeout(t)) \/ \E r \in Recs : DeleteRow(r)
  <2>1. UNCHANGED <<file, format, misfiled, writes, pc, verdict, crashes, fails, rec>> /\ rows' \subseteq rows
    BY <1>1 DEF Stop, CancelJob, JobTimeout, DeleteRow, recVars, rowVars, taskVars, workVars, countVars
  <2> QED BY <2>1, FilesFrame
<1> QED BY <1>1, CrashFiles, StartFiles, UnlinkFiles DEF Outer

LEMMA FilesStep ==
    ASSUME Base, Slots, Announced, FilesInv, Move, UNCHANGED setup
    PROVE  FilesInv'
BY MoveKinds, ServiceFiles, PostFiles, InsertFiles, OuterFiles, WorkerFiles

-----------------------------------------------------------------------------
(* Outputs *)

\* An output is there because a task is.
OutputKnown == \A r \in Recs : file[r]["output"] # "none" => \E t \in 1..last : rec[t] = r

\* What becomes of an output that no worker is at.
LEMMA OutputFrame ==
    ASSUME Base, OutputKnown, Move, UNCHANGED setup, NEW r \in Recs, WorkersOf(r) = {}
    PROVE  \/ file'[r]["output"] = file[r]["output"]
           \/ \E old \in SUBSET With({"running"}) : Start(old) /\ r \notin Listed /\ file'[r]["output"] = "none"
           \/ setup.sweeping /\ file'[r]["output"] = "none"
<1>1. file \in [Recs -> [Names -> Contents]] /\ "output" \in Names /\ "input" \in Names
  BY DEF Base, TypeOK, Names
<1> USE <1>1 DEF recVars, rowVars
<1>2. CASE Service
  BY <1>2 DEF Service, Tick, Dequeue, StartWorker, CancelRow, Stopped
<1>3. CASE Posting
  <2>1. CASE SegmentCompleted
    <3>1. file' = [file EXCEPT ![announced + 1]["input"] = "orig"]
      BY <2>1 DEF SegmentCompleted
    <3> QED BY <3>1
  <2> QED BY <1>3, <2>1 DEF Posting, PostTask, RetryTask, Backfill
<1>4. CASE \E c \in Callers : InsertTasks(c)
  BY <1>4 DEF InsertTasks
<1>5. ASSUME NEW t \in Tasks, Worker(t) \/ StartFails(t) \/ Progress(t)
      PROVE  file'[r]["output"] = file[r]["output"]
  <2>1. LocalTo(t) /\ rec[t] # r
    BY <1>5, WorkerLocal DEF WorkersOf
  <2> QED BY <2>1 DEF LocalTo
<1>6. CASE Outer
  <2>1. CASE Stop \/ Crash \/ \E t \in Tasks : CancelJob(t) \/ JobTimeout(t)
    BY <2>1 DEF Stop, Crash, CancelJob, JobTimeout
  <2>2. ASSUME NEW old \in SUBSET With({"running"}), Start(old)
        PROVE  file'[r]["output"] = file[r]["output"] \/ (r \notin Listed /\ file'[r]["output"] = "none")
    BY <2>2 DEF Start
  <2>3. ASSUME NEW s \in Recs, DeleteRow(s) \/ DeleteFile(s)
        PROVE  file'[r]["output"] = file[r]["output"]
    <3>1. file' = file \/ file' = [file EXCEPT ![s]["input"] = "none"]
      BY <2>3 DEF DeleteRow, DeleteFile, Unlink
    <3> QED BY <3>1
  <2>4. ASSUME NEW s \in Recs, Sweep(s)
        PROVE  setup.sweeping /\ (file'[r]["output"] = file[r]["output"] \/ file'[r]["output"] = "none")
    <3>1. PICK n \in Names : file' = [file EXCEPT ![s][n] = "none"]
      BY <2>4 DEF Sweep, Orphans, Unlink
    <3> QED BY <2>4, <3>1 DEF Sweep
  <2> QED BY <1>6, <2>1, <2>2, <2>3, <2>4 DEF Outer
<1> QED BY <1>2, <1>3, <1>4, <1>5, <1>6, MoveKinds

LEMMA OutputStep ==
    ASSUME Base, OutputKnown, Move, UNCHANGED setup
    PROVE  OutputKnown'
<1> SUFFICES ASSUME NEW r \in Recs, file'[r]["output"] # "none"
             PROVE  \E t \in 1..last' : rec'[t] = r
  BY DEF OutputKnown, Recs
<1>1. last \in Nat /\ last <= MaxTasks /\ Tasks = 1..MaxTasks /\ MaxTasks \in Nat
  BY Limits DEF Base
<1>2. \A t \in 1..last : t \in Tasks /\ t \in 1..last' /\ rec'[t] = rec[t]
  <2>1. CASE \E c \in Callers : InsertTasks(c)
    <3>1. PICK c \in Callers : InsertTasks(c)
      BY <2>1
    <3>2. Cardinality(post[c]) \in Nat /\ last' = last + Cardinality(post[c])
             /\ \A t \in Tasks : ~ (t > last /\ t <= last + Cardinality(post[c])) => rec'[t] = rec[t]
      BY <3>1, Inserted
    <3> QED BY <1>1, <3>2
  <2>2. CASE ~\E c \in Callers : InsertTasks(c)
    <3>1. UNCHANGED <<last, rec>>
      <4> USE DEF taskVars
      <4>1. CASE Service
        BY <4>1 DEF Service, Tick, Dequeue, StartWorker, CancelRow, Stopped
      <4>2. CASE Posting
        BY <4>2 DEF Posting, SegmentCompleted, PostTask, RetryTask, Backfill
      <4>3. CASE Outer
        BY <4>3 DEF Outer, CancelJob, JobTimeout, Stop, Crash, Start, DeleteRow, DeleteFile, Sweep, FilesOnly
      <4>4. ASSUME NEW t \in Tasks, Worker(t) \/ StartFails(t) \/ Progress(t)
            PROVE  UNCHANGED <<last, rec>>
        BY <4>4, WorkerLocal DEF LocalTo
      <4> QED BY <2>2, <4>1, <4>2, <4>3, <4>4, MoveKinds
    <3> QED BY <1>1, <3>1
  <2> QED BY <2>1, <2>2
<1>3. \E t \in 1..last : rec[t] = r
  <2>1. CASE WorkersOf(r) = {}
    <3>1. file[r]["output"] # "none"
      BY <2>1, OutputFrame
    <3> QED BY <3>1 DEF OutputKnown
  <2>2. CASE WorkersOf(r) # {}
    <3>1. PICK t \in Tasks : rec[t] = r /\ pc[t] # "off"
      BY <2>2 DEF WorkersOf
    <3> QED BY <3>1, AtRecording
  <2> QED BY <2>1, <2>2
<1> QED BY <1>2, <1>3

\* The clean-up at the start lists all tasks, and leaves their outputs.
LEMMA OutputStays ==
    ASSUME Base, OutputKnown, Next, ~setup.sweeping, last <= setup.window,
           NEW r \in rows, file[r]["output"] = "whole", WorkersOf(r) = {}
    PROVE  file'[r]["output"] = "whole"
<1>1. Move /\ UNCHANGED setup
  BY DEF Next
<1>2. r \in Recs
  <2>1. rows \subseteq 1..announced /\ announced \in 0..NumRecs
    BY DEF Base, TypeOK
  <2> QED BY <2>1, Limits DEF Base
<1>3. PICK t \in 1..last : rec[t] = r
  BY <1>2 DEF OutputKnown
<1>4. setup.window \in Nat /\ last \in Nat
  BY Numbers, SetupFacts DEF Base
<1>5. r \in Listed
  <2>1. t > last - setup.window
    BY <1>3, <1>4
  <2> QED BY <1>3, <2>1 DEF Listed
<1> QED BY <1>1, <1>2, <1>5, OutputFrame

-----------------------------------------------------------------------------
(* The theorems *)

\* Types, slots, causes and the backlog; files, and the tasks outputs are of.
QueueInv ==
    /\ Base /\ Slots /\ Cause /\ DoomedBounded /\ QueueBounded
    /\ Announced /\ FilesInv /\ OutputKnown

LEMMA InitQueueInv == Init => QueueInv
<1> SUFFICES ASSUME Init
             PROVE  QueueInv
  OBVIOUS
<1>1. Base
  BY InitBase
<1>2. /\ MaxWorkers \in Nat /\ MaxPending \in Nat /\ MaxPending > 0 /\ Recs = 1..NumRecs /\ NumRecs \in Nat
  BY <1>1, Numbers, SetupFacts DEF Base
<1>3. Slots
  BY <1>2, FS_EmptySet DEF Init, Slots, Idle
<1>4. Cause
  BY DEF Init, Cause, None
<1>5. Doomed = {} /\ With({"pending"}) = {} /\ Counting = {}
  BY DEF Init, Doomed, Stranded, With, Counting, Callers
<1>6. Lost = 0
  BY <1>2 DEF Init, Lost
<1>7. Cardinality(Callers) \in Nat /\ fails = 0
  BY <1>1, DoomedFinite DEF Init
<1>8. DoomedBounded
  BY <1>5, <1>6, <1>7, FS_EmptySet DEF DoomedBounded
<1>9. QueueBounded
  <2>1. \A c \in Callers : \A r, s \in post[c] : r = s
    BY DEF Init, Callers
  <2>2. 0 <= MaxPending + Cardinality(Callers) - 1 + fails + Lost
    BY <1>2, <1>6, <1>7
  <2>3. Cardinality(With({"pending"})) + Cardinality(Doomed) + Cardinality(Counting) = 0
    BY <1>5, FS_EmptySet
  <2> QED BY <2>1, <2>2, <2>3 DEF QueueBounded
<1>10. Announced
  BY <1>2 DEF Init, Announced, Callers, None
<1>11. FilesInv
  <2>1. Writers /\ \A r \in Recs : CleanAt(r)
    BY DEF Init, Writers, CleanAt, NoFiles, Names
  <2> QED BY <2>1 DEF Init, FilesInv
<1>12. OutputKnown
  BY DEF Init, OutputKnown, NoFiles, Names
<1> QED BY <1>1, <1>3, <1>4, <1>8, <1>9, <1>10, <1>11, <1>12 DEF QueueInv

LEMMA StepQueueInv == QueueInv /\ [Next]_vars => QueueInv'
<1> SUFFICES ASSUME QueueInv, [Next]_vars
             PROVE  QueueInv'
  OBVIOUS
<1>0. Base'
  BY NextBase DEF QueueInv
<1>1. CASE Next
  <2>1. Move /\ UNCHANGED setup
    BY <1>1 DEF Next
  <2> QED BY <1>0, <2>1, SlotsStep, CauseStep, DoomedStep, QueueStep, AnnouncedStep,
             FilesStep, OutputStep DEF QueueInv
<1>2. CASE UNCHANGED vars
  <2> USE DEF vars, moving, recVars, rowVars, taskVars, workVars, countVars
  <2>0. fails \in Nat
    <3>1. fails \in 0..setup.fails /\ setup.fails \in Nat
      BY Limits DEF Base, TypeOK, QueueInv
    <3> QED BY <3>1
  <2>1. Slots' /\ Cause' /\ OutputKnown'
    BY <1>2 DEF QueueInv, Slots, Cause, OutputKnown, MaxWorkers
  <2>2. Doomed' = Doomed /\ With({"pending"})' = With({"pending"}) /\ Counting' = Counting /\ Lost' = Lost
    BY <1>2 DEF Doomed, Stranded, With, Counting, Lost, Callers, MaxWorkers
  <2>3. DoomedBounded' /\ QueueBounded'
    BY <1>2, <2>2 DEF QueueInv, DoomedBounded, QueueBounded, Callers, MaxPending
  <2>4. Announced'
    BY <1>2 DEF QueueInv, Announced, Callers
  <2>5. FilesInv'
    BY <1>2, <2>0, FilesFrame DEF QueueInv
  <2> QED BY <1>0, <2>1, <2>3, <2>4, <2>5 DEF QueueInv
<1> QED BY <1>1, <1>2

THEOREM QueueInvariant == Spec => []QueueInv
BY InitQueueInv, StepQueueInv, PTL DEF Spec

LEMMA FilesOf ==
    ASSUME QueueInv
    PROVE  InputWhole /\ FootageKept /\ InPlace
<1>1. rows \subseteq Recs
  <2>1. rows \subseteq 1..announced /\ announced \in 0..NumRecs
    BY DEF QueueInv, Base, TypeOK
  <2> QED BY <2>1, Limits DEF QueueInv, Base
<1>2. InputWhole
  BY DEF QueueInv, FilesInv, InputWhole, CleanAt
<1>3. FootageKept
  <2> SUFFICES ASSUME Unshared, BackupSafe, NEW r \in rows
               PROVE  \E n \in Names : file[r][n] \in Whole
    BY DEF FootageKept
  <2>1. HeldAt(r) /\ CleanAt(r)
    BY <1>1 DEF QueueInv, FilesInv
  <2>2. CASE Between(r)
    <3>1. PICK t \in Tasks : rec[t] = r /\ pc[t] \in {"commit", "back"}
      BY <2>2 DEF Between, WorkersOf
    <3>2. file[r]["tmp"] = "whole"
      BY <3>1 DEF QueueInv, FilesInv, AtWorkOf
    <3> QED BY <3>2 DEF Names, Whole
  <2> QED BY <2>1, <2>2 DEF HeldAt, CleanAt, Names
<1>4. InPlace
  <2> SUFFICES ASSUME Unshared, BackupSafe, crashes = 0, NEW r \in rows, WorkersOf(r) = {}
               PROVE  /\ file[r]["input"] # "none" \/ fails > 1
                      /\ \/ format[r] = IF file[r]["input"] = "orig" THEN "old" ELSE "new"
                         \/ r \in misfiled \/ file[r]["input"] = "none"
    BY DEF InPlace
  <2>1. HeldAt(r) /\ FormattedAt(r)
    BY DEF QueueInv, FilesInv
  <2>2. ~Between(r) /\ ~Committed(r)
    BY DEF Between, Committed
  <2>3. file[r]["input"] # "none" \/ fails > 1
    BY <2>1, <2>2 DEF HeldAt
  <2>4. \/ format[r] = IF file[r]["input"] = "orig" THEN "old" ELSE "new"
        \/ r \in misfiled \/ file[r]["input"] = "none"
    BY <2>1, <2>2 DEF FormattedAt, FormatOf
  <2> QED BY <2>3, <2>4
<1> QED BY <1>2, <1>3, <1>4

LEMMA BooksOf ==
    ASSUME QueueInv
    PROVE  TypeOK /\ WorkersBounded /\ BacklogBounded /\ CancelledForCause
<1>1. TypeOK /\ BacklogBounded
  BY Backlog DEF QueueInv, Base
<1>2. WorkersBounded
  <2>1. active = {t \in Tasks : pc[t] # "off"} /\ disp.slots \in Nat /\ Cardinality(active) \in Nat /\ MaxWorkers \in Nat
    <3>1. disp \in [slots : 0..MaxWorkers, task : 0..MaxTasks] /\ MaxWorkers \in Nat
             /\ active = {t \in Tasks : pc[t] # "off"}
      BY <1>1, Limits DEF TypeOK
    <3> QED BY <1>1, <3>1, Numbers
  <2>2. Cardinality(active) <= MaxWorkers
    BY <2>1 DEF QueueInv, Slots
  <2> QED BY <2>1, <2>2 DEF WorkersBounded
<1>3. CancelledForCause
  BY DEF QueueInv, Cause, CancelledForCause, With
<1> QED BY <1>1, <1>2, <1>3

\* The queue keeps its books (Inv): types are right, no more workers run than
\* are configured, the backlog exceeds its cap by no more than its callers,
\* failed counts and writes and restarts account for, a recording nobody works
\* on is in its place, with its format in its row unless that update failed
\* (replaceOriginal, queue.go:703-708), and a cancel has a cause.
THEOREM BooksKept == Spec => []Inv
<1>1. QueueInv => Inv
  BY FilesOf, BooksOf DEF Inv
<1> QED BY <1>1, QueueInvariant, PTL

\* What is at a recording's path is never a file that ffmpeg has not finished,
\* whatever fails, is cancelled, times out or crashes.
THEOREM InputsWhole == Spec => []InputWhole
<1>1. QueueInv => InputWhole
  BY FilesOf
<1> QED BY <1>1, QueueInvariant, PTL

\* At every moment of a replacement some name holds the footage whole.
THEOREM FootageStays == Spec => []FootageKept
<1>1. QueueInv => FootageKept
  BY FilesOf
<1> QED BY <1>1, QueueInvariant, PTL

\* A finished output beside its original stays there.
THEOREM OutputsKept == Spec => OutputKept
<1>1. QueueInv /\ [Next]_vars =>
        [~setup.sweeping /\ last <= setup.window =>
            \A r \in rows : file[r]["output"] = "whole" /\ WorkersOf(r) = {} =>
                file'[r]["output"] = "whole" \/ WorkersOf(r)' # {}]_vars
  <2> SUFFICES ASSUME QueueInv, Next, ~setup.sweeping, last <= setup.window,
                      NEW r \in rows, file[r]["output"] = "whole", WorkersOf(r) = {}
               PROVE  file'[r]["output"] = "whole"
    OBVIOUS
  <2> QED BY OutputStays DEF QueueInv
<1> QED BY <1>1, QueueInvariant, PTL DEF Spec, OutputKept

===============================================================================
