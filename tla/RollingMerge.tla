---------------------------- MODULE RollingMerge ----------------------------
(***************************************************************************)
(* The merging of a camera's segments into larger files.                   *)
(*                                                                         *)
(*   live       SegmentCompleted, debounce, mergeSegments: a run of        *)
(*              segments is folded into the retained bucket                *)
(*              (merge/rolling_live.go, rolling_bucket*.go)                *)
(*   backfill   the sweep over pending rows: batches of segments become    *)
(*              files of their own (rolling_backfill.go, rolling_batch.go) *)
(*   legacy     the periodic MergeManager, with a lock of its own          *)
(*              (merge/manager.go)                                         *)
(*                                                                         *)
(* One camera, one window, one parameter set.  Segment s covers the time   *)
(* from s-1 to s and is file and row s; an output file and the row made    *)
(* for it share a number too, but a bucket's row moves on from file to     *)
(* file.  Files and rows survive a crash, the rest does not.               *)
(***************************************************************************)
EXTENDS Naturals, FiniteSets, FiniteSetsExt

CONSTANTS
    NumSegs,       \* bound: segments recorded
    MaxOut,        \* bound: output files and rows that exist at a time
    BatchSize,     \* segments a backfill batch takes
    Setups         \* what a camera may be set to, and what may go wrong

ASSUME RollingMergeAssumption ==
    /\ NumSegs \in Nat /\ MaxOut \in Nat
    /\ BatchSize \in Nat \ {0}
    /\ \A s \in Setups : s.holdLimit \in Nat

Segs == 1..NumSegs
Outs == NumSegs + 1..NumSegs + MaxOut
Files == Segs \cup Outs
None == 0
Engines == {"live", "backfill", "legacy"}

NoRow == [status |-> "none", file |-> None, start |-> 0, end |-> 0, wall |-> 0]
NoBucket == [file |-> None, row |-> None, start |-> 0, end |-> 0, wall |-> 0]

VARIABLES
    setup,    \* one of Setups
    recorded,     \* segments 1..recorded have been finished by the recorder
    content,      \* file -> how often each segment's samples are in it
    disk,         \* files at their final path
    row,          \* the recordings table
    aged, ancient,\* segments older than transcode_grace, than singletonPurgeAge
    task,         \* segment -> its transcode task
    queue,        \* live: segments waiting for their dispatch
    bucket, retained,  \* live: the current bucket, whether the set still holds it
    lock,         \* holder of the coordinator's merge lock
    pc, batch, out,    \* engine -> place, segments in hand, output file
    listed, free, \* backfill: rows listed, those the sweep's hold leaves free
    doomed,       \* client: file to delete after its row
    crashes, fails,
    erased        \* history: segments whose recording a client has deleted

store == <<content, disk, row>>
clock == <<aged, ancient>>
rolling == <<queue, bucket, retained>>
engine == <<lock, pc, batch, out, listed, free>>
client == <<doomed, erased>>
moving == <<recorded, store, clock, task, rolling, engine, client, crashes, fails>>
vars == <<setup, moving>>

\* The camera's settings,
Transcode == setup.transcode      \* transcoding is on
AppendBucket == setup.append      \* rolling_append_bucket is on
Legacy == setup.legacy            \* the periodic MergeManager runs too
HoldLimit == setup.holdLimit      \* tasks the transcode hold query returns

\* and what may happen.
HoldFails == setup.holdFails      \* the hold query may fail
MaxSegs == setup.segs             \* bounds: segments recorded,
MaxCrashes == setup.crashes       \* crashes,
MaxDeletes == setup.deletes       \* recordings a client deletes,
MaxFails == setup.fails           \* failed transactions and merges

Init ==
    /\ setup \in Setups
    /\ recorded = 0
    /\ content = [f \in Files |-> [s \in Segs |-> IF f = s THEN 1 ELSE 0]]
    /\ disk = {}
    /\ row = [f \in Files |-> NoRow]
    /\ aged = 0 /\ ancient = 0
    /\ task = [s \in Segs |-> "none"]
    /\ queue = {} /\ bucket = NoBucket /\ retained = FALSE
    /\ lock = "free"
    /\ pc = [e \in Engines |-> "idle"]
    /\ batch = [e \in Engines |-> {}]
    /\ out = [e \in Engines |-> None]
    /\ listed = {} /\ free = {}
    /\ doomed = None /\ erased = {}
    /\ crashes = 0 /\ fails = 0

-----------------------------------------------------------------------------
\* Rows, files and the transcode hold.

HasRow(f) == row[f].status # "none"
Pending == {s \in Segs : row[s].status = "pending"}

\* ListTranscodeTasks returns the newest tasks up to its limit.
Active == {s \in Segs : task[s] = "active"}
Held == {s \in Active : Cardinality({t \in Active : t > s}) < HoldLimit}

\* Segments of S a query of the hold lets through: none when it fails.
Unheld(S) == {S \ Held} \cup (IF HoldFails THEN {{}} ELSE {})

\* Mutant: no age rail.
FreeAnyAge(S) == S \ Held

\* The age rail: a young segment's task may not have been inserted yet.
Free(S) == IF Transcode THEN {s \in S \ Held : s <= aged} ELSE S \ Held

\* CreateSegment: a path nobody uses.
FreeOuts == {o \in Outs : /\ ~HasRow(o) /\ o \notin disk
                          /\ o \notin {bucket.file, bucket.row, doomed}
                          /\ \A e \in Engines : out[e] # o}

Samples(S) == [s \in Segs |-> IF s \in S THEN 1 ELSE 0]
Joined(f, S) == [s \in Segs |-> content[f][s] + Samples(S)[s]]

\* The row of a new bucket: from the first segment's start to the last one's end.
Span(o, S) == [status |-> "merged", file |-> o, start |-> Min(S) - 1, end |-> Max(S),
               wall |-> Max(S) - Min(S) + 1]

\* The row of a batch lasts as long as its segments do, gaps left out.
BatchRow(o, S) == [Span(o, S) EXCEPT !.wall = Cardinality(S)]

\* MergeAndReplaceRecordings, and RollingReplaceRecordings with INSERT: one
\* transaction.  The sources' rows go whether or not they are still there.
Replace(o, r, S) ==
    row' = [f \in Files |-> IF f = o THEN r ELSE IF f \in S THEN NoRow ELSE row[f]]

\* SetMergeStatus on rows that still exist.
Mark(S, status) ==
    row' = [f \in Files |-> IF f \in S /\ HasRow(f)
                            THEN [row[f] EXCEPT !.status = status] ELSE row[f]]

Goto(e, p) == pc' = [pc EXCEPT ![e] = p]
Take(e, S) == batch' = [batch EXCEPT ![e] = S]
Return(e) ==
    /\ pc' = [pc EXCEPT ![e] = "idle"]
    /\ batch' = [batch EXCEPT ![e] = {}]
    /\ out' = [out EXCEPT ![e] = None]

Fail == fails < MaxFails /\ fails' = fails + 1

-----------------------------------------------------------------------------
\* Recorder, clock, transcode queue, clients.

\* A segment is finished; its event reaches the coordinator, or is dropped.
Record ==
    /\ recorded < NumSegs /\ recorded < MaxSegs
    /\ recorded' = recorded + 1
    /\ disk' = disk \cup {recorded'}
    /\ row' = [row EXCEPT ![recorded'] = [status |-> "pending", file |-> recorded',
                                  start |-> recorded, end |-> recorded', wall |-> 1]]
    /\ queue' \in {queue, queue \cup {recorded'}}
    /\ UNCHANGED <<content, clock, task, bucket, retained, engine, client, crashes, fails>>

Age ==
    /\ \/ aged < recorded /\ aged' = aged + 1 /\ UNCHANGED ancient
       \/ ancient < aged /\ ancient' = ancient + 1 /\ UNCHANGED aged
    /\ UNCHANGED <<recorded, store, task, rolling, engine, client, crashes, fails>>

\* Tasks are inserted within transcode_grace of the segment's end.
TaskLands(s) ==
    /\ Transcode /\ task[s] = "none"
    /\ s <= recorded /\ s > aged
    /\ task' = [task EXCEPT ![s] = "active"]
    /\ UNCHANGED <<recorded, store, clock, rolling, engine, client, crashes, fails>>

TaskEnds(s) ==
    /\ task[s] = "active"
    /\ task' = [task EXCEPT ![s] = "done"]
    /\ UNCHANGED <<recorded, store, clock, rolling, engine, client, crashes, fails>>

\* handleDeleteRecording: the row first, then the file.
DeleteRow(f) ==
    /\ HasRow(f) /\ doomed = None
    /\ Cardinality(erased) < MaxDeletes
    /\ erased' = erased \cup {s \in Segs : content[row[f].file][s] > 0}
    /\ doomed' = row[f].file
    /\ row' = [row EXCEPT ![f] = NoRow]
    /\ UNCHANGED <<recorded, content, disk, clock, task, rolling, engine, crashes, fails>>

DeleteFile ==
    /\ doomed # None
    /\ disk' = disk \ {doomed}
    /\ doomed' = None
    /\ UNCHANGED <<recorded, content, row, clock, task, rolling, engine, erased, crashes, fails>>

\* The orphan scan takes a file that no row names and that was last written an
\* hour ago: an output that an engine has in hand is younger than that, and so
\* is a segment within the age rail.  It asks for no task: a source the mergers
\* have kept for one goes, the task waiting or not.
SweepOrphan(f) ==
    /\ f \in disk /\ f \in 1..aged \cup Outs
    /\ \A g \in Files : row[g].file # f
    /\ \A e \in Engines : out[e] # f
    /\ disk' = disk \ {f}
    /\ UNCHANGED <<recorded, content, row, clock, task, rolling, engine, client, crashes, fails>>

Outside ==
    \/ Record \/ Age \/ DeleteFile
    \/ \E s \in Segs : TaskLands(s) \/ TaskEnds(s)
    \/ \E f \in Files : DeleteRow(f) \/ SweepOrphan(f)

-----------------------------------------------------------------------------
\* The live engine.  Its goroutines are serialised by the lock.

\* A dispatch waits for the lock; the segments that may not be folded now are
\* left to the backfill.
LiveDispatch ==
    /\ pc["live"] = "idle" /\ lock = "free"
    /\ \E S \in SUBSET queue \ {{}} :
         /\ queue' = queue \ S
         /\ Take("live", Free(S))
    /\ lock' = "live"
    /\ Goto("live", "classify")
    /\ UNCHANGED <<recorded, store, clock, task, bucket, retained, out, listed, free, client,
                   crashes, fails>>

\* The lock was not had in two minutes, or the first hold query failed.
LiveGivesUp ==
    /\ lock # "free" \/ HoldFails
    /\ \E S \in SUBSET queue \ {{}} : queue' = queue \ S
    /\ UNCHANGED <<recorded, store, clock, task, bucket, retained, engine, client, crashes, fails>>

LiveUnlock == lock' = "free" /\ Return("live")

\* classifyForFold, and the second look at the hold in mergeRunIntoBucket.
LiveClassify ==
    /\ pc["live"] = "classify"
    /\ \E run \in Unheld(batch["live"] \cap disk) :
         IF run = {}
         THEN LiveUnlock /\ UNCHANGED <<bucket, retained>>
         ELSE /\ Take("live", run) /\ Goto("live", "merge")
              /\ UNCHANGED <<lock, out>>
              /\ \/ retained /\ UNCHANGED <<bucket, retained>>
                 \/ bucket' = NoBucket /\ retained' = TRUE  \* none, idle, or at its size limit
    /\ UNCHANGED <<recorded, store, clock, task, queue, listed, free, client, crashes, fails>>

\* Mutant: a late earlier segment does not move the row's start back.
AdvanceForward(b, S) ==
    LET end == Max({b.end, Max(S)})
        start == IF b.file = None THEN Min(S) - 1 ELSE b.start
    IN [b EXCEPT !.start = start, !.end = end, !.wall = end - start]

\* The bucket's wall axis after run S: at least the run's own footage, the gap
\* since the last end and the run's span, and never less than the row's span.
Advance(b, S) ==
    IF b.file = None
    THEN [b EXCEPT !.start = Min(S) - 1, !.end = Max(S), !.wall = Max(S) - Min(S) + 1]
    ELSE LET gap == IF Max(S) > b.end THEN Max(S) - b.end ELSE 0
             delta == Max({Cardinality(S), gap, Max(S) - Min(S) + 1})
             start == Min({b.start, Min(S) - 1})
             end == Max({b.end, Max(S)})
         IN [b EXCEPT !.start = start, !.end = end,
                      !.wall = Max({b.wall + delta, end - start})]

InPlace == AppendBucket /\ bucket.file # None

\* createBucket, appendToBucket, foldAppendBucket up to the transaction: the
\* output is written and renamed, and the bucket in memory has moved on.  Only
\* the append format renames a new bucket at the very end.
LiveMerge ==
    /\ pc["live"] = "merge"
    /\ batch["live"] \subseteq disk
    /\ bucket.file # None => bucket.file \in disk
    /\ IF InPlace
       THEN /\ content' = [content EXCEPT ![bucket.file] = Joined(bucket.file, batch["live"])]
            /\ out' = [out EXCEPT !["live"] = bucket.file]
            /\ UNCHANGED disk
       ELSE /\ FreeOuts # {}
            /\ LET o == Min(FreeOuts) IN
                 /\ content' = [content EXCEPT ![o] =
                        IF bucket.file = None THEN Samples(batch["live"])
                                              ELSE Joined(bucket.file, batch["live"])]
                 /\ out' = [out EXCEPT !["live"] = o]
                 /\ disk' = IF AppendBucket THEN disk ELSE disk \cup {o}
    /\ bucket' = Advance(bucket, batch["live"])
    /\ Goto("live", "commit")
    /\ UNCHANGED <<recorded, row, clock, task, queue, retained, lock, batch, listed, free,
                   client, crashes, fails>>

\* A bucket that was never created leaves the set.
LiveMergeFails ==
    /\ pc["live"] = "merge"
    /\ \/ Fail
       \/ /\ ~(batch["live"] \cup ({bucket.file} \ {None}) \subseteq disk) \/ FreeOuts = {}
          /\ UNCHANGED fails
    /\ retained' = (retained /\ bucket.file # None)
    /\ LiveUnlock
    /\ UNCHANGED <<recorded, store, clock, task, queue, bucket, listed, free, client, crashes>>

\* RollingReplaceRecordings.  The UPDATE of a bucket's row uses min and max on
\* the stored times, and hits nothing when the row has been deleted.
LiveCommit ==
    /\ pc["live"] = "commit"
    /\ LET S == batch["live"]
           o == out["live"]
           r == bucket.row
       IN IF bucket.file = None
          THEN Replace(o, Span(o, S), S)
          ELSE row' = [f \in Files |->
                 IF f \in S THEN NoRow
                 ELSE IF f = r /\ HasRow(r)
                 THEN [row[r] EXCEPT !.file = o, !.start = Min({@, bucket.start}),
                                     !.end = Max({@, bucket.end}), !.wall = bucket.wall]
                 ELSE row[f]]
    /\ Goto("live", "query")
    /\ UNCHANGED <<recorded, content, disk, clock, task, rolling, lock, batch, out, listed,
                   free, client, crashes, fails>>

\* Mutant: the error falls through to the deletion of the sources.
LiveCommitFailsDeletes ==
    /\ pc["live"] = "commit"
    /\ Fail
    /\ Goto("live", "query")
    /\ UNCHANGED <<recorded, store, clock, task, rolling, lock, batch, out, listed, free,
                   client, crashes>>

\* A new bucket's file is removed; the output of an append stays behind.
LiveCommitFails ==
    /\ pc["live"] = "commit"
    /\ Fail
    /\ disk' = IF bucket.file = None THEN disk \ {out["live"]} ELSE disk
    /\ retained' = (retained /\ bucket.file # None)
    /\ LiveUnlock
    /\ UNCHANGED <<recorded, content, row, clock, task, queue, bucket, listed, free, client,
                   crashes>>

\* deleteRunSources asks once more; a held source keeps its file.
LiveQuery ==
    /\ pc["live"] = "query"
    /\ \E S \in Unheld(batch["live"]) : Take("live", S)
    /\ Goto("live", "delete")
    /\ UNCHANGED <<recorded, store, clock, task, rolling, lock, out, listed, free, client,
                   crashes, fails>>

\* The sources and the bucket's previous file go, the new bucket of the append
\* format gets its name, and the bucket in memory is brought up to date.
LiveDelete ==
    /\ pc["live"] = "delete"
    /\ LET o == out["live"]
           old == IF bucket.file = o THEN {} ELSE {bucket.file}
       IN /\ disk' = (disk \ (batch["live"] \cup old))
                       \cup (IF AppendBucket /\ bucket.file = None THEN {o} ELSE {})
          /\ bucket' = [bucket EXCEPT !.file = o,
                                      !.row = IF bucket.file = None THEN o ELSE @]
    /\ LiveUnlock
    /\ UNCHANGED <<recorded, content, row, clock, task, queue, retained, listed, free,
                   client, crashes, fails>>

\* foldAppendBucket's deferred close or rename fails after all that.
LiveRenameFails ==
    /\ pc["live"] = "delete"
    /\ AppendBucket /\ bucket.file = None
    /\ Fail
    /\ disk' = disk \ batch["live"]
    /\ retained' = FALSE
    /\ LiveUnlock
    /\ UNCHANGED <<recorded, content, row, clock, task, queue, bucket, listed, free, client,
                   crashes>>

Live == \/ LiveDispatch \/ LiveGivesUp \/ LiveClassify \/ LiveMerge \/ LiveMergeFails
        \/ LiveCommit \/ LiveCommitFails \/ LiveQuery \/ LiveDelete \/ LiveRenameFails

-----------------------------------------------------------------------------
\* The backfill sweep.

\* ListPendingSegmentsForRolling; the hold and the clock are read once.
BackSweep ==
    /\ pc["backfill"] = "idle" /\ Pending # {}
    /\ listed' = Pending
    /\ free' = Free(Pending)
    /\ Goto("backfill", "sweep")
    /\ UNCHANGED <<recorded, store, clock, task, rolling, lock, batch, out, client, crashes, fails>>

Chunk == {s \in listed : Cardinality({t \in listed : t < s}) < BatchSize}
Valid == Chunk \cap free \cap disk

\* Mutant: lone segments wait for a neighbour for ever.
BackKeepSingle ==
    /\ pc["backfill"] = "sweep" /\ listed # {}
    /\ Cardinality(Valid) < 2
    /\ listed' = listed \ Chunk
    /\ UNCHANGED <<recorded, store, clock, task, rolling, lock, pc, batch, out, free, client,
                   crashes, fails>>

\* Too few to merge: left for a neighbour, or retired when long past.
BackSingle ==
    /\ pc["backfill"] = "sweep" /\ listed # {}
    /\ Cardinality(Valid) < 2
    /\ listed' = listed \ Chunk
    /\ IF Valid # {} /\ Max(Valid) <= ancient THEN Mark(Valid, "merged") ELSE UNCHANGED row
    /\ UNCHANGED <<recorded, content, disk, clock, task, rolling, lock, pc, batch, out, free,
                   client, crashes, fails>>

\* Mutant: the batch goes ahead without the lock.
BackLockless ==
    /\ pc["backfill"] = "sweep"
    /\ Cardinality(Valid) >= 2
    /\ listed' = listed \ Chunk
    /\ UNCHANGED lock /\ Take("backfill", Valid) /\ Goto("backfill", "parse")
    /\ UNCHANGED <<recorded, store, clock, task, rolling, out, free, client, crashes, fails>>

\* A try-lock; the batch is skipped when the lock is taken.
BackLock ==
    /\ pc["backfill"] = "sweep"
    /\ Cardinality(Valid) >= 2
    /\ listed' = listed \ Chunk
    /\ IF lock = "free"
       THEN lock' = "backfill" /\ Take("backfill", Valid) /\ Goto("backfill", "parse")
       ELSE UNCHANGED <<lock, batch, pc>>
    /\ UNCHANGED <<recorded, store, clock, task, rolling, out, free, client, crashes, fails>>

BackEnds ==
    /\ pc["backfill"] = "sweep" /\ listed = {}
    /\ Goto("backfill", "idle")
    /\ free' = {}
    /\ UNCHANGED <<recorded, store, clock, task, rolling, lock, batch, out, listed, client,
                   crashes, fails>>

BackUnlock ==
    /\ lock' = IF lock = "backfill" THEN "free" ELSE lock
    /\ Take("backfill", {}) /\ Goto("backfill", "reset")
    /\ out' = [out EXCEPT !["backfill"] = None]

\* mergeBatchMP4: the hold again, then the files that parse.  A survivor is
\* marked merged.
BackParse ==
    /\ pc["backfill"] = "parse"
    /\ \E kept \in Unheld(batch["backfill"]) :
         IF Cardinality(kept) < 2
         THEN BackUnlock /\ UNCHANGED row
         ELSE IF Cardinality(kept \cap disk) < 2
         THEN BackUnlock /\ Mark(kept \cap disk, "merged")
         ELSE /\ Take("backfill", kept \cap disk) /\ Goto("backfill", "merge")
              /\ UNCHANGED <<lock, out, row>>
    /\ UNCHANGED <<recorded, content, disk, clock, task, rolling, listed, free, client,
                   crashes, fails>>

\* mergeAudioRun: sources another engine has folded meanwhile are left out.
BackMerge ==
    /\ pc["backfill"] = "merge"
    /\ LET S == batch["backfill"] \cap disk IN
         IF Cardinality(S) < 2
         THEN BackUnlock /\ UNCHANGED <<content, disk>>
         ELSE /\ FreeOuts # {}
              /\ LET o == Min(FreeOuts) IN
                   /\ content' = [content EXCEPT ![o] = Samples(S)]
                   /\ disk' = disk \cup {o}
                   /\ out' = [out EXCEPT !["backfill"] = o]
              /\ Take("backfill", S) /\ Goto("backfill", "commit")
              /\ UNCHANGED lock
    /\ UNCHANGED <<recorded, row, clock, task, rolling, listed, free, client, crashes, fails>>

\* No output file, or a merge that fails and marks its sources.
BackMergeFails ==
    /\ pc["backfill"] = "merge"
    /\ \/ Fail /\ Mark(batch["backfill"], "incompatible")
       \/ FreeOuts = {} /\ UNCHANGED <<row, fails>>
    /\ BackUnlock
    /\ UNCHANGED <<recorded, content, disk, clock, task, rolling, listed, free, client, crashes>>

BackCommit ==
    /\ pc["backfill"] = "commit"
    /\ LET o == out["backfill"]
       IN Replace(o, BatchRow(o, batch["backfill"]), batch["backfill"])
    /\ Goto("backfill", "query")
    /\ UNCHANGED <<recorded, content, disk, clock, task, rolling, lock, batch, out, listed,
                   free, client, crashes, fails>>

BackCommitFails ==
    /\ pc["backfill"] = "commit"
    /\ Fail
    /\ disk' = disk \ {out["backfill"]}
    /\ BackUnlock
    /\ UNCHANGED <<recorded, content, row, clock, task, rolling, listed, free, client, crashes>>

BackQuery ==
    /\ pc["backfill"] = "query"
    /\ \E S \in Unheld(batch["backfill"]) : Take("backfill", S)
    /\ Goto("backfill", "delete")
    /\ UNCHANGED <<recorded, store, clock, task, rolling, lock, out, listed, free, client,
                   crashes, fails>>

BackDelete ==
    /\ pc["backfill"] = "delete"
    /\ disk' = disk \ batch["backfill"]
    /\ BackUnlock
    /\ UNCHANGED <<recorded, content, row, clock, task, rolling, listed, free, client,
                   crashes, fails>>

\* dropBuckets, after the lock has been released.
BackReset ==
    /\ pc["backfill"] = "reset"
    /\ retained' = FALSE
    /\ Goto("backfill", "sweep")
    /\ UNCHANGED <<recorded, store, clock, task, queue, bucket, lock, batch, out, listed,
                   free, client, crashes, fails>>

Backfill == \/ BackSweep \/ BackSingle \/ BackLock \/ BackEnds \/ BackParse \/ BackMerge
            \/ BackMergeFails \/ BackCommit \/ BackCommitFails \/ BackQuery \/ BackDelete
            \/ BackReset

-----------------------------------------------------------------------------
\* The periodic MergeManager: it does not know the coordinator's lock, nor the
\* transcode hold.

Due == {s \in Pending : s <= aged}

LegacyList ==
    /\ Legacy /\ pc["legacy"] = "idle"
    /\ Cardinality(Due) >= 2
    /\ Take("legacy", Due) /\ Goto("legacy", "parse")
    /\ UNCHANGED <<recorded, store, clock, task, rolling, lock, out, listed, free, client,
                   crashes, fails>>

\* A window with one pending segment: marked merged.
LegacySingle ==
    /\ Legacy /\ pc["legacy"] = "idle"
    /\ Cardinality(Due) = 1
    /\ Mark(Due, "merged")
    /\ UNCHANGED <<recorded, content, disk, clock, task, rolling, engine, client, crashes, fails>>

\* What does not parse has failed; what is left alone is incompatible.
LegacyParse ==
    /\ pc["legacy"] = "parse"
    /\ LET S == batch["legacy"] \cap disk
           small == IF Cardinality(S) < 2 THEN S ELSE {}
       IN /\ row' = [f \in Files |->
                 IF ~HasRow(f) THEN row[f]
                 ELSE IF f \in small THEN [row[f] EXCEPT !.status = "incompatible"]
                 ELSE IF f \in batch["legacy"] \ S THEN [row[f] EXCEPT !.status = "failed"]
                 ELSE row[f]]
          /\ IF Cardinality(S) < 2
             THEN Return("legacy")
             ELSE Take("legacy", S) /\ Goto("legacy", "merge") /\ UNCHANGED out
    /\ UNCHANGED <<recorded, content, disk, clock, task, rolling, lock, listed, free, client,
                   crashes, fails>>

LegacyMerge ==
    /\ pc["legacy"] = "merge"
    /\ IF batch["legacy"] \subseteq disk /\ FreeOuts # {}
       THEN LET o == Min(FreeOuts) IN
              /\ content' = [content EXCEPT ![o] = Samples(batch["legacy"])]
              /\ disk' = disk \cup {o}
              /\ out' = [out EXCEPT !["legacy"] = o]
              /\ Goto("legacy", "commit")
              /\ UNCHANGED batch
       ELSE Return("legacy") /\ UNCHANGED <<content, disk>>
    /\ UNCHANGED <<recorded, row, clock, task, rolling, lock, listed, free, client, crashes, fails>>

LegacyCommit ==
    /\ pc["legacy"] = "commit"
    /\ LET o == out["legacy"] IN Replace(o, BatchRow(o, batch["legacy"]), batch["legacy"])
    /\ Goto("legacy", "delete")
    /\ UNCHANGED <<recorded, content, disk, clock, task, rolling, lock, batch, out, listed,
                   free, client, crashes, fails>>

LegacyCommitFails ==
    /\ pc["legacy"] = "commit"
    /\ Fail
    /\ disk' = disk \ {out["legacy"]}
    /\ Return("legacy")
    /\ UNCHANGED <<recorded, content, row, clock, task, rolling, lock, listed, free, client,
                   crashes>>

LegacyDelete ==
    /\ pc["legacy"] = "delete"
    /\ disk' = disk \ batch["legacy"]
    /\ Return("legacy")
    /\ UNCHANGED <<recorded, content, row, clock, task, rolling, lock, listed, free, client,
                   crashes, fails>>

LegacyPass == \/ LegacyList \/ LegacySingle \/ LegacyParse \/ LegacyMerge
              \/ LegacyCommit \/ LegacyCommitFails \/ LegacyDelete

-----------------------------------------------------------------------------
\* The process dies; a file that had not been renamed is swept at the start.
Crash ==
    /\ crashes < MaxCrashes
    /\ crashes' = crashes + 1
    /\ queue' = {} /\ bucket' = NoBucket /\ retained' = FALSE
    /\ lock' = "free"
    /\ pc' = [e \in Engines |-> "idle"]
    /\ batch' = [e \in Engines |-> {}]
    /\ out' = [e \in Engines |-> None]
    /\ listed' = {} /\ free' = {} /\ doomed' = None
    /\ UNCHANGED <<recorded, store, clock, task, erased, fails>>

Next == (Outside \/ Live \/ Backfill \/ LegacyPass \/ Crash) /\ UNCHANGED setup

Spec == Init /\ [][Next]_vars

-----------------------------------------------------------------------------
\* Properties.

RowType == [status : {"none", "pending", "merged", "incompatible", "failed"},
            file : Files \cup {None}, start : Nat, end : Nat, wall : Nat]

TypeOK ==
    /\ recorded \in 0..NumSegs /\ aged \in 0..NumSegs /\ ancient \in 0..NumSegs
    /\ content \in [Files -> [Segs -> Nat]]
    /\ disk \subseteq Files
    /\ row \in [Files -> RowType]
    /\ task \in [Segs -> {"none", "active", "done"}]
    /\ queue \subseteq Segs /\ retained \in BOOLEAN
    /\ bucket \in [file : Files \cup {None}, row : Files \cup {None},
                   start : Nat, end : Nat, wall : Nat]
    /\ lock \in {"free", "live", "backfill"}
    /\ pc \in [Engines -> {"idle", "classify", "merge", "commit", "query", "delete",
                           "sweep", "parse", "reset"}]
    /\ batch \in [Engines -> SUBSET Segs]
    /\ out \in [Engines -> Files \cup {None}]
    /\ listed \subseteq Segs /\ free \subseteq Segs
    /\ doomed \in Files \cup {None} /\ erased \subseteq Segs
    /\ crashes \in Nat /\ fails \in Nat

\* The file a row leads to, if it is there.
Reaches(f, s) == HasRow(f) /\ row[f].file \in disk /\ content[row[f].file][s] > 0

\* No footage is lost by merging: through failures and crashes at any step, a
\* segment stays reachable from a row, as itself or within a merged file.
\* Not so while a client deletes recordings, or with the bucket format that is
\* appended to in place.
FootageKept ==
    ~AppendBucket /\ erased = {} => \A s \in 1..recorded : \E f \in Files : Reaches(f, s)

\* The hold query has always returned every task there was.
HoldComplete == Cardinality({s \in Segs : task[s] # "none"}) <= HoldLimit

\* No footage is shown twice: the two rolling engines never put a segment into
\* two recordings, nor twice into one.  Not so when a hold query fails half-way
\* or returns too few tasks, when the periodic manager runs too, or when a
\* bucket is appended to in place.
CoveredOnce ==
    ~AppendBucket /\ ~Legacy /\ ~HoldFails /\ HoldComplete =>
        \A s \in Segs, f, g \in Files :
            Reaches(f, s) /\ Reaches(g, s) => f = g /\ content[row[f].file][s] = 1

\* A row's times cover the segments in its file, in whatever order late
\* segments were folded, whichever transactions failed before and whatever a
\* client deletes meanwhile.  Not so when a bucket is appended to in place.
\* The duration of the bucket's row is never less than the span of its times:
\* "I1 (duration == wall span)" (rolling_bucket.go:232), as far as it holds.
RowCovers ==
    /\ ~AppendBucket =>
          \A f \in Files, s \in Segs : Reaches(f, s) => row[f].start < s /\ s <= row[f].end
    /\ bucket.row # None /\ HasRow(bucket.row) =>
          row[bucket.row].wall >= row[bucket.row].end - row[bucket.row].start

\* The rolling engines never delete the input of a queued or running transcode,
\* also of one whose task lands while its segment is being folded, as long as
\* the hold query returns every task.  The periodic manager and the orphan scan
\* do not ask.
TaskInputKept ==
    [][(Live \/ Backfill) /\ HoldComplete => Active \cap disk \subseteq disk']_vars

\* A source's row goes before its file does: whatever fails, and whichever
\* engines race, a source that is still listed can be read.
SourceRowHasFile == \A s \in Segs : HasRow(s) => s \in disk

\* Fairness: goroutines run, the clock moves, tasks end.  Nothing is assumed of
\* the recorder, of events or of clients, and a try-lock may be lost each time
\* the live engine is at work.
FairSpec ==
    /\ Spec
    /\ WF_moving(Age) /\ WF_moving(\E s \in Segs : TaskEnds(s))
    /\ WF_moving(LiveClassify) /\ WF_moving(LiveMerge \/ LiveMergeFails)
    /\ WF_moving(LiveCommit \/ LiveCommitFails) /\ WF_moving(LiveQuery)
    /\ WF_moving(LiveDelete \/ LiveRenameFails)
    /\ WF_moving(BackSweep \/ BackSingle \/ BackEnds \/ BackParse \/ BackMerge \/ BackQuery
                 \/ BackMergeFails \/ BackCommit \/ BackCommitFails \/ BackDelete \/ BackReset)
    /\ WF_moving(BackLock)
    /\ WF_moving(\E f \in Files : SweepOrphan(f))

\* The backlog drains: no segment stays pending for ever, unless the hold query
\* keeps failing.
PendingDrains == \A s \in Segs : []<>(HoldFails \/ row[s].status # "pending")
=============================================================================
