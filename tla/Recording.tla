----------------------------- MODULE Recording -----------------------------
(***************************************************************************)
(* The life of a recorded segment: temp file, final file, database row,    *)
(* and the four goroutines that create, recover and delete them.           *)
(*                                                                         *)
(*   recorder    CreateSegment, frames, FinalizeSegment                    *)
(*               (recorder/segment_finalize.go, storage/manager.go)        *)
(*   start-up    CleanupTempFiles and ReconcileOrphanedFiles, in the       *)
(*               background (app/builders_core.go)                         *)
(*   cleanup     RunOnce: retention, disk threshold, orphan files, ghost   *)
(*               rows (cleanup/*.go)                                       *)
(*   clients     the analysis service that sets ai_status                  *)
(*                                                                         *)
(* One camera.  A segment is a number; numbers grow with the segment's     *)
(* time, so "oldest" is "smallest".  The segments of Legacy are finished   *)
(* files of the old flat layout with no row; only they are in reach of     *)
(* ReconcileOrphanedFiles, which reads the camera directory's top level.   *)
(* Files and rows survive a crash, the rest does not.                      *)
(***************************************************************************)
EXTENDS Naturals, FiniteSets

CONSTANTS
    LegacyCount,     \* flat files with no row at the first start
    MaxSegs,         \* bound: segments in a behaviour, the legacy ones included
    BatchLimit,      \* rows a disk-threshold batch takes
    Threshold,       \* files the disk holds below the threshold
    MaxCrashes,      \* bound: crashes in a behaviour
    AIStatuses       \* bound: statuses the analysis service reports

ASSUME RecordingAssumption ==
    /\ LegacyCount \in Nat /\ MaxSegs \in Nat /\ LegacyCount <= MaxSegs
    /\ BatchLimit \in Nat \ {0}
    /\ Threshold \in Nat /\ MaxCrashes \in Nat
    /\ AIStatuses \subseteq {"pending", "processing", "failed", "skipped", "completed"}

Segs == 1..MaxSegs
Legacy == 1..LegacyCount
Recorded == Segs \ Legacy
NoSeg == 0

VARIABLES
    disk,       \* segment -> what its path holds: nothing, the temp or the final file
    old,        \* segments whose file was last written more than an hour ago
    row,        \* segments with a row in the recordings table
    ai,         \* the row's ai_status
    active,     \* segmentCameraMap: registered temps
    next,       \* the next segment number
    rpc, seg,   \* recorder: place in the segment's life, the segment
    sweeping, doomed,   \* CleanupTempFiles is running; the temp it will remove
    rstep, found,       \* ReconcileOrphanedFiles: next step, files to insert
    cstep, victims, refs,   \* RunOnce: next step, the batch, the rows listed
    crashes

\* History, read by no action: the open segment has gone an hour unwritten.
VARIABLE stalled

durable == <<disk, old, row, ai>>
recorder == <<active, next, rpc, seg, stalled>>
startup == <<sweeping, doomed, rstep, found>>
cleanup == <<cstep, victims, refs>>
vars == <<durable, recorder, startup, cleanup, crashes>>

Init ==
    /\ disk = [s \in Segs |-> IF s \in Legacy THEN "final" ELSE "none"]
    /\ old = Legacy
    /\ row = {}
    /\ ai = [s \in Segs |-> "none"]
    /\ active = {}
    /\ next = LegacyCount + 1
    /\ rpc = "idle" /\ seg = NoSeg
    /\ sweeping = TRUE /\ doomed = NoSeg
    /\ rstep = "read" /\ found = {}
    /\ cstep = "expired" /\ victims = {} /\ refs = {}
    /\ crashes = 0
    /\ stalled = FALSE

-----------------------------------------------------------------------------
\* The recorder.

\* Mutant: the temp is not registered.
RegisterNothing ==
    /\ rpc = "idle" /\ next <= MaxSegs
    /\ seg' = next
    /\ next' = next + 1
    /\ rpc' = "create"
    /\ stalled' = FALSE
    /\ UNCHANGED <<active, durable, startup, cleanup, crashes>>

\* CreateSegment registers the temp before the file exists.
RegisterTemp ==
    /\ rpc = "idle" /\ next <= MaxSegs
    /\ seg' = next
    /\ next' = next + 1
    /\ active' = active \cup {next}
    /\ rpc' = "create"
    /\ stalled' = FALSE
    /\ UNCHANGED <<durable, startup, cleanup, crashes>>

CreateTemp ==
    /\ rpc = "create"
    /\ disk' = [disk EXCEPT ![seg] = "temp"]
    /\ rpc' = "open"
    /\ UNCHANGED <<old, row, ai, active, next, seg, stalled, startup, cleanup,
                   crashes>>

CreateFails ==
    /\ rpc = "create"
    /\ active' = active \ {seg}
    /\ rpc' = "idle" /\ seg' = NoSeg
    /\ UNCHANGED <<durable, next, stalled, startup, cleanup, crashes>>

\* A sample appended to the temp moves its modification time.
WriteFrame ==
    /\ rpc = "open"
    /\ seg \in old
    /\ old' = old \ {seg}
    /\ UNCHANGED <<disk, row, ai, recorder, startup, cleanup, crashes>>

\* Muxer.Close writes the index at the end of the file.
CloseMuxer ==
    /\ rpc = "open"
    /\ old' = old \ {seg}
    /\ rpc' = "close"
    /\ UNCHANGED <<disk, row, ai, active, next, seg, stalled, startup, cleanup,
                   crashes>>

\* The temp is removed and nothing follows; it stays registered.
CloseMuxerFails ==
    /\ rpc = "open"
    /\ disk' = [disk EXCEPT ![seg] = "none"]
    /\ old' = old \ {seg}
    /\ rpc' = "idle" /\ seg' = NoSeg
    /\ UNCHANGED <<row, ai, active, next, stalled, startup, cleanup, crashes>>

\* CloseSegment: stat, sync, rename, unregister.  Its error is only logged.
RenameToFinal ==
    /\ rpc = "close" /\ disk[seg] = "temp"
    /\ disk' = [disk EXCEPT ![seg] = "final"]
    /\ active' = active \ {seg}
    /\ rpc' = "stat"
    /\ UNCHANGED <<old, row, ai, next, seg, stalled, startup, cleanup, crashes>>

\* The temp has vanished, or cannot be opened or renamed.
CloseSegmentFails ==
    /\ rpc = "close"
    /\ active' = active \ {seg}
    /\ rpc' = "stat"
    /\ UNCHANGED <<durable, next, seg, stalled, startup, cleanup, crashes>>

\* fsync fails: the temp stays, and stays registered.
SyncFails ==
    /\ rpc = "close" /\ disk[seg] = "temp"
    /\ rpc' = "stat"
    /\ UNCHANGED <<durable, active, next, seg, stalled, startup, cleanup, crashes>>

\* Mutant: the segment-loss gate is missing.
StatIgnored ==
    /\ rpc = "stat"
    /\ rpc' = "insert"
    /\ UNCHANGED <<durable, active, next, seg, stalled, startup, cleanup, crashes>>

\* The segment-loss gate: no final file, no row and no event.
StatFinal ==
    /\ rpc = "stat"
    /\ IF disk[seg] = "final"
       THEN rpc' = "insert" /\ UNCHANGED seg
       ELSE rpc' = "idle" /\ seg' = NoSeg
    /\ UNCHANGED <<durable, active, next, stalled, startup, cleanup, crashes>>

InsertRow ==
    /\ rpc = "insert"
    /\ row' = row \cup {seg}
    /\ rpc' = "publish"
    /\ UNCHANGED <<disk, old, ai, active, next, seg, stalled, startup, cleanup,
                   crashes>>

\* Out of retries: insertSegmentRow logs and returns the id all the same.
InsertFails ==
    /\ rpc = "insert"
    /\ rpc' = "publish"
    /\ UNCHANGED <<durable, active, next, seg, stalled, startup, cleanup, crashes>>

PublishCompleted ==
    /\ rpc = "publish"
    /\ rpc' = "idle" /\ seg' = NoSeg
    /\ UNCHANGED <<durable, active, next, stalled, startup, cleanup, crashes>>

FinalizeSegment ==
    \/ CloseMuxer \/ CloseMuxerFails
    \/ RenameToFinal \/ CloseSegmentFails \/ SyncFails
    \/ StatFinal \/ InsertRow \/ InsertFails \/ PublishCompleted

Recorder ==
    \/ RegisterTemp \/ CreateTemp \/ CreateFails \/ WriteFrame
    \/ FinalizeSegment

-----------------------------------------------------------------------------
\* Start-up, in the background.

\* CleanupTempFiles comes to a temp that nobody registered and that is old.
SweepTemp(s) ==
    /\ sweeping /\ doomed = NoSeg
    /\ disk[s] = "temp"
    /\ s \notin active
    /\ s \in old
    /\ doomed' = s
    /\ UNCHANGED <<durable, recorder, sweeping, rstep, found, cleanup, crashes>>

RemoveTemp ==
    /\ doomed # NoSeg
    /\ disk' = IF disk[doomed] = "temp" THEN [disk EXCEPT ![doomed] = "none"] ELSE disk
    /\ old' = IF disk[doomed] = "temp" THEN old \ {doomed} ELSE old
    /\ doomed' = NoSeg
    /\ UNCHANGED <<row, ai, recorder, sweeping, rstep, found, cleanup, crashes>>

SweepEnds ==
    /\ sweeping /\ doomed = NoSeg
    /\ sweeping' = FALSE
    /\ UNCHANGED <<durable, recorder, doomed, rstep, found, cleanup, crashes>>

\* reconcileCameraDir: read the directory, then query the rows, then insert.
ReadCameraDir ==
    /\ rstep = "read"
    /\ found' = {s \in Legacy : disk[s] = "final"}
    /\ rstep' = "query"
    /\ UNCHANGED <<durable, recorder, sweeping, doomed, cleanup, crashes>>

QueryPaths ==
    /\ rstep = "query"
    /\ found' = found \ row
    /\ rstep' = "insert"
    /\ UNCHANGED <<durable, recorder, sweeping, doomed, cleanup, crashes>>

InsertOrphans ==
    /\ rstep = "insert"
    /\ row' = row \cup found
    /\ rstep' = "done" /\ found' = {}
    /\ UNCHANGED <<disk, old, ai, recorder, sweeping, doomed, cleanup, crashes>>

\* An error on the way ends the reconciliation of this camera.
ReconcileFails ==
    /\ rstep \in {"read", "query", "insert"}
    /\ rstep' = "done" /\ found' = {}
    /\ UNCHANGED <<durable, recorder, sweeping, doomed, cleanup, crashes>>

Startup ==
    \/ (\E s \in Segs : SweepTemp(s)) \/ RemoveTemp \/ SweepEnds
    \/ ReadCameraDir \/ QueryPaths \/ InsertOrphans \/ ReconcileFails

-----------------------------------------------------------------------------
\* RunOnce of the cleanup manager.

OnDisk == {s \in Segs : disk[s] # "none"}
OverThreshold == Cardinality(OnDisk) > Threshold

\* The BatchLimit oldest rows.
Oldest == {s \in row : Cardinality({r \in row : r < s}) < BatchLimit}

StartCleanup ==
    /\ cstep = "idle"
    /\ cstep' = "expired"
    /\ UNCHANGED <<durable, recorder, startup, victims, refs, crashes>>

\* timeBasedCleanup: the rows that ended before some cutoff.
SelectExpired ==
    /\ cstep = "expired"
    /\ \E cutoff \in Segs \cup {NoSeg} : victims' = {s \in row : s <= cutoff}
    /\ cstep' = "filterExpired"
    /\ UNCHANGED <<durable, recorder, startup, refs, crashes>>

\* diskThresholdCleanup: the usage is read on entry and after every batch.
CheckUsage ==
    /\ cstep = "threshold"
    /\ cstep' = IF OverThreshold THEN "fetch" ELSE "flatList"
    /\ UNCHANGED <<durable, recorder, startup, victims, refs, crashes>>

SelectOldest ==
    /\ cstep = "fetch" /\ row # {}
    /\ victims' = Oldest
    /\ cstep' = "filterOldest"
    /\ UNCHANGED <<durable, recorder, startup, refs, crashes>>

\* No row is left, or the usage or the rows cannot be read.
ThresholdGivesUp ==
    /\ cstep \in {"threshold", "fetch"}
    /\ cstep' = "flatList"
    /\ UNCHANGED <<durable, recorder, startup, victims, refs, crashes>>

\* BatchDeleteRecordingsWithFiles.  What the analysis service works on is
\* left out of the batch.
FilterProcessing ==
    /\ cstep \in {"filterExpired", "filterOldest"}
    /\ victims' = {s \in victims : ai[s] # "processing"}
    /\ cstep' = "deleteRows"
    /\ UNCHANGED <<durable, recorder, startup, refs, crashes>>

\* The statuses cannot be read: nothing is deleted.  The threshold loop then
\* fetches again, without a look at the usage.
FilterFails ==
    /\ cstep \in {"filterExpired", "filterOldest"}
    /\ victims' = {}
    /\ cstep' = IF cstep = "filterExpired" THEN "threshold" ELSE "fetch"
    /\ UNCHANGED <<durable, recorder, startup, refs, crashes>>

\* The rows go in chunks; the files of a chunk that fails are kept.
DeleteRows ==
    /\ cstep = "deleteRows"
    /\ victims' \in SUBSET victims
    /\ row' = row \ victims'
    /\ ai' = [s \in Segs |-> IF s \in victims' THEN "none" ELSE ai[s]]
    /\ cstep' = "deleteFiles"
    /\ UNCHANGED <<disk, old, recorder, startup, refs, crashes>>

Unlink(s) ==
    /\ disk' = [disk EXCEPT ![s] = "none"]
    /\ old' = old \ {s}

DeleteFile ==
    /\ cstep = "deleteFiles"
    /\ \E s \in victims :
         /\ Unlink(s)
         /\ victims' = victims \ {s}
    /\ UNCHANGED <<row, ai, recorder, startup, cstep, refs, crashes>>

\* An unlink that fails is logged and the next file is tried.
DeleteFileFails ==
    /\ cstep = "deleteFiles"
    /\ \E s \in victims : victims' = victims \ {s}
    /\ UNCHANGED <<durable, recorder, startup, cstep, refs, crashes>>

BatchDone ==
    /\ cstep = "deleteFiles" /\ victims = {}
    /\ cstep' = "threshold"
    /\ UNCHANGED <<durable, recorder, startup, victims, refs, crashes>>

\* orphanFileCleanup: cleanOrphansForCamera on the top level, then
\* deepOrphanCleanup on the whole tree, temps included.  The rows are listed
\* before the files are visited.
ListRefs ==
    /\ cstep \in {"flatList", "deepList"}
    /\ refs' = row
    /\ cstep' = IF cstep = "flatList" THEN "flatScan" ELSE "deepScan"
    /\ UNCHANGED <<durable, recorder, startup, victims, crashes>>

Scanning == cstep \in {"flatScan", "deepScan"}

\* Mutant: the list of rows is not looked at.
RemoveReferenced(s) ==
    /\ Scanning
    /\ s \in OnDisk /\ (cstep = "flatScan" => s \in Legacy)
    /\ s \in old
    /\ Unlink(s)
    /\ UNCHANGED <<row, ai, recorder, startup, cleanup, crashes>>

RemoveOrphan(s) ==
    /\ Scanning
    /\ s \in OnDisk /\ (cstep = "flatScan" => s \in Legacy)
    /\ s \notin refs
    /\ s \in old
    /\ Unlink(s)
    /\ UNCHANGED <<row, ai, recorder, startup, cleanup, crashes>>

\* Mutant: the deep walk never comes round.
EndFlatScan ==
    /\ Scanning
    /\ refs' = {}
    /\ cstep' = "ghosts"
    /\ UNCHANGED <<durable, recorder, startup, victims, crashes>>

\* The walk ends, or is cut short by an error; the deep walk is skipped when
\* the last one is less than a day ago.
EndScan ==
    /\ Scanning
    /\ refs' = {}
    /\ IF cstep = "flatScan" THEN cstep' \in {"deepList", "ghosts"} ELSE cstep' = "ghosts"
    /\ UNCHANGED <<durable, recorder, startup, victims, crashes>>

\* staleRecordCleanup: rows of the last day are not looked at, nor are those
\* with an ai_status.
ListGhosts ==
    /\ cstep = "ghosts"
    /\ \E ghosts \in SUBSET {s \in row : disk[s] # "final" /\ ai[s] = "none"} :
         victims' = ghosts
    /\ cstep' = "deleteGhosts"
    /\ UNCHANGED <<durable, recorder, startup, refs, crashes>>

DeleteGhosts ==
    /\ cstep = "deleteGhosts"
    /\ row' = row \ victims
    /\ ai' = [s \in Segs |-> IF s \in victims THEN "none" ELSE ai[s]]
    /\ victims' = {}
    /\ cstep' = "idle"
    /\ UNCHANGED <<disk, old, recorder, startup, refs, crashes>>

DeleteGhostsFails ==
    /\ cstep = "deleteGhosts"
    /\ victims' = {}
    /\ cstep' = "idle"
    /\ UNCHANGED <<durable, recorder, startup, refs, crashes>>

Batch ==
    \/ FilterProcessing \/ FilterFails \/ DeleteRows
    \/ DeleteFile \/ DeleteFileFails \/ BatchDone

RunOnce ==
    \/ StartCleanup \/ SelectExpired \/ CheckUsage \/ SelectOldest \/ ThresholdGivesUp
    \/ Batch
    \/ ListRefs \/ (\E s \in Segs : RemoveOrphan(s)) \/ EndScan
    \/ ListGhosts \/ DeleteGhosts \/ DeleteGhostsFails

-----------------------------------------------------------------------------
\* The analysis service, time and crashes.

\* aiStatusRank
Rank(status) ==
    CASE status = "completed" -> 3
      [] status = "skipped" -> 2
      [] status = "failed" -> 1
      [] OTHER -> 0

\* PATCH ai-status: a status lands unless its rank is lower than the row's.
UpdateRecordingAIStatus(s, status) ==
    /\ s \in row
    /\ status # ai[s] /\ Rank(status) >= Rank(ai[s])
    /\ ai' = [ai EXCEPT ![s] = status]
    /\ UNCHANGED <<disk, old, row, recorder, startup, cleanup, crashes>>

\* An hour goes by without a write to s.  No hour goes by between the close
\* of a segment and its row, or while an orphan scan runs.
Age(s) ==
    /\ s \in OnDisk \ old
    /\ ~(s = seg /\ rpc \in {"close", "stat", "insert"})
    /\ ~Scanning
    /\ old' = old \cup {s}
    /\ stalled' = (stalled \/ (s = seg /\ rpc = "open"))
    /\ UNCHANGED <<disk, row, ai, active, next, rpc, seg, startup, cleanup,
                   crashes>>

\* The process dies and is started again.
Crash ==
    /\ crashes < MaxCrashes
    /\ crashes' = crashes + 1
    /\ active' = {}
    /\ rpc' = "idle" /\ seg' = NoSeg /\ stalled' = FALSE
    /\ sweeping' = TRUE /\ doomed' = NoSeg
    /\ rstep' = "read" /\ found' = {}
    /\ cstep' = "expired" /\ victims' = {} /\ refs' = {}
    /\ UNCHANGED <<durable, next>>

Environment ==
    \/ \E s \in Segs, status \in AIStatuses : UpdateRecordingAIStatus(s, status)
    \/ \E s \in Segs : Age(s)
    \/ Crash

-----------------------------------------------------------------------------
Next == Recorder \/ Startup \/ RunOnce \/ Environment

Spec == Init /\ [][Next]_vars

-----------------------------------------------------------------------------
\* Properties.

TypeOK ==
    /\ disk \in [Segs -> {"none", "temp", "final"}]
    /\ old \subseteq Segs
    /\ row \subseteq Segs
    /\ ai \in [Segs -> AIStatuses \cup {"none"}]
    /\ active \subseteq Segs
    /\ next \in 1..(MaxSegs + 1)
    /\ rpc \in {"idle", "create", "open", "close", "stat", "insert", "publish"}
    /\ seg \in Segs \cup {NoSeg}
    /\ sweeping \in BOOLEAN
    /\ doomed \in Segs \cup {NoSeg}
    /\ rstep \in {"read", "query", "insert", "done"}
    /\ found \subseteq Segs
    /\ cstep \in {"idle", "expired", "filterExpired", "threshold", "fetch", "filterOldest",
                  "deleteRows", "deleteFiles", "flatList", "flatScan", "deepList", "deepScan",
                  "ghosts", "deleteGhosts"}
    /\ victims \subseteq Segs
    /\ refs \subseteq Segs
    /\ crashes \in 0..MaxCrashes
    /\ stalled \in BOOLEAN

\* The row of a recorded segment always has its file: a client that lists the
\* recordings never meets a permanent 404, whatever failed, vanished or was
\* deleted in between (the segment-loss gate, rows deleted before files).
RecordedRowHasFile == \A s \in row \cap Recorded : disk[s] = "final"

\* The temp of an open segment is on disk, unless the segment has gone an
\* hour without a frame and the deep orphan scan took it for a leftover.
OpenTempKept == rpc = "open" /\ ~stalled => disk[seg] = "temp"

\* The start-up sweep never dooms a temp the recorder still writes or is
\* finalizing, however long it has been idle ("never touched",
\* storage/manager.go:697-704).
LiveTempNotSwept ==
    [][\A s \in Segs : SweepTemp(s) => ~(s = seg /\ rpc \in {"open", "close"})]_vars

\* An orphan scan works from a list of rows that is stale by the time it
\* removes a file; still it never removes the file of a recorded segment
\* that has a row by then.
ReferencedFileKept ==
    [][\A s \in Recorded : RemoveOrphan(s) => s \notin row]_vars

\* Fairness: the cleanup goroutine runs, and neither the reading of statuses
\* nor the deletion of rows fails every time it is tried.
FairCleanup ==
    WF_vars(RunOnce) /\ SF_vars(FilterProcessing) /\ SF_vars(DeleteRows /\ victims' = victims)

\* Hours pass, a deep scan comes round again, and the unlink of a given file
\* does not fail every time.
FairScans ==
    /\ SF_vars(EndScan /\ cstep' = "deepList")
    /\ \A s \in Segs : SF_vars(Age(s)) /\ SF_vars(RemoveOrphan(s))

FairSpec == Spec /\ FairCleanup
LiveSpec == FairSpec /\ FairScans

\* What a crash, a failed insert, a failed sync or a failed unlink leaves on
\* disk with no row and no recorder is deleted in the end (or, if legacy,
\* registered): nothing leaks.  A recording in processing excuses it: the
\* disk-threshold loop may then fetch the same batch for ever, and RunOnce gets
\* no further.
LeftoversReclaimed ==
    \A s \in Segs :
        s \in OnDisk \ row /\ s # seg
            ~> s \notin OnDisk \/ s \in row \/ \E t \in row : ai[t] = "processing"
=============================================================================
