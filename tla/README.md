# TLA+ models of MiBeeNvr

MiBeeNvr is a network video recorder written in Go.  Recorders pull video from
cameras, write it as segments on disk with a row per segment in SQLite, and
fan the frames out to live viewers; background goroutines merge, transcode,
offload, migrate and delete what was recorded.  This directory holds TLA+
modules of the parts where concurrency, failure and deletion meet, TLC
configurations that check them on small instances, and proofs for every value
of the constants.

    tlc -workers 2 -config StreamHub.cfg MCStreamHub.tla
    tlapm Recording_proofs.tla

Paths below are relative to `src/internal/`.

## 1. Inventory

### Parts that carry the program's own logic

| component | state | operations | talks to |
|---|---|---|---|
| **streamhub** frame hub, one per camera and sub-stream | consumer maps, copy-on-write snapshots, keyframe cache; per consumer a channel, `closed`, counters, a drain goroutine; jitter buffer | Subscribe, SubscribeMsg, SubscribeAudio, Unsubscribe(Audio), Broadcast(Audio), timer flush | recorders call Broadcast; live protocols, relays, snapshots subscribe callbacks |
| **recorder** | muxer, temp and final path, GOP ring, frame queue | open a segment, write frames, FinalizeSegment, reconnect | storage, database, event bus, hub |
| **storage** (`manager.go`) | files; the registry of active temps | CreateSegment, CloseSegment, CleanupTempFiles, ReconcileOrphanedFiles | recorder, merge, start-up, cleanup |
| **storage** (database) | `recordings`, `transcode_tasks`, `offload_items` | inserts with retry, batch deletes, replace on merge, claims | everybody |
| **cleanup** | when the deep scan last ran | RunOnce: retention, archive, dark, disk threshold, orphan files, ghost rows | storage, database, event bus |
| **substream** | `sources` (entry per camera: refs, idle timer, state), `stopped` | Acquire, AcquireTarget, Release, recycle, StopCamera, Stop, pull loop | live viewers, camera manager, hub |
| **merge** | buckets in memory, per-camera locks, files, rows | live fold, backfill sweep, periodic manager | database, storage, transcoding |
| **camera** manager | the configuration slice, the published snapshot, lifecycle mutexes | add, remove, update, start, stop, restart, protocol off, boot | recorders, substream, config, health |
| **transcoding** | task rows, active jobs, ffmpeg processes, four file names per replacement | enqueue, dispatch, cancel, replace, recover, clean up | database, storage, API |
| **offload** | outbox rows, the block cache | scan, claim, upload, confirm, evict; serve ranges | object store, database |
| **migration** | the queue of jobs, the job at work; the override of each camera's root | switch, save, enqueue, list, copy, rewrite, delete the source | storage, database, configuration |
| **event**, **notify**, **mqtt**, **vision** | subscriptions, bounded queues | publish, deliver, retry | all of the above |

The remaining packages are protocol and format code (RTSP, RTMP, SRT, WebRTC,
HLS, ONVIF, GB28181, Xiaomi/TUTK/P2P, MP4, AVI), the HTTP API, configuration,
platform integration, the web UI and the Home Assistant integration.
`PROJECT.json` lists every one with the reason it is left aside.

### How they meet

The database and the directory tree are shared by all; no transaction spans
them both, and most hand-overs are "write the file, change the row, delete what
it replaced".  Each of the storage-side modules therefore has the same shape: a
step per file operation and per statement, with the other users of the same
rows and files (retention, late appends, transcode tasks) as actions of the
environment.  The modules compose by these interfaces: `Recording` ends where a
segment has its row and its event; `RollingMerge` begins there and produces the
merged recordings that `Offload` and `Migration` move and `TranscodeQueue`
rewrites; `MergeLock` is the lock `RollingMerge` takes as one step; `StreamHub`
is what `SubStream`'s pull and `CameraManager`'s recorders broadcast into.

### What is hard, and what correctness means

* **Hub.**  A channel is written by producers, emptied by a drain goroutine,
  cleared by a producer that makes room for a keyframe, and closed by
  Unsubscribe.  Correct means: no send on a closed channel; every frame that is
  lost is counted, once; a subscribed consumer is offered every frame; deltas
  stay in order; no goroutine outlives its subscription; producers never wait
  for consumers.
* **Recording life cycle.**  A segment is a temp file, a registration, a final
  file and a row, changed by four goroutines without a common transaction, any
  step of which may fail or be cut by a crash.  Correct means: no row without a
  file, no live file deleted, no file leaked for ever, deletion terminates.
* **Sub-streams.**  References are counted per camera key while sources come
  and go, timers fire late, and failed pulls recycle "their" source by key.
  Correct means: exact counts, a source in use is never recycled, an unused one
  always goes, its consumers are told exactly once after its pull has ended.
* **Merging.**  Three engines with two locks fold the same segments; the file,
  the bucket in memory and its row advance in separate steps.  Correct means:
  footage stays reachable, is covered once, rows cover what is in their files,
  transcode inputs stay, and the backlog drains.
* **Offload.**  An outbox is claimed by workers, requeued by failures, restarts
  and growth, and evicted from by two processes.  Correct means: nothing is
  deleted locally that the store does not have, one uploader per recording,
  uploads end.
* **Transcoding.**  A replacement is three renames; cancel, timeout, stop,
  crash, orphan scan and retention come between them.  Correct means: the
  original's name never holds an unfinished file, footage is whole in some
  file, limits hold, tasks end.
* **Migration.**  Rows are rewritten to copies listed hours before.  Correct
  means: a row names a whole file, the history ends up where the camera
  records to, and copies nobody refers to do not pile up.
* **Camera manager.**  Some operations hold the camera's mutex and some do not,
  and the snapshot points into a slice that others shift.  Correct means: no
  recorder runs twice or out of reach, what is removed stops, what runs has the
  latest of the settings recorders are restarted for.

## 2. The modules

### StreamHub (`streamhub/streamhub.go`)

| TLA+ | code |
|---|---|
| `Broadcast`, `BroadcastAudio` / `Start` | Broadcast, BroadcastAudio up to the distribution |
| `CacheIDR`, `LoadSnapshot`, `LockEntry`, `EndBroadcast` | distributeFrame: the cache under `h.mu`, the atomic load, `sendMu.RLock` and the closed test, the end of the loop |
| `SendOk`, `SendFullDelta`, `SendFullIDR` | the three outcomes of the non-blocking send |
| `EvictDelta` .. `RefillFull` | trySendIDR, one channel operation per step |
| `Receive`, `CallbackReturns`, `DrainExits` | the drain goroutine |
| `Subscribe`, `SubscribeAudio`, `Replay`, `ReplayPanics` | the section under `h.mu`, then the replay send |
| `Unsubscribe`, `MarkClosed`, `CloseChannel`, `AwaitDrain` | Unsubscribe's four blocking points |

`cur[p] = s` stands for "producer p holds the read lock of s.sendMu"; a write
lock waits for it.  Critical sections of `h.mu` are one step.  A consumer entry
is a *slot*; a slot is used again only when nothing refers to the old entry
(`Unreferenced`), so identities never alias.  Audio consumers have the same
life cycle and share the actions; audio frames are never keyframes.  Where a
panic has ended the process, nothing new starts (`Panicked`).  History
variables (`pending`, `lastDelta`, `due`, `visited`) are read by properties
only.  Left out: the jitter buffer (a producer stands for the recorder or for
the flush timer), statistics, drop-rate warnings, and the writer preference of
`sync.RWMutex`, which only delays readers.

Properties: `NoBroadcastOnClosed`, `DropsExact` (drop counter = lost deltas +
counted keyframes), `EveryConsumerOffered`, `DeltasInOrder` (per producer, in
spite of evict and put back), `DrainHasOwner`; liveness `BroadcastReturns`
without any assumption on callbacks, `UnsubscribeReturns` if callbacks return.

### Recording (`recorder/segment_finalize.go`, `storage/`, `cleanup/`, `app/builders_core.go`)

| TLA+ | code |
|---|---|
| `RegisterTemp`, `CreateTemp`, `CreateFails` | CreateSegment: register, then create |
| `WriteFrame`, `CloseMuxer`, `RenameToFinal`, `SyncFails`, `StatFinal`, `InsertRow`, `InsertFails`, `PublishCompleted` ... | FinalizeSegment and what it calls, with its error paths |
| `SweepTemp`, `RemoveTemp`, `SweepEnds` | CleanupTempFiles in the background at start |
| `ReadCameraDir`, `QueryPaths`, `InsertOrphans`, `ReconcileFails` | reconcileCameraDir: read, query, insert |
| `SelectExpired`, `CheckUsage`, `SelectOldest`, `ThresholdGivesUp` | timeBasedCleanup, diskThresholdCleanup |
| `FilterProcessing`, `FilterFails`, `DeleteRows`, `DeleteFile`, `DeleteFileFails`, `BatchDone` | BatchDeleteRecordingsWithFiles |
| `ListRefs`, `RemoveOrphan`, `EndScan` | cleanOrphansForCamera, then deepOrphanCleanup |
| `ListGhosts`, `DeleteGhosts` | staleRecordCleanup |
| `UpdateRecordingAIStatus`, `Age`, `Crash` | PATCH ai-status; the clock; process death |

One camera; a segment is a number that grows with time.  `Legacy` segments are
finished files of the old flat layout without rows: only they are in reach of
the reconciliation and of the flat scan.  Time is one bit per file: `old` means
last written more than an hour ago.  **Timing assumption**: no hour passes
between the close of a segment and its row, nor during an orphan scan (`Age`).
It is an assumption on the machine; without it a scan that takes hours may
remove a file whose row was inserted after the rows were listed.
Archived-camera and dark-segment retention take their victims through the same
batch; `SelectExpired` chooses a prefix by age, which stands for the age-based
ones.  Motion-aware ordering, per-camera roots, merged artifacts, directory
segments and pacing are left out.

Properties: `RecordedRowHasFile`, `LiveTempNotSwept`, `ReferencedFileKept`,
liveness `LeftoversReclaimed`.

### SubStream and SourceLease (`substream/substream.go`, `substream/pull.go`)

Each section under `m.mu` is one action: `AcquireExisting`, `AcquireNew` with
the resolver outside the lock, `JoinResolved` or `CreateEntry` after it,
`CheckState`, `WaitReady`/`WaitSelect`/`WaitFails` (the two selects of
waitReady), `Release`, `Recycle` used by the idle timer (`IdleRecycle`), the
failed pull (`FailRecycle`) and `StopCamera`; `Stop`.  The detached teardown is
`Cancel`, `OnRecycle`.  The pull is `GoLive`, `SessionEnds`, `FailsForGood`,
`PullReturns`.  A timer that has fired and waits for the lock is counted in
`fired` and names no entry, as in the code.

`SourceLease` is the abstract promise: one current source, grants of the
current one only, a held source is not taken away except by shutdown, a source
taken away never returns.  `LeaseSpec` is that specification under the mapping
source = `current`, opened = `created`, holds = `Holds`, shut = `stopped`.

Properties: `RefsExact`, `Inv` (types; an unused entry has a timer or a
recycle under way; consumers are told once and after the pull), `LeaseSpec`,
liveness `UnusedGoes`, `TornDown`.  Left out: other cameras (independent keys),
AcquireTarget's separate keys, re-resolving inside the pull loop, which changes
the address dialled and nothing else, and GB28181 pulls, which share the loop.

### How the modules below describe an installation

Each has a frozen variable `setup \in Setups`: the camera's settings and the
budgets of faults a behaviour has.  One run then covers several installations,
each small, instead of one that allows everything at once.  `Move` is a step
without the frame `UNCHANGED setup`, and `moving` the variables it changes:
fairness is stated over them, because `setup` never is.  The setups of a run
are `MCSetups` of its MC module.

### RollingMerge (`merge/`, `storage/db_merge.go`)

| TLA+ | code |
|---|---|
| `LiveClassify`, `LiveMerge`, `LiveCommit`, `LiveCommitFails`, `LiveQuery`, `LiveDelete`, `LiveRenameFails` | the live engine: dispatch, hold and age rail, mergeSegments, appendToBucket or a new bucket (`Advance`, `Joined`), RollingReplaceRecordings, the hold again, deleting the sources |
| `BackSweep`, `BackSingle`, `BackParse`, `BackLock`, `BackMerge`, `BackCommit`, `BackQuery`, `BackDelete`, `BackReset`, `BackUnlock`, `BackEnds` | the sweep over pending rows: list, old single segments, parse, the try-lock, one batch, its rows and sources |
| `LegacyList` .. `LegacyDelete` | the periodic MergeManager, which takes a lock of its own |
| `TaskLands`, `TaskEnds`, `DeleteRow`/`DeleteFile`, `SweepOrphan`, `Age` | transcode tasks, a client's deletion (row first), the orphan scan, which looks at rows and ages and at no task, the clock |

Footage is `content[f][s]`: how often segment s is in file f.  A row has a
status, a file, a time span and a duration (`wall`).  `Held`/`Unheld` is the
transcode hold: it returns the newest `HoldLimit` tasks, and lets nothing
through when its query fails; `Free` is the age rail beside it.  Left out:
several buckets at a time, AVI and MJPEG batches, hold timers of fragments,
pacing, the MP4 boxes.

Properties: `FootageKept`, `CoveredOnce`, `RowCovers`, `SourceRowHasFile`,
`TaskInputKept`, liveness `PendingDrains`.

### MergeLock (`merge/manager.go`, `merge/rolling_live.go`)

The try-lock of one camera over a `sync.Map` of mutexes: `LoadOrStore`,
`TryLock`, `Unlock`, and, with the periodic manager's release, `Delete` of the
map's entry after the unlock.  `deleteOnRelease` chooses the release.
Property: `OneMerger`, which only the coordinator's release has.

### Offload (`offload/offload.go`, `offload/evict.go`, `storage/db_offload.go`)

| TLA+ | code |
|---|---|
| `RequeueStale`, `CountBacklog`, `ListCandidates`, `Enqueue`, `ScanEnds` | scan: what grew goes back to pending, the cap, the list, EnqueueOffload |
| `Claim`, `StatOk` .. `HeadFails`, `MarkUploaded`, `MarkFails`, `Skip` | ClaimPendingOffload; uploadOne: stat, open, put, head, the row |
| `EvictList`, `EvictHeadOk`, `EvictRefuses`, `EvictRemove`, `EvictRow`, `EvictMark` | evictOne, by this process's sweep and by the command-line tool |
| `AppendWrite`, `AppendCommit`, `AppendRemove`, `RetentionRow`, `RetentionFile`, `ObjectGone`, `PutGhost`, `Restart` | a late append moves a recording to a new file; retention, row first; the store loses an object, or keeps less than it was sent; start-up reset |

A file is named by its version and is as large as its version.
Properties: `Inv` (`OneUploader`, `ConfirmedIsStored`, `BacklogCapped`,
`SkippedIsGone`), `NothingLost`, liveness `UploadsEnd`.

### BlockProxy (`offload/proxy.go`)

`Serve`, `Look`, `FetchRun` (GetRange and `Store`: cut, insert, evict),
`FetchFails`, `Assemble` one block at a time, `Vanished`.  A byte is its offset
in the object.  `ToFront` is the list after MoveToFront and PushFront, `Size` the
bytes of blocks, `Fitting` how much of the list eviction leaves.  Properties: `ServedExactly`, `CacheExact`.

### TranscodeQueue (`transcoding/`, `storage/db_transcoding.go`, `api/handlers_transcode.go`)

| TLA+ | code |
|---|---|
| `SegmentCompleted`, `PostTask`, `RetryTask`, `Backfill`, `InsertTasks` | the four ways in: count the backlog, later insert |
| `Tick`, `Dequeue`, `StartWorker` | dispatchPending: free slots once, then claim and start one by one |
| `StatInput`, `BudgetInterrupted`, `StartFfmpeg`/`StartFails`, `Progress`, `FfmpegSucceeds`, `FfmpegFails`, `Decide`, `FinishTask`, `RemoveOutput` | runWorker; what the progress parser writes sets the row to running |
| `MoveOutput`, `ClearBackup`, `MoveOriginal`, `RestoreOutput`, `Commit`, `RestoreOriginal`, `RemoveBackup`, `UpdateFormat` | replaceOriginal, a step per rename |
| `Write`, `WriteLive`, `Quit` | finishTask: under a context of its own, or under the job's, which a cancel, a timeout or a stop has ended; a write that fails is logged, and the row stays running |
| `CancelJob`, `CancelRow`, `JobTimeout`, `Stop`, `Stopped`, `Crash`, `Start` | cancel in two steps, timeout, graceful stop, crash, RecoverStuckTasks and CleanOrphanedTranscodes |
| `Sweep`, `DeleteRow`/`DeleteFile` | the deep orphan scan; retention, row first |

A file's content is `orig`, `part`, `mixed` (two writers) or `whole`.  `fails`
bounds the ffmpeg runs, renames, counts of the backlog and updates of rows that
fail.  `left` and `misfiled` record the tasks and recordings whose row was not
told.  Inserts and claims that fail change nothing but the time at which they
are made, and removals of single files are taken to succeed.
Properties: `Inv` (`WorkersBounded`, `BacklogBounded`, `InPlace`,
`CancelledForCause`), `InputWhole`, `FootageKept`, `OutputKept`, liveness
`TasksEnd`.

### Migration (`migration/migrator.go`, `storage/db_migrate.go`, `api/handlers_storage_migrate.go`)

| TLA+ | code |
|---|---|
| `SwitchRoot`, `Enqueue`, `SaveFails` | the handler: the override in memory, then the saved configuration and the queue, or neither when the save fails; without `migrate` nothing is queued |
| `TakeJob`, `JobFails`, `JobDone` | next and process: the list; the query and the capacity gate |
| `WindowOpens`, `Skip`, `KnownRoots` | waitWindow; Roots and rootOf: the default and the overrides of the moment |
| `OpenSource`, `CopyFile`, `Rewrite`, `DeleteSource`, `MoveFails` | moveRecording, copyRated, RewriteRecordingPaths |
| `CreateSegment`, `CloseSegment` | a segment is written, to its end, to the root of its begin |
| `AppendWrite`, `AppendCommit`, `AppendDelete` | an append's output goes to the root of the moment, the row follows, the file before goes |
| `ListDeletes`, `DeleteRow`, `DeleteFile` | retention or a client: list, row, file |
| `TurnWindow`, `Kill`, `Flush`, `Checkpoint`, `Outage` | the clock; stop and kill; what reaches the disk; a power failure, which tears what was not flushed and may undo commits |

A recording in `frames` is a directory, as those of timelapse cameras are
(manager.go:238): copyRated opens it as a file and fails, so it never moves.
Only such a recording gets a `merge_path`, so the worker's steps for merged
files are never reached, and they and the timelapse merges are left out.
`shared` are the roots that other cameras' overrides keep in `Roots()` when this
camera's does not.  `late` and `wanted`, `keeps` record for the properties what
was finished on a root already left, and what the requests asked for.  Left
out: roots inside one another, overrides whose mount has vanished, a switch of
the default root, the arithmetic of rate and capacity, and the cleanup's deep
scan, which may remove an old copy between the look that finds it and the
rewrite that points to it.

Properties: `Inv` (types and `FewLeftovers`), `RowIntact`, liveness
`HistoryFollows`.

### CameraManager (`camera/crud.go`, `lifecycle.go`, `registry.go`, `recorder_factory.go`)

The configuration is a Go slice, so `mem` models the arrays with their places
and `conf[i]` is a pointer, an array and a place in it: an append within the
capacity and a removal change an array in place, an append beyond it moves to a
new one.  A call is a task with a program counter; `Begin` takes a new one.

| TLA+ | code |
|---|---|
| `AddConfig`, `AddPending`, `AddUnsaved`, `RemoveRead`, `RemoveConfig`, `RemoveNone`, `RemoveUnsaved` | phase 1 under `configMu`, with the roll-backs when the save fails |
| `UpdateConfig`, `UpdateForm`, `UpdateUnsaved` | UpdateCamera: with `needsRestart`, without it, and rolled back |
| `UpdateRead`, `TakeOut`, `StopOld`, `UpdateCheck`, `RemoveDrop`, `ProtocolOff` | phase 2, without a lock; stopCamerasByProtocol |
| `Call`, `CallStop`, `LoadMutex`, `Lock`, `Pass`, `Answer`, `Replace`, `Halt` | StartCamera, RestartRecorder, StopCamera under withCameraLifecycle: a recorder that records or reconnects answers a start, any other is replaced, one that runs and is in error as well |
| `Build`, `BuildNone`, `Register`, `Delay`, `StartRecorder`, `StartFails` | createRecorder, which publishes the hub, or makes nothing; startRecorderLocked: the recorder published, left to its schedule, started or not |
| `BootBuild`, `BootRegister`, `BootStart`, `Publish` | bringUpCamera of pull cameras; GetOrCreateHub for a publisher |

A camera's settings are a generation, which counts the changes a recorder is
restarted for, and a form: two values of the settings that a recorder copies
and is not restarted for (`onvif_endpoint`, the dark-frame filter,
`mjpeg_form`), and `bare`, a camera no recorder is made for.  A camera's number
stands for its name, its endpoint and its serial in AddCamera's look for
duplicates; an addition that is refused changes nothing.  ActivateCamera is an
update and a start, and ManualRecord has the shape of a start.

Properties: `Inv` (`SnapshotIsConfig`, `Served`, `RemovedStops`),
`OneRecorder`, `RunningRegistered`, `LatestConfig`.  Left out: archiving (the
same slice surgery as removal), ONVIF enrichment, health, and the schedules:
UpdateCamera's resume when a schedule is cleared, and the goroutines that
`Delay` leaves a recorder to.  Those hold on to the recorder they were given:
nothing but tests calls stopTimelapseScheduleMonitor (timelapse.go:224), so the
one of a camera that booted starts its recorder again after a stop or a
removal, and one begun in a request ends with the request's context, so that
the start it was to make does not come.  Also left out: a reader that copies a
camera through the snapshot's pointer between an update and its roll-back.

## 3. Runs

| run | shows | bounds |
|---|---|---|
| StreamHub | the hub's safety properties | 2 consumer ids, 1 producer, 3 frames of 3 kinds, channel of 2, 2 subscribing goroutines, 2 entries |
| StreamHubLive | `BroadcastReturns`, `UnsubscribeReturns` | 2 producers, video and audio, channel of 1, 2 frames |
| Recording | the life cycle's safety, and that nothing leaks | 1 legacy and 1 recorded segment, 1 crash, batch of 1, threshold of 1 file |
| SubStream | counts, refinement of SourceLease, liveness | 2 viewers, 2 entries, 2 late timers |
| RollingMerge | the merge engines' safety, and that the backlog drains | 2 or 3 segments, 3 outputs, batches of 2; seven setups, each with up to one failure, crash, deletion |
| MergeLock | mutual exclusion of the try-lock, with either release | 4 callers, 3 mutexes |
| Offload | nothing lost, outbox true to the store, uploads end | 1 to 3 recordings, 2 workers, 2 evictors, 2 versions; seven setups |
| BlockProxy | ranges served exactly, cache accounted exactly | 2 requests, 7 bytes in blocks of 2, cache of 5 bytes, 4 ranges of any position |
| TranscodeQueue | originals replaced by whole files, limits, ends | 1 or 2 recordings, 2 to 4 tasks, 1 or 2 workers; nine setups |
| Migration | rows name whole files, history follows the root, copies do not pile up | 1 or 2 recordings, 2 roots, 2 requests, 2 versions; five setups: a window; a directory of frames in front of a file; a failure, a kill and a deletion; late appends with a failure and a kill; late appends with a power failure and a deletion |
| CameraManager | no recorder lost or doubled, latest configuration | 2 cameras and 2 callers with 3 or 4 calls, or 1 camera and 1 caller with 6; five setups |
| CameraManagerAlias | (violation) the snapshot's configuration of one camera is another's; section 5 | 3 cameras, 1 caller that removes and restarts |

Why the bounds are enough for the cases that matter: a channel of two and three
frames fill the channel, evict, put back and refill in one behaviour, with a
keyframe in front of a delta; with two ids and two goroutines one consumer joins
or leaves while the other stays, between the load of a snapshot and the sends;
two slots let an id be subscribed anew while the old entry is draining; two producers on a channel of one steal each other's
place between evict and refill.  With a legacy and a
recorded segment a cleanup batch deletes one while the other is finalized, or
was left by the crash.  Two viewers are
the holder and the racer, two entries are the recycled one and its successor.
Merging needs a bucket, a segment folded late, before it in time, and a
neighbour for a batch: three.  Offload needs a recording claimed, one in front
of it and a cap that is reached; growth needs two versions.  A cache of two
blocks and three-block spans make eviction meet assembly.  In transcoding two
tasks of one recording, or two recordings for two workers, are the races, and
`window` below the number of tasks stands for the page of 200.  Two roots and
two requests are a migration there and back, with the root left behind known
(`shared`) or not.  What larger instances would add
in number only, the proofs cover for the properties of section 4.

StreamHub, SubStream and BlockProxy have symmetry sets for their MC modules;
only runs without liveness use them.  Deadlock is checked in the StreamHub and
Recording runs.  Elsewhere everybody may come to rest: after `Stop`, when there
is nothing left to record, upload or migrate, or at a bound.  In StreamHub the
end of the process by a panic is an explicit stuttering step.

Every property has a mutant in `PROJECT.json`, a plausible slip in one mapped
definition under which the run finds the property violated.

### Fairness

* `FairHub`: goroutines inside hub code run on; a drain goroutine with work
  receives.  Callbacks are foreign code: `BroadcastReturns` does not assume
  that they return, `UnsubscribeReturns` does, in its own hypothesis.
* `FairCleanup`: the ticker-driven goroutine runs; the status query and the row
  deletion do not fail every time (strong fairness).  `FairScans`: hours
  pass, the daily deep scan comes round, an unlink does not fail for ever.
  The recorder, the clients and the reconciliation owe nothing.
* SubStream's `FairSpec`: timers fire and goroutines run; viewers and the
  camera owe nothing, and a viewer may hold a source for ever.
* RollingMerge's `FairSpec`: engines at work go on, the clock moves, transcode
  tasks end, the orphan scan comes round.  Nothing is assumed of the recorder,
  of events or of clients, and `BackLock` is only weakly fair: it may lose the
  try-lock whenever the live engine is at work.
* Offload's: the scan comes round, each worker works, an append under way is
  carried through.  Evictors, retention and the store owe nothing.
* TranscodeQueue's: the ticker runs, each worker runs on, a cancel is finished,
  a stop is completed and followed by a start.  ffmpeg ends, one way or the
  other; callers owe nothing.
* Migration's: requests are answered, the worker goes on, the window turns and,
  each time it is open, is not always missed (strong fairness of `WindowOpens`).

## 4. Proofs

Each component's theorems are in `<Module>_proofs.tla`, MergeLock's in
RollingMerge_proofs and BlockProxy's in Offload_proofs.  The assumptions used are the named `ASSUME`s of the modules, and nothing else.

**StreamHub_proofs.**  `TypeOK` says nothing of what a goroutine holds at each
step, so it is strengthened to `TypeInv` with `LocalsOK`: a producer past Start
holds a frame, one inside the send or the eviction holds an entry, one about to
put a frame back holds it and has scanned less than `Cap`.  The care in
`TypeCorrect` is the sequence arithmetic of the cache and the queues.
`BroadcastSafe` rests on `ClosedInv`, inductive together with `TypeInv`: an
entry a producer holds is not flagged closed, a channel is closed only after
its flag, and a caller about to close one has set the flag.
`DrainsOwned`: an unfinished drain is either subscribed or the target of a
caller inside Unsubscribe; a slot is reused only when its drain is done, so
`DrainHasOwner` is inductive with `TypeInv`.
`ConsumersServed` needs `MapInv` (the snapshot names every subscribed entry, no
two ids share one, no subscribed entry is flagged closed) and `DueInv`: what is
due to a consumer that stays is in the rest of the snapshot or was offered.

`DeltasOrdered`: the frame a producer still has to
offer to an entry is newer than all of its deltas there (`QueueInv`), and what is
put back, replayed or squeezed in is a keyframe (`ControlInv`); three lemmas on
sequences (`AppendKey`, `AppendDelta`, `TakeHead`) carry the order through every
step on a channel.  `DropsCounted`: a delta is in the channel at most once and
never both there and in a producer's hand, which is `DeltasOrdered`'s invariant
again; so each step takes at most one delta out of all places (`DeltaGoes`) and
counts it, and a step that moves keyframes takes none (`KeysMove`).  That the
drain's exit finds no producer at the channel is `ClosedInv`.

**Recording_proofs.**  `RecordedRowHasFile` is not inductive: it needs that the
batch's victims have lost their rows before their files go, that the segment in
hand has no row until it is in "insert" with its final file present, that the
numbers from `next` on are untouched, and that what an orphan scan may remove
(old, not listed) is not the segment that is being given its row.  That is
`RowInv` (`Fresh`, `SegInv`, `ListInv`); `IInv` adds the types and is proved
inductive action by action.  `OpenTempsKept` (an invariant, `OpenTempKept`,
that no run checks), `SweepSparesLive` and `ScanSparesReferenced` follow.

**SubStream_proofs.**  `RefsExact` needs `HolderInv`: until the manager stops,
whoever refers to an entry refers to the current one.  It holds because an
entry is taken out only when its count is zero, and the count is exact: the two
are inductive together.  `ImplementsLease` then maps `CreateEntry` to Open,
`WaitReady` to Grant, the holder's `Release` to Drop, an effective recycle to
Expire, `Stop` to Shut, and everything else to a stutter.  `EntriesEnd` is
`Inv`: that an entry is told of its end at most once needs `LifeInv` (an entry
that is current, or not created yet, has not been handed to a teardown, and one
that has been is told only after its pull), inductive together with `IInv`.

**RollingMerge_proofs.**  `TypeCorrect` for any number of segments, outputs and
any setups: the care is in the records and in the batch's cardinalities.
`SourcesHaveFiles` is `SourceRowHasFile`, strengthened to `IInv`: a segment in
the hands of an engine that is about to delete it has no row any more, nor has
the one a client's deletion still has to remove; each engine deletes files only
after the transaction that took the rows, and a failed transaction goes back.
The three engines, the client and the orphan scan are one lemma each.
`FootageIsKept` is `FootageKept`, from `KInv`: while no client deletes and
buckets are not appended to in place, every row leads to a readable file of its
own, an output that is ready for its commit holds what it replaces, no two
engines have the same output, and the bucket's row leads to the bucket's file
or, for the moment between rename and commit, to the file before it.  Every
step that keeps content and rows is one lemma, `Frame`.  `TaskInputsKept` is
`TaskInputKept`, which is about the steps of the two rolling engines, from `TInv`: what an engine has in hand to delete has no task
that could still start, what can still get a task is still listed by its row,
and a complete hold query (`HoldComplete`, a cardinality) holds every task.
`RowsCover` is `RowCovers`.  `WInv` is general: no two engines have the same
output, the bucket's row lies within the bucket's times, and the wall time
never falls short of the span.  `BInv` is for the classic format: each row
leads to a file of its own that no client is about to remove, an output that is
ready for its commit is in no row, only the bucket's row leads to the bucket's
file, and content lies within the row's or the bucket's times; `BFrame` is the
lemma for the steps that keep content and rows.  `SegmentsCoveredOnce` is
`CoveredOnce`, from `LockKept` (an engine has segments in hand only with the
lock) and `CInv`: what has been folded has no row and, if its file is there
still and in hand, is on its way out; a segment is in one output in use, but for
the bucket's old and new file; no output counts a segment twice; an output ready
for its commit adds nothing folded before.  It rests on `TInv` too: a complete
hold query leaves the batch whole.  So every invariant of RollingMerge is
proved.

**MergeLock** (in RollingMerge_proofs).  `LockTypeCorrect`; `LocksAreOwned`: with either release a
locked mutex belongs to exactly one caller (`LockOwned`, which no run checks);
`MergersExcluded`: with the coordinator's release every mutex a caller has
loaded is the one in the map, so `LockOwned` gives `OneMerger`, for any number
of callers and mutexes.

**Offload_proofs.**  `BooksKept` is `Inv` and `NoneLost` is `NothingLost`, from
one invariant over `OffloadAssumption`.  Neither is inductive.  What a worker
has in hand is uploading or evicted, so nobody claims it (`Held`), and the
workers' hands are disjoint; a recording is uploaded a second time only when it
has grown since (`Again`), so that a request under way never touches an object
that still counts (`Stored`); an evictor that has looked at an object may rely
on it until the local copy is gone (`Listed`); and every recording retention
has left alone is on disk under its row, or in the store, or has grown since its
upload (`Kept`).  The backlog needs the room the scan still has added to the
rows that are on their way for the first time (`Capped`).

**Migration_proofs.**  `RowsIntact` is `RowIntact`, for any roots and any number
of recordings, requests, failed steps, kills, appends and deletions, from
`MigrationAssumption`.  The list the worker goes by may be old (`Known` is all
that stays true of it); the item at work is outside the target, so that source
and target differ, its copy stays until the row is rewritten, and the rewritten
row stays in the target until the source is deleted (`Handled`), unless the
recording is deleted or appended to meanwhile.  `TypeCorrect` is the types, with
an item of the list in hand at every step of a move.  The other half of `Inv`,
`FewLeftovers`, counts files over all recordings and is only model-checked.

**TranscodeQueue_proofs.**  `BooksKept` is `Inv`, `InputsWhole` is `InputWhole`,
`FootageStays` is `FootageKept` and `OutputsKept` the action property
`OutputKept`, all from one invariant, `QueueInv`, over `TranscodeAssumption`.
Workers: the slots the dispatcher still has count with the jobs at work (`Slots`),
since it claims later than it looks.  Backlog: a caller that has counted and not
inserted yet counts as a pending task, and so does a running task no worker will
end (`Doomed`), which a restart may put back; `DoomedBounded` has at most those
of the workers for each crash and stop, and the one a crash caught being
cancelled, and `Lost` and `fails` those whose end was not written.  Files: `CleanAt` (what the input, temporary and backup names may
hold), `AtWorkOf` (the files at each place of a replacement), `HeldAt` (which
name has the footage there) and `FormattedAt` (the format its row has, but for
what is `misfiled`); steps of one worker touch its
recording only (`LocalTo`), so that each file step is one lemma about one
recording.  `Announced` gives the order of segments, tasks and posts that
leaves one task per recording when only segment events enqueue, which is the
second half of `Unshared`.  `MinIn` and `AscendingOnce` are the facts on the
oldest task and on the order of a batch.
The attempt corrected the model three times: `BacklogBounded` had missed the
task a crash catches between the two steps of a cancel, the tasks whose time is
up before ffmpeg starts, and counts that fail and let a task in (queue.go:161);
`InPlace` had missed a restoration that fails after a failed commit; and a CASE
with two guards true at once left open what follows a failed job.

**CameraManager_proofs.**  `CamerasAgree` is `Inv`, `OneRecorderEach`
`OneRecorder`, `RunningReached` `RunningRegistered` and `LatestUsed`
`LatestConfig`, from `IInv` over `CameraAssumption`: any cameras, clients and
operations, each with its own setup.  `CamerasAgree` excepts bare cameras, and
`LatestUsed` is about the settings recorders are restarted for.  `IInv` has three parts.  `Base` relates
the configuration's arrays, the snapshot, the maps and the pollers' tasks in
every setup.  `GuardInv` is for setups whose clients all take the camera's mutex
(`Guarding`): such clients never drop a mutex, so the one a client has loaded is
the one in the map (`OneMutex`), at most one client is between lock and unlock
(`OneInside`), and what it has read is still so; each kind of step is reduced
to one summary, `GuardMove`.  `AloneInv` is for a single client, which may do
everything (`AloneAt`, one fact for each place).  `SliceAdded`, `SliceLeft`,
`SliceCut`, `SlicePointed` and `SliceUpdated` are the facts on Go's slices that
the snapshot's pointers rest on.
The attempt corrected the model: `Alone` had admitted a boot, which puts its
recorder over one a start request has put there meanwhile; with both in one
setup `RunningRegistered` is false (section 5, item 3).

**BlockProxy** (in Offload_proofs).  `CacheIsExact` is `CacheExact` and
`ServedAsAsked` `ServedExactly`, for any object, block size, cap and number of
overlapping requests, from `ProxyInv` over `BlockProxyAssumption`: every cached
block holds the bytes of its stretch (`CacheOK`), so a block two requests fetch
is the same block, and what a request has taken is the range up to the block it
takes next (`RequestsOK`).  Under it are facts on the data: where blocks begin
(`Quotient`, `Multiples`, `BlockBounds`), parts of a stretch and stretches that
meet (`PartOf`, `Joined`), what is fetched is cut into blocks (`CutContents`),
the sizes of disjoint sets of blocks add up (`SizesAdd`), and the list keeps
each block once when blocks move to its front and when its end is evicted
(`ToFrontOnce`, `FrontOnce`).  For these the model counts bytes with a
cardinality and orders the rest of a list by rank; the states are the same.


Only model-checked: all liveness (`BroadcastReturns`, `UnsubscribeReturns`,
`LeftoversReclaimed`, `UnusedGoes`, `TornDown`, `PendingDrains`, `UploadsEnd`,
`TasksEnd`, `HistoryFollows`: liveness under fairness is out of the prover's
reach), and `FewLeftovers` of Migration.  Every other safety and action
property of the passing runs is proved.

## 5. Where the code and its documentation disagree

Properties carry the cases they do not cover in their formulas.  Each such case
is a behaviour the model has and TLC exhibits when the condition is dropped.
The condition that stands for it is named in parentheses.

*Camera manager* (`Guarding \/ Alone`, `wanted`, `bare`)
1. `CameraManagerAlias` (a run of its own): registry.go:31 calls the snapshot
   "an immutable point-in-time view"; its configurations point into
   `cfg.Cameras`, whose array RemoveCamera (crud.go:299) and ArchiveCamera
   (crud.go:423) shift in place.  A restart after it builds the neighbour's
   recorder and leaves the old one running, out of reach (lifecycle.go:320).
2. An addition moves the cameras to a new array, but publishes a new pointer
   for the added camera alone (crud.go:98): after the next update a restart
   uses the configuration of before.
3. Update, removal, protocol-off and the boot of pull cameras work outside the
   guard that "serializes lifecycle operations" (registry.go:175): two updates
   both find no recorder and both start one (crud.go:851); a protocol turned off
   during a restart leaves the restarted recorder running (lifecycle.go:511); a
   restart under way starts the recorder of a removed camera (crud.go:339); the
   removal also drops the mutex, so that the next operation makes a second one;
   a start request during the boot starts a second recorder (lifecycle.go:130):
   the boot looks only at the map and then replaces what is there, so `Alone`
   leaves setups with a boot out.
4. A removal that cannot be saved does not restore `failedStarts`, though it is
   to "restore all four maps symmetrically" (crud.go:310), so that a camera that
   had failed to start is forgotten (`RemoveUnsaved` in `wanted`).  An update
   that cannot be saved is taken back in one step of the model; in between the
   code holds `configMu`, which readers of the snapshot do not take.
5. A publisher that connects to a stopped camera makes a hub that the next start
   replaces (recorder_factory.go:38, against hub.go:24).
   A camera no recorder is made for is stopped by an update or a restart and
   then seen by nobody: createRecorder returns nil before anything is marked
   (recorder_factory.go:114), so it is neither registered nor in `failedStarts`.
   `protocol: timelapse` without timelapse settings is one; the API lets a
   camera's protocol be set to it, and an update has no such settings (`bare`).
   A change of `onvif_endpoint`, of the dark-frame filter or of `mjpeg_form`
   restarts nothing, and what runs has the old one (recorder_builders.go:151,
   crud.go:524; `form`, of which `LatestConfig` says nothing).

*Merging* (`~AppendBucket`, `~Legacy`, `~HoldFails`, `erased = {}`, `HoldLimit`, `Live \/ Backfill`)
6. With `rolling_append_bucket` the sources are deleted before the bucket has
   its name, against the comment at rolling_bucket.go:411: a crash in between
   loses the footage, and rows do not cover what was appended.
7. RollingReplaceRecordings updates the bucket row by id and does not look
   whether it hit one (db_merge.go:310): when a client has deleted the bucket's
   recording, the folded sources' rows go and no row is left.
8. A hold query that fails after the fold keeps the sources as held: they are
   covered by the bucket and stay on disk for the backfill to fold again.
9. The hold looks at the newest tasks up to a limit only (db_transcoding.go:290):
   in a longer queue an older task's input is folded away, and a source that
   was folded before its task left the query's answer is folded once more.  One
   setup of the run has that limit (`HoldComplete`).  The periodic manager does
   not ask at all.  Nor does the orphan scan: rolling_bucket.go:310 says of a
   source kept for a task that "the orphan sweep reclaims it after the task
   finishes", but orphans.go:126-206 looks at rows and at an hour of age only, so
   the input of a task that waits longer goes (`TaskInputKept` is about the
   rolling engines' own steps).
10. I1, "duration == wall span" (rolling_bucket.go:232): a bucket's row has at
    least its span; a batch's row has the sum of its segments' durations, so
    that gaps are missing from it (rolling_batch.go:443).
11. The manager's release deletes the lock's entry after the unlock
    (manager.go:125): two merges of one camera (`~deleteOnRelease`).

*Transcoding* (`Unshared`, `BackupSafe`, `crashes = 0`, `stops = 0`, `timeouts`, `left`, `misfiled`)
12. queue.go:646 "never loses data on crash": between the two renames of a
    replacement no row names either file, and the orphan scan deletes both.
13. A cancel that finds its job between claim and registration marks the row;
    ffmpeg runs on and its progress sets the row to running (queue.go:235).
14. queue.go:135 "Active workers are allowed to finish": their contexts derive
    from the one Stop cancels (queue.go:141), and their tasks end as cancelled.
15. A task that started less than five minutes before a restart stays running
    (queue.go:103), and so does one whose context ends before ffmpeg starts: its
    status is written under the dead context (queue.go:417), and one whose
    status cannot be written (queue.go:513): that is only logged, and the row
    stays running until a restart five minutes later or more (`Abandoned`).
    Each such task, and one that a crash caught between the two steps of a
    cancel, is put back by a later start on top of a full backlog
    (`BacklogBounded`).  When the update of the recording's format fails after a
    replacement (queue.go:705), the row keeps the old format over the new file
    for good (`misfiled`).
16. The clean-up at the start lists one page of 200 tasks and deletes the
    outputs of all others (cleanup.go:26); the deep orphan scan deletes an
    output beside a kept original (orphans.go:183).
17. The create endpoint accepts a recording that has a task at work: two ffmpeg
    share one output name (handlers_transcode.go:373).
    When the commit's rename fails and so does the one that takes the original
    back, the path of the recording stays empty (queue.go:685; `fails < 2`).

*Offload* (`Broken`, `dbFails = 0`, `gone = 0`, `uploaded = footage`)
18. What a late append added after the upload goes with the local row, which the
    evictor clears without a look (evict.go:108).
19. Failed rows return to the head of a first-in first-out queue: as many broken
    ones as are claimed at a time hold up all others (offload.go:411).
20. An update that fails after the upload leaves the row "uploading" until a
    restart (offload.go:515); a recording that a late append has moved is
    looked for under its old name and skipped (offload.go:454).
21. proxy.go:139 "small spans come back fully buffered": a span that touches more
    blocks than fit, or whose first block is the oldest cached, ends in
    "vanished from cache" (`Vanished`; the check at :280 comes too late).

*Migration* (`outages = 0`, `newest = 1`, `requests <= 2`, `late`, `frames`, `KnownRoots`, `fails = 0`)
22. migrator.go:14 "any crash leaves both copies": nothing is flushed before the
    row is rewritten and the source deleted (`outages = 0`).
23. A row is rewritten to what was listed, by id alone (db_migrate.go:203): an
    append in between is undone.  A second migration may then turn the row back
    to the version the append goes on to delete (`newest = 1`).
24. migrator.go:112 "replace any pending/running job": the waiting job is kept
    with its own delete_source, the running one is not in the queue and is
    queued again; Status reports idle meanwhile (migrator.go:141).  With three
    requests, there, back and there again, the history ends in the wrong root.
    What stays behind although the job ends as done: a recording on a root
    that is nobody's override any more, which rootOf does not find and
    moveRecording skips (migrator.go:391); a segment that was open at the
    switch and is finished, on the root it was begun on (manager.go:91), after
    the list was made; a directory of frames, which copyRated cannot read.  A
    save that fails leaves the override in memory switched, with nothing queued
    and the old root back after a restart (handlers_storage_migrate.go:165).
    A step that fails, a kill and a deletion that reads its rows before the move
    each leave a copy no row names, which only the orphan scan takes
    (`FewLeftovers` counts them).

*Hub, recording, sub-streams*
25. Subscribe's replay send may meet a closed channel (streamhub.go:337-342),
    although "all methods are safe for concurrent use" (`ReplayPanics`).
26. trySendIDR may lose a keyframe uncounted (streamhub.go:706-708).
27. The disk-threshold loop does not end when the oldest batch is all in
    processing (disk_threshold.go:43-71).
28. The first cleanup may delete legacy files before the background
    reconciliation registers them (builders_core.go:276-297).
29. A recording that enters processing after the batch has read the statuses is
    deleted (cleanup.go:476-523).
30. StopCamera is a no-op while the source is held (substream.go:397-405), so
    the next Acquire does not re-resolve.
31. SegmentCompleted is published for a row that could not be inserted
    (segment_finalize.go:199-206); UpdateRecordingAIStatus compares ranks with
    `>=` where its comment says "exceeds" (db_recording.go:1279-1295);
    reconciliation never sees nested segments, which the deep scan then deletes
    (manager.go:896-912).

## 6. Not modelled, and what could come next

Protocol and format code (`pkg/`, the camera transports, containers, WebRTC,
HLS), the HTTP handlers' validation, the web UI and configuration parsing are
data transformation and I/O with little shared state of their own; a TLA+ model
would restate them.  They make up most of the source by size, which is why the
modules cover a small share of its lines.  `PROJECT.json` gives the reason for
each component.  What would still repay a model, in this order:

1. `JitterBuffer` in front of StreamHub: size and timer flush of disordered
   frames; the producer's and the timer's batches may interleave.
2. The event bus with its bounded subscriber queues, and the notification
   engine's retries on top of it.
3. The GB28181 platform: SIP dialogs, INVITE retries and media teardown.
4. The health loop with IP rediscovery and the schedules' goroutines, composed
   with CameraManager.
5. The archive deleter and motion-aware retention, composed with Recording.
