-------------------------- MODULE Recording_proofs --------------------------
(***************************************************************************)
(* Theorems about Recording: type correctness, that the row of a recorded  *)
(* segment always has its file, and that no cleaner takes a file that is   *)
(* being written or has a row.                                             *)
(*                                                                         *)
(* RowInv is what makes them inductive: where the recorder's segment may   *)
(* be while it is in a given place of the code, and what the lists that    *)
(* the cleaners work from still say about the rows.                        *)
(***************************************************************************)
EXTENDS Recording, TLAPS

\* Numbers are handed out once; what has not been handed out is nowhere.
Fresh ==
    /\ next > LegacyCount
    /\ \A s \in Segs : s >= next => disk[s] = "none" /\ s \notin row \cup victims
    /\ doomed < next
    /\ old \subseteq OnDisk
    /\ found \subseteq Legacy

\* The segment of the recorder.
SegInv ==
    /\ rpc # "idle" => seg \in Recorded /\ seg < next
    /\ rpc \in {"create", "open", "close", "stat", "insert"} => seg \notin row \cup victims
    /\ rpc \in {"create", "open", "close"} => seg \in active /\ seg # doomed
    /\ rpc = "create" => disk[seg] = "none"
    /\ rpc = "open" /\ ~stalled => disk[seg] = "temp" /\ seg \notin old
    /\ rpc \in {"close", "stat", "insert"} => seg \notin old
    /\ rpc = "insert" => disk[seg] = "final"

\* The lists the cleaners work from.
ListInv ==
    /\ cstep = "deleteFiles" => victims \cap row \cap Recorded = {}
    /\ Scanning => \A s \in row \cap Recorded : s \in refs \/ s \notin old

RowInv == RecordedRowHasFile /\ Fresh /\ SegInv /\ ListInv

IInv == TypeOK /\ RowInv

-----------------------------------------------------------------------------
LEMMA RecorderStep ==
  ASSUME IInv, Recorder
  PROVE  IInv'
  <1> USE RecordingAssumption DEF IInv, RowInv, TypeOK, RecordedRowHasFile, Fresh, SegInv, ListInv,
        Scanning, OnDisk, Segs, Legacy, Recorded, NoSeg, durable, recorder, startup, cleanup
  <1>1. CASE RegisterTemp
    <2>1. TypeOK'
      <3>1. sweeping' \in BOOLEAN /\ stalled' \in BOOLEAN
        BY <1>1, Zenon DEF RegisterTemp
      <3>2. next \in Segs /\ next' \in 1..(MaxSegs + 1)
        BY <1>1 DEF RegisterTemp
      <3> QED BY <1>1, <3>1, <3>2 DEF RegisterTemp
    <2>2. RecordedRowHasFile'
      BY <1>1 DEF RegisterTemp
    <2>3. Fresh'
      BY <1>1 DEF RegisterTemp
    <2>4. SegInv'
      BY <1>1 DEF RegisterTemp
    <2>5. ListInv'
      BY <1>1 DEF RegisterTemp
    <2> QED BY <2>1, <2>2, <2>3, <2>4, <2>5
  <1>2. CASE CreateTemp
    BY <1>2 DEF CreateTemp
  <1>3. CASE CreateFails
    BY <1>3 DEF CreateFails
  <1>4. CASE WriteFrame
    BY <1>4 DEF WriteFrame
  <1>5. CASE CloseMuxer
    BY <1>5 DEF CloseMuxer
  <1>6. CASE CloseMuxerFails
    BY <1>6 DEF CloseMuxerFails
  <1>7. CASE RenameToFinal
    BY <1>7 DEF RenameToFinal
  <1>8. CASE CloseSegmentFails
    BY <1>8 DEF CloseSegmentFails
  <1>9. CASE SyncFails
    BY <1>9 DEF SyncFails
  <1>10. CASE StatFinal
    BY <1>10 DEF StatFinal
  <1>11. CASE InsertRow
    BY <1>11 DEF InsertRow
  <1>12. CASE InsertFails
    BY <1>12 DEF InsertFails
  <1>13. CASE PublishCompleted
    BY <1>13 DEF PublishCompleted
  <1> QED
    BY <1>1, <1>2, <1>3, <1>4, <1>5, <1>6, <1>7, <1>8, <1>9, <1>10, <1>11, <1>12, <1>13
       DEF Recorder, FinalizeSegment

LEMMA StartupStep ==
  ASSUME IInv, Startup
  PROVE  IInv'
  <1> USE RecordingAssumption DEF IInv, RowInv, TypeOK, RecordedRowHasFile, Fresh, SegInv, ListInv,
        Scanning, OnDisk, Segs, Legacy, Recorded, NoSeg, durable, recorder, startup, cleanup
  <1>1. ASSUME NEW s \in Segs, SweepTemp(s)
        PROVE  IInv'
    BY <1>1 DEF SweepTemp
  <1>2. CASE RemoveTemp
    BY <1>2 DEF RemoveTemp
  <1>3. CASE SweepEnds
    <2>1. TypeOK'
      BY <1>3 DEF SweepEnds
    <2>2. RecordedRowHasFile'
      BY <1>3 DEF SweepEnds
    <2>3. Fresh'
      BY <1>3 DEF SweepEnds
    <2>4. SegInv'
      BY <1>3 DEF SweepEnds
    <2>5. ListInv'
      BY <1>3 DEF SweepEnds
    <2> QED BY <2>1, <2>2, <2>3, <2>4, <2>5
  <1>4. CASE ReadCameraDir
    BY <1>4 DEF ReadCameraDir
  <1>5. CASE QueryPaths
    BY <1>5 DEF QueryPaths
  <1>6. CASE InsertOrphans
    BY <1>6 DEF InsertOrphans
  <1>7. CASE ReconcileFails
    BY <1>7 DEF ReconcileFails
  <1> QED BY <1>1, <1>2, <1>3, <1>4, <1>5, <1>6, <1>7 DEF Startup

LEMMA CleanupStep ==
  ASSUME IInv, RunOnce
  PROVE  IInv'
  <1> USE RecordingAssumption DEF IInv, RowInv, TypeOK, RecordedRowHasFile, Fresh, SegInv, ListInv,
        Scanning, OnDisk, Segs, Legacy, Recorded, NoSeg, durable, recorder, startup, cleanup
  <1>1. CASE StartCleanup
    BY <1>1 DEF StartCleanup
  <1>2. CASE SelectExpired
    BY <1>2, ZenonT(60) DEF SelectExpired
  <1>3. CASE CheckUsage
    BY <1>3 DEF CheckUsage
  <1>4. CASE SelectOldest
    BY <1>4, ZenonT(60) DEF SelectOldest, Oldest
  <1>5. CASE ThresholdGivesUp
    BY <1>5 DEF ThresholdGivesUp
  <1>6. CASE FilterProcessing
    BY <1>6, ZenonT(60) DEF FilterProcessing
  <1>7. CASE FilterFails
    BY <1>7 DEF FilterFails
  <1>8. CASE DeleteRows
    BY <1>8 DEF DeleteRows
  <1>9. CASE DeleteFile
    BY <1>9 DEF DeleteFile, Unlink
  <1>10. CASE DeleteFileFails
    BY <1>10 DEF DeleteFileFails
  <1>11. CASE BatchDone
    BY <1>11 DEF BatchDone
  <1>12. CASE ListRefs
    BY <1>12 DEF ListRefs
  <1>13. ASSUME NEW s \in Segs, RemoveOrphan(s)
        PROVE  IInv'
    BY <1>13 DEF RemoveOrphan, Unlink
  <1>14. CASE EndScan
    BY <1>14 DEF EndScan
  <1>15. CASE ListGhosts
    BY <1>15 DEF ListGhosts
  <1>16. CASE DeleteGhosts
    BY <1>16 DEF DeleteGhosts
  <1>17. CASE DeleteGhostsFails
    BY <1>17 DEF DeleteGhostsFails
  <1> QED
    BY <1>1, <1>2, <1>3, <1>4, <1>5, <1>6, <1>7, <1>8, <1>9,
       <1>10, <1>11, <1>12, <1>13, <1>14, <1>15, <1>16, <1>17
       DEF RunOnce, Batch

LEMMA EnvironmentStep ==
  ASSUME IInv, Environment
  PROVE  IInv'
  <1> USE RecordingAssumption DEF IInv, RowInv, TypeOK, RecordedRowHasFile, Fresh, SegInv, ListInv,
        Scanning, OnDisk, Segs, Legacy, Recorded, NoSeg, durable, recorder, startup, cleanup
  <1>1. ASSUME NEW s \in Segs, NEW status \in AIStatuses, UpdateRecordingAIStatus(s, status)
        PROVE  IInv'
    BY <1>1 DEF UpdateRecordingAIStatus
  <1>2. ASSUME NEW s \in Segs, Age(s)
        PROVE  IInv'
    <2>1. TypeOK'
      BY <1>2 DEF Age
    <2>2. RecordedRowHasFile'
      BY <1>2 DEF Age
    <2>3. Fresh'
      BY <1>2 DEF Age
    <2>4. SegInv'
      BY <1>2 DEF Age
    <2>5. ListInv'
      BY <1>2 DEF Age
    <2> QED BY <2>1, <2>2, <2>3, <2>4, <2>5
  <1>3. CASE Crash
    <2>1. TypeOK'
      <3>1. sweeping' \in BOOLEAN /\ stalled' \in BOOLEAN
        BY <1>3, Zenon DEF Crash
      <3>2. crashes' \in 0..MaxCrashes
        BY <1>3 DEF Crash
      <3> QED BY <1>3, <3>1, <3>2 DEF Crash
    <2>2. RecordedRowHasFile'
      BY <1>3 DEF Crash
    <2>3. Fresh'
      BY <1>3 DEF Crash
    <2>4. SegInv'
      BY <1>3 DEF Crash
    <2>5. ListInv'
      BY <1>3 DEF Crash
    <2> QED BY <2>1, <2>2, <2>3, <2>4, <2>5
  <1> QED BY <1>1, <1>2, <1>3 DEF Environment

LEMMA InitInv == Init => IInv
  <1> USE RecordingAssumption DEF Init, Segs, Legacy, Recorded, NoSeg
  <1>1. Init => TypeOK
    <2> SUFFICES ASSUME Init
                 PROVE  TypeOK
      OBVIOUS
    <2>1. sweeping \in BOOLEAN /\ stalled \in BOOLEAN
      BY Zenon
    <2>2. /\ disk \in [Segs -> {"none", "temp", "final"}]
          /\ ai \in [Segs -> AIStatuses \cup {"none"}]
      OBVIOUS
    <2>3. next \in 1..(MaxSegs + 1) /\ crashes \in 0..MaxCrashes /\ old \subseteq Segs
      OBVIOUS
    <2> QED BY <2>1, <2>2, <2>3 DEF TypeOK
  <1>2. Init => RecordedRowHasFile /\ SegInv /\ ListInv
    BY DEF RecordedRowHasFile, SegInv, ListInv, Scanning
  <1>3. Init => Fresh
    BY DEF Fresh, OnDisk
  <1> QED BY <1>1, <1>2, <1>3 DEF IInv, RowInv

LEMMA NextInv == IInv /\ [Next]_vars => IInv'
  <1> SUFFICES ASSUME IInv, [Next]_vars
               PROVE  IInv'
    OBVIOUS
  <1>1. CASE UNCHANGED vars
    BY <1>1 DEF IInv, RowInv, TypeOK, RecordedRowHasFile, Fresh, SegInv, ListInv, Scanning,
                OnDisk, vars, durable, recorder, startup, cleanup
  <1> QED
    BY <1>1, RecorderStep, StartupStep, CleanupStep, EnvironmentStep DEF Next

\* The inductive invariant, in every behaviour.
THEOREM InvHolds == Spec => []IInv
  BY InitInv, NextInv, PTL DEF Spec

\* Every variable keeps its type.
THEOREM RecordingTypes == Spec => []TypeOK
  <1>1. IInv => TypeOK
    BY DEF IInv
  <1> QED BY <1>1, InvHolds, PTL

\* However recorder, start-up, cleanup, failures and crashes interleave, the row
\* of a recorded segment has its file.
THEOREM RowsHaveFiles == Spec => []RecordedRowHasFile
  <1>1. IInv => RecordedRowHasFile
    BY DEF IInv, RowInv
  <1> QED BY <1>1, InvHolds, PTL

\* The temp of a segment that gets its frames stays on disk while it is open.
THEOREM OpenTempsKept == Spec => []OpenTempKept
  <1>1. IInv => OpenTempKept
    BY DEF IInv, RowInv, SegInv, OpenTempKept
  <1> QED BY <1>1, InvHolds, PTL

\* The start-up sweep dooms no temp that is open or being finalized.
THEOREM SweepSparesLive == Spec => LiveTempNotSwept
  <1>1. IInv /\ [Next]_vars
          => [\A s \in Segs : SweepTemp(s) => ~(s = seg /\ rpc \in {"open", "close"})]_vars
    BY DEF IInv, RowInv, SegInv, SweepTemp
  <1> QED BY <1>1, InvHolds, PTL DEF Spec, LiveTempNotSwept

\* An orphan scan, whose list of rows is stale by then, removes no file of a
\* recorded segment that has a row.
THEOREM ScanSparesReferenced == Spec => ReferencedFileKept
  <1>1. IInv /\ [Next]_vars => [\A s \in Recorded : RemoveOrphan(s) => s \notin row]_vars
    BY DEF IInv, RowInv, ListInv, RemoveOrphan
  <1> QED BY <1>1, InvHolds, PTL DEF Spec, ReferencedFileKept
=============================================================================
