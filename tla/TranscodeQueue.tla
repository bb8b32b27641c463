---------------------------- MODULE TranscodeQueue ----------------------------
(***************************************************************************)
(* The transcode queue (internal/transcoding, storage/db_transcoding.go)   *)
(* and the replacement of a recording's file by its transcoded form.       *)
(*                                                                         *)
(* Tasks are rows pending -> running -> completed | failed | cancelled.    *)
(* A dispatcher claims the oldest pending task for each free slot and      *)
(* starts a worker, which runs ffmpeg and then moves four names about:     *)
(* the recording's file, the output, and a temporary and a backup name     *)
(* beside it.  Each statement and each rename is a step; a cancel, a stop  *)
(* of the service, a crash, the orphan scan and retention come in between. *)
(* An ffmpeg whose parent has crashed is taken to end on its broken pipe.  *)
(***************************************************************************)
EXTENDS Naturals, Sequences, FiniteSets, FiniteSetsExt

CONSTANTS
    NumRecs,     \* recordings at most, in the order their segments complete
    MaxTasks,    \* bound: tasks ever created, at most
    Setups       \* configurations and fault budgets to look at, see SetupType

Recs == 1..NumRecs
Tasks == 1..MaxTasks
None == 0

\* recs, tasks: bounds within NumRecs and MaxTasks
\* workers:  number of workers; pending: cap on the backlog
\* callers:  who enqueues
\* replace:  replace_original
\* timeouts: job_timeout is set and may strike
\* sweeping: the deep orphan scan runs
\* window:   tasks the start-up cleanup lists
\* fails:    bound on failed ffmpeg runs, renames, counts of the backlog and
\*           updates of rows
\* cancels, stops, crashes, deletes: bounds on cancel requests, graceful stops,
\*           crashes and recordings retention deletes
SetupType ==
    [recs : 0..NumRecs, tasks : 0..MaxTasks, workers : Nat \ {0}, pending : Nat \ {0},
     callers : SUBSET {"bus", "api", "backfill"}, replace : BOOLEAN, timeouts : BOOLEAN,
     sweeping : BOOLEAN, window : Nat, fails : Nat, cancels : Nat, stops : Nat,
     crashes : Nat, deletes : Nat]

ASSUME TranscodeAssumption ==
    NumRecs \in Nat /\ MaxTasks \in Nat /\ Setups \subseteq SetupType

Ended == {"completed", "failed", "cancelled"}
Names == {"input", "output", "tmp", "bak"}
Contents == {"none", "orig", "part", "mixed", "whole"}  \* mixed: two writers
Whole == {"orig", "whole"}
Places == {"off", "stat", "budget", "quit", "run", "exited", "finish", "remove", "tmp",
           "clear", "bak", "unmove", "commit", "back", "unbak", "format", "end"}

VARIABLES
    setup,      \* the member of Setups this behaviour has, for good
    announced,  \* segments 1..announced have completed
    rows,       \* recordings in the database
    format,     \* recording -> format of its row: "old" or "new"
    doomed,     \* recordings whose row retention has deleted, and not yet the file
    file,       \* recording -> name -> content
    post,       \* caller -> recordings it is about to insert tasks for
    last,       \* tasks created so far are 1..last
    rec,        \* task -> its recording
    status,     \* task -> status, "none" before it is created
    up,         \* "up", "stopping" or "down"
    disp,       \* dispatcher: slots left and the task it has claimed
    active,     \* activeJobs
    ctx,        \* task -> its worker's context: live, cancelled or timeout
    pc,         \* task -> place of its worker
    verdict,    \* task -> outcome of ffmpeg, then status to be written
    writes,     \* task -> name of the file its ffmpeg writes, or "no", "gone"
    killing,    \* task being cancelled whose row is still to be updated, or None
    excused,    \* history: tasks with a reason to be cancelled
    left,       \* history: tasks whose end was not written to their row
    misfiled,   \* history: recordings whose row was not told of the new file
    fails, cancels, stops, crashes, deletes

rowVars == <<announced, rows, format, doomed, misfiled>>
recVars == <<rowVars, file>>
taskVars == <<post, last, rec, status, left>>
workVars == <<active, ctx, pc, verdict, writes>>
countVars == <<cancels, stops, crashes, deletes>>
moving == <<recVars, taskVars, up, disp, workVars, killing, excused, fails, countVars>>
vars == <<setup, moving>>

MaxWorkers == setup.workers
MaxPending == setup.pending
Callers == setup.callers
Replace == setup.replace

NoFiles == [n \in Names |-> "none"]
Idle == [slots |-> 0, task |-> None]

Init ==
    /\ setup \in Setups
    /\ announced = 0 /\ rows = {} /\ doomed = {} /\ left = {} /\ misfiled = {}
    /\ format = [r \in Recs |-> "old"] /\ file = [r \in Recs |-> NoFiles]
    /\ post = [c \in Callers |-> {}]
    /\ last = 0 /\ rec = [t \in Tasks |-> None] /\ status = [t \in Tasks |-> "none"]
    /\ up = "up" /\ disp = Idle
    /\ active = {} /\ ctx = [t \in Tasks |-> "live"] /\ pc = [t \in Tasks |-> "off"]
    /\ verdict = [t \in Tasks |-> "none"] /\ writes = [t \in Tasks |-> "no"]
    /\ killing = None /\ excused = {} /\ fails = 0
    /\ cancels = 0 /\ stops = 0 /\ crashes = 0 /\ deletes = 0

With(S) == {t \in Tasks : status[t] \in S}
Fault == fails < setup.fails /\ fails' = fails + 1
WorkersOf(r) == {t \in Tasks : rec[t] = r /\ pc[t] # "off"}

----------------------------------------------------------------------------
(* Enqueueing: the backlog is counted, later the row inserted *)

Room == Cardinality(With({"pending"})) < MaxPending

(* The count is advisory: when it fails the task is let in. *)
Admitted == (Room /\ UNCHANGED fails) \/ Fault

(* A segment completes; the manager's subscriber counts, and drops it when full. *)
SegmentCompleted ==
    /\ up = "up" /\ announced < setup.recs /\ post["bus"] = {}
    /\ LET r == announced + 1 IN
       /\ announced' = r /\ rows' = rows \cup {r}
       /\ file' = [file EXCEPT ![r]["input"] = "orig"]
       /\ \/ Admitted /\ post' = [post EXCEPT !["bus"] = {r}]
          \/ ~Room /\ UNCHANGED <<post, fails>>
    /\ UNCHANGED <<format, doomed, misfiled, last, rec, status, left, up, disp, workVars, killing, excused, countVars>>

(* The create endpoint, for any recording. *)
PostTask(r) ==
    /\ up = "up" /\ post["api"] = {} /\ r \in rows /\ Admitted
    /\ post' = [post EXCEPT !["api"] = {r}]
    /\ UNCHANGED <<recVars, last, rec, status, left, up, disp, workVars, killing, excused, countVars>>

(* The retry endpoint: a new task in the likeness of a failed one. *)
RetryTask(t) ==
    /\ up = "up" /\ post["api"] = {} /\ status[t] = "failed" /\ Admitted
    /\ post' = [post EXCEPT !["api"] = {rec[t]}]
    /\ UNCHANGED <<recVars, last, rec, status, left, up, disp, workVars, killing, excused, countVars>>

(* The backfill endpoint lists the recordings that never had a task; no cap. *)
Backfill ==
    /\ up = "up" /\ post["backfill"] = {}
    /\ LET bare == {r \in rows : \A t \in Tasks : rec[t] # r} IN
       /\ bare # {}
       /\ post' = [post EXCEPT !["backfill"] = bare]
    /\ UNCHANGED <<recVars, last, rec, status, left, up, disp, workVars, killing, excused, fails, countVars>>

(* The recordings of a batch, in the order their segments completed. *)
Ascending(batch) ==
    CHOOSE s \in [1..Cardinality(batch) -> batch] : \A i, j \in DOMAIN s : i < j => s[i] < s[j]

(* A batch is one transaction. *)
InsertTasks(c) ==
    /\ up = "up" /\ post[c] # {} /\ last + Cardinality(post[c]) <= setup.tasks
    /\ LET new == Ascending(post[c]) IN
       /\ rec' = [t \in Tasks |-> IF t - last \in DOMAIN new THEN new[t - last] ELSE rec[t]]
       /\ status' = [t \in Tasks |-> IF t - last \in DOMAIN new THEN "pending" ELSE status[t]]
       /\ last' = last + Len(new)
    /\ post' = [post EXCEPT ![c] = {}]
    /\ UNCHANGED <<recVars, left, up, disp, workVars, killing, excused, fails, countVars>>

----------------------------------------------------------------------------
(* The dispatcher *)

FreeSlots == MaxWorkers - Cardinality(active)

Tick ==
    /\ up = "up" /\ disp = Idle /\ FreeSlots > 0
    /\ disp' = [disp EXCEPT !.slots = FreeSlots]
    /\ UNCHANGED <<recVars, taskVars, up, workVars, killing, excused, fails, countVars>>

(* DequeueTask claims the oldest pending row; with none, or a dead context, the tick ends. *)
Dequeue ==
    /\ up # "down" /\ disp.slots > 0 /\ disp.task = None
    /\ IF up = "up" /\ With({"pending"}) # {}
       THEN LET t == Min(With({"pending"})) IN
            /\ status' = [status EXCEPT ![t] = "running"]
            /\ disp' = [disp EXCEPT !.task = t]
       ELSE disp' = Idle /\ UNCHANGED status
    /\ UNCHANGED <<recVars, post, last, rec, left, up, workVars, killing, excused, fails, countVars>>

StartWorker ==
    /\ up # "down" /\ disp.task # None
    /\ LET t == disp.task IN
       /\ active' = active \cup {t}
       /\ ctx' = [ctx EXCEPT ![t] = IF up = "up" THEN "live" ELSE "cancelled"]
       /\ pc' = [pc EXCEPT ![t] = "stat"]
    /\ disp' = [slots |-> disp.slots - 1, task |-> None]
    /\ UNCHANGED <<recVars, taskVars, up, verdict, writes, killing, excused, fails, countVars>>

----------------------------------------------------------------------------
(* A worker, up to ffmpeg's exit *)

(* The end of task t is written to its row; a write that fails is logged. *)
Write(t, s) ==
    \/ status' = [status EXCEPT ![t] = s] /\ UNCHANGED <<left, fails>>
    \/ UNCHANGED status /\ left' = left \cup {t} /\ Fault

(* The same under the job's own context: a dead one refuses it. *)
WriteLive(t, s) ==
    \/ ctx[t] = "live" /\ Write(t, s)
    \/ ctx[t] # "live" /\ left' = left \cup {t} /\ UNCHANGED <<status, fails>>

(* Mutant: nothing to do, nothing to write *)
StatInputSilent(t) ==
    /\ pc[t] = "stat"
    /\ pc' = [pc EXCEPT ![t] = IF file[rec[t]]["input"] = "none" THEN "end" ELSE "budget"]
    /\ UNCHANGED <<recVars, taskVars, up, disp, active, ctx, verdict, writes,
                   killing, excused, fails, countVars>>

(* #810: the input has vanished: cancelled quietly. *)
StatInput(t) ==
    /\ pc[t] = "stat"
    /\ IF file[rec[t]]["input"] = "none"
       THEN /\ verdict' = [verdict EXCEPT ![t] = "cancelled"]
            /\ excused' = excused \cup {t}
            /\ pc' = [pc EXCEPT ![t] = "quit"]
       ELSE pc' = [pc EXCEPT ![t] = "budget"] /\ UNCHANGED <<verdict, excused>>
    /\ UNCHANGED <<recVars, taskVars, up, disp, active, ctx, writes, killing, fails, countVars>>

(* The wait for the I/O budget ends with the context. *)
BudgetInterrupted(t) ==
    /\ pc[t] = "budget" /\ ctx[t] # "live"
    /\ Write(t, "cancelled")
    /\ excused' = IF ctx[t] = "timeout" THEN excused \cup {t} ELSE excused
    /\ pc' = [pc EXCEPT ![t] = "end"]
    /\ UNCHANGED <<recVars, post, last, rec, up, disp, active, ctx, verdict, writes,
                   killing, countVars>>

(* ffmpeg cannot be started; under a dead context it never is. *)
StartFails(t) ==
    /\ pc[t] = "budget"
    /\ IF ctx[t] = "live" THEN Fault ELSE UNCHANGED fails
    /\ verdict' = [verdict EXCEPT ![t] = "failed"]
    /\ pc' = [pc EXCEPT ![t] = "quit"]
    /\ UNCHANGED <<recVars, taskVars, up, disp, active, ctx, writes, killing, excused, countVars>>

(* What ends before ffmpeg starts is written under the job's context. *)
Quit(t) ==
    /\ pc[t] = "quit"
    /\ WriteLive(t, verdict[t])
    /\ verdict' = [verdict EXCEPT ![t] = "none"]
    /\ pc' = [pc EXCEPT ![t] = "end"]
    /\ UNCHANGED <<recVars, post, last, rec, up, disp, active, ctx, writes, killing,
                   excused, countVars>>

(* ffmpeg -y opens what is at the output's name and truncates it. *)
Truncated(t) ==
    IF \E u \in Tasks \ {t} : rec[u] = rec[t] /\ writes[u] = "output" THEN "mixed" ELSE "part"

(* It reads its input first: what is no whole file ends it with an error. *)
StartFfmpeg(t) ==
    /\ pc[t] = "budget" /\ ctx[t] = "live"
    /\ IF file[rec[t]]["input"] \in Whole
       THEN /\ file' = [file EXCEPT ![rec[t]]["output"] = Truncated(t)]
            /\ writes' = [writes EXCEPT ![t] = "output"]
            /\ pc' = [pc EXCEPT ![t] = "run"] /\ UNCHANGED verdict
       ELSE /\ verdict' = [verdict EXCEPT ![t] = "failed"]
            /\ pc' = [pc EXCEPT ![t] = "exited"]
            /\ UNCHANGED <<file, writes>>
    /\ UNCHANGED <<rowVars, taskVars, up, disp, active, ctx, killing,
                   excused, fails, countVars>>

(* A line of ffmpeg's progress: the row is set to running, whatever it is. *)
Progress(t) ==
    /\ pc[t] = "run" /\ ctx[t] = "live"
    /\ status' = [status EXCEPT ![t] = "running"]
    /\ UNCHANGED <<recVars, post, last, rec, left, up, disp, workVars, killing, excused, fails, countVars>>

FfmpegSucceeds(t) ==
    /\ pc[t] = "run"
    /\ file' = IF writes[t] \in Names /\ file[rec[t]][writes[t]] = "part"
               THEN [file EXCEPT ![rec[t]][writes[t]] = "whole"] ELSE file
    /\ verdict' = [verdict EXCEPT ![t] = "completed"]
    /\ writes' = [writes EXCEPT ![t] = "no"]
    /\ pc' = [pc EXCEPT ![t] = "exited"]
    /\ UNCHANGED <<rowVars, taskVars, up, disp, active, ctx, killing,
                   excused, fails, countVars>>

(* An error of its own, or the context's end, which kills it. *)
FfmpegFails(t) ==
    /\ pc[t] = "run"
    /\ IF ctx[t] = "live" THEN Fault ELSE UNCHANGED fails
    /\ verdict' = [verdict EXCEPT ![t] = "failed"]
    /\ writes' = [writes EXCEPT ![t] = "no"]
    /\ pc' = [pc EXCEPT ![t] = "exited"]
    /\ UNCHANGED <<recVars, taskVars, up, disp, active, ctx, killing, excused, countVars>>

(* Mutant: what ffmpeg returned is not looked at *)
DecideSucceeded(t) ==
    /\ pc[t] = "exited"
    /\ verdict' = [verdict EXCEPT ![t] = "completed"]
    /\ pc' = [pc EXCEPT ![t] = "finish"]
    /\ UNCHANGED <<recVars, taskVars, up, disp, active, ctx, writes, killing, excused, fails, countVars>>

(* The select on the context, and the status it decides for. *)
Decide(t) ==
    /\ pc[t] = "exited"
    /\ verdict' = [verdict EXCEPT ![t] = CASE ctx[t] = "timeout" -> "failed"
                                           [] ctx[t] = "cancelled" -> "cancelled"
                                           [] OTHER -> verdict[t]]
    /\ pc' = [pc EXCEPT ![t] = "finish"]
    /\ UNCHANGED <<recVars, taskVars, up, disp, active, ctx, writes, killing, excused, fails, countVars>>

AfterFinish(v) ==
    IF v # "completed" THEN "remove" ELSE IF Replace THEN "tmp" ELSE "end"

FinishTask(t) ==
    /\ pc[t] = "finish"
    /\ Write(t, verdict[t])
    /\ pc' = [pc EXCEPT ![t] = AfterFinish(verdict[t])]
    /\ verdict' = [verdict EXCEPT ![t] = "none"]
    /\ UNCHANGED <<recVars, post, last, rec, up, disp, active, ctx, writes,
                   killing, excused, countVars>>

----------------------------------------------------------------------------
(* Names: a file renamed takes its writers along, one replaced leaves them none *)

Moved(r, a, b) ==
    [t \in Tasks |-> CASE rec[t] = r /\ writes[t] = a -> b
                       [] rec[t] = r /\ writes[t] = b -> "gone"
                       [] OTHER -> writes[t]]
Rename(r, a, b) ==
    /\ file[r][a] # "none"
    /\ file' = [file EXCEPT ![r] = [@ EXCEPT ![b] = file[r][a], ![a] = "none"]]
    /\ writes' = Moved(r, a, b)
Unlink(r, n) ==
    /\ file' = [file EXCEPT ![r][n] = "none"]
    /\ writes' = [t \in Tasks |-> IF rec[t] = r /\ writes[t] = n THEN "gone" ELSE writes[t]]

(* A rename that cannot be done, or fails. *)
RenameFails(r, a) ==
    /\ IF file[r][a] = "none" THEN UNCHANGED fails ELSE Fault
    /\ UNCHANGED <<file, writes>>

(* A step of worker t from place a to place b, by an action on the files. *)
At(t, a, b) == pc[t] = a /\ pc' = [pc EXCEPT ![t] = b]
FilesOnly == UNCHANGED <<rowVars, taskVars, up, disp, active, ctx,
                         verdict, killing, excused, countVars>>

RemoveOutput(t) ==
    /\ At(t, "remove", "end") /\ Unlink(rec[t], "output")
    /\ UNCHANGED fails /\ FilesOnly

----------------------------------------------------------------------------
(* replaceOriginal *)

(* Step 1: the output is moved to the temporary name. *)
MoveOutput(t) ==
    /\ \/ At(t, "tmp", "clear") /\ Rename(rec[t], "output", "tmp") /\ UNCHANGED fails
       \/ At(t, "tmp", "end") /\ RenameFails(rec[t], "output")
    /\ FilesOnly

(* Step 2: a stale backup is removed, the original moved to its name. *)
ClearBackup(t) ==
    /\ At(t, "clear", "bak") /\ Unlink(rec[t], "bak")
    /\ UNCHANGED fails /\ FilesOnly

MoveOriginal(t) ==
    /\ \/ At(t, "bak", "commit") /\ Rename(rec[t], "input", "bak") /\ UNCHANGED fails
       \/ At(t, "bak", "unmove") /\ RenameFails(rec[t], "input")
    /\ FilesOnly

RestoreOutput(t) ==
    /\ At(t, "unmove", "end")
    /\ \/ Rename(rec[t], "tmp", "output") /\ UNCHANGED fails
       \/ RenameFails(rec[t], "tmp")
    /\ FilesOnly

(* Step 3: the commit point. *)
Commit(t) ==
    /\ \/ At(t, "commit", "unbak") /\ Rename(rec[t], "tmp", "input") /\ UNCHANGED fails
       \/ At(t, "commit", "back") /\ RenameFails(rec[t], "tmp")
    /\ FilesOnly

(* Mutant: the transcoded file is put back, the original forgotten *)
RestoreOriginalNot(t) ==
    /\ At(t, "back", "unmove") /\ UNCHANGED <<file, writes, fails>> /\ FilesOnly

RestoreOriginal(t) ==
    /\ \/ At(t, "back", "unmove") /\ Rename(rec[t], "bak", "input") /\ UNCHANGED fails
       \/ At(t, "back", "end") /\ RenameFails(rec[t], "bak")
    /\ FilesOnly

(* Step 4: the backup goes. *)
RemoveBackup(t) ==
    /\ At(t, "unbak", "format") /\ Unlink(rec[t], "bak")
    /\ UNCHANGED fails /\ FilesOnly

(* Step 5: the row's format; an update that fails is logged. *)
UpdateFormat(t) ==
    /\ pc[t] = "format" /\ pc' = [pc EXCEPT ![t] = "end"]
    /\ \/ /\ format' = IF rec[t] \in rows THEN [format EXCEPT ![rec[t]] = "new"] ELSE format
          /\ UNCHANGED <<misfiled, fails>>
       \/ misfiled' = misfiled \cup {rec[t]} /\ Fault /\ UNCHANGED format
    /\ UNCHANGED <<announced, rows, doomed, file, taskVars, up, disp, active, ctx, verdict,
                   writes, killing, excused, countVars>>

Deregister(t) ==
    /\ At(t, "end", "off") /\ active' = active \ {t}
    /\ UNCHANGED <<recVars, taskVars, up, disp, ctx, verdict, writes, killing, excused, fails, countVars>>

----------------------------------------------------------------------------
(* Cancel, timeout, stop, crash, start *)

(* CancelTask: the context of a registered job, then the row.  The endpoint's *)
(* earlier look at the status adds nothing: neither step disturbs an ended task. *)
CancelJob(t) ==
    /\ up = "up" /\ killing = None /\ status[t] \in {"pending", "running"}
    /\ cancels < setup.cancels /\ cancels' = cancels + 1
    /\ ctx' = IF t \in active /\ ctx[t] = "live" THEN [ctx EXCEPT ![t] = "cancelled"] ELSE ctx
    /\ killing' = t /\ excused' = excused \cup {t}
    /\ UNCHANGED <<recVars, taskVars, up, disp, active, pc, verdict, writes, fails, stops, crashes, deletes>>

CancelRow ==
    /\ up # "down" /\ killing # None
    /\ \/ /\ status' = IF status[killing] \in {"pending", "running"}
                      THEN [status EXCEPT ![killing] = "cancelled"] ELSE status
          /\ UNCHANGED fails
       \/ Fault /\ UNCHANGED status
    /\ killing' = None
    /\ UNCHANGED <<recVars, post, last, rec, left, up, disp, workVars, excused, countVars>>

JobTimeout(t) ==
    /\ setup.timeouts /\ pc[t] \in {"budget", "quit", "run", "exited"} /\ ctx[t] = "live"
    /\ ctx' = [ctx EXCEPT ![t] = "timeout"]
    /\ UNCHANGED <<recVars, taskVars, up, disp, active, pc, verdict, writes, killing,
                   excused, fails, countVars>>

(* Stop cancels the context every worker's derives from. *)
Stop ==
    /\ up = "up" /\ stops < setup.stops /\ stops' = stops + 1
    /\ up' = "stopping"
    /\ ctx' = [t \in Tasks |-> IF t \in active /\ ctx[t] = "live" THEN "cancelled" ELSE ctx[t]]
    /\ post' = [c \in Callers |-> {}]
    /\ UNCHANGED <<recVars, last, rec, status, left, disp, active, pc, verdict, writes, killing,
                   excused, fails, cancels, crashes, deletes>>

Stopped ==
    /\ up = "stopping" /\ active = {} /\ disp = Idle /\ killing = None
    /\ up' = "down" /\ doomed' = {}
    /\ UNCHANGED <<announced, rows, format, misfiled, file, taskVars, disp, workVars, killing,
                   excused, fails, countVars>>

(* A task that has a worker, or the dispatcher's claim, is left running. *)
Crash ==
    /\ up # "down" /\ crashes < setup.crashes /\ crashes' = crashes + 1
    /\ up' = "down" /\ disp' = Idle /\ active' = {}
    /\ ctx' = [t \in Tasks |-> "live"] /\ pc' = [t \in Tasks |-> "off"]
    /\ verdict' = [t \in Tasks |-> "none"] /\ writes' = [t \in Tasks |-> "no"]
    /\ post' = [c \in Callers |-> {}] /\ killing' = None /\ doomed' = {}
    /\ left' = left \cup With({"running"})
    /\ UNCHANGED <<announced, rows, format, misfiled, file, last, rec, status, excused, fails,
                   cancels, stops, deletes>>

(* Run: running tasks that started five minutes ago go back to pending; then *)
(* outputs that none of the newest tasks names are deleted.                  *)
RecoverStuck(old) == [t \in Tasks |-> IF t \in old THEN "pending" ELSE status[t]]

(* Mutant: what tasks that have ended left is taken for litter *)
ListedOpen == {rec[t] : t \in {u \in 1..last : status[u] \notin Ended}}

Listed == {rec[t] : t \in {u \in 1..last : u > last - setup.window}}

Start(old) ==
    /\ up = "down" /\ up' = "up"
    /\ status' = RecoverStuck(old) /\ left' = left \ old
    /\ file' = [r \in Recs |-> IF r \in Listed THEN file[r]
                                ELSE [file[r] EXCEPT !["output"] = "none"]]
    /\ UNCHANGED <<rowVars, post, last, rec, disp, workVars, killing, excused, fails, countVars>>

----------------------------------------------------------------------------
(* The rest of the program *)

(* Retention deletes the row of a recording, and then the file at the path *)
(* that the row had when retention listed it, whatever is there by now.    *)
DeleteRow(r) ==
    /\ up # "down" /\ r \in rows /\ deletes < setup.deletes /\ deletes' = deletes + 1
    /\ rows' = rows \ {r} /\ doomed' = doomed \cup {r}
    /\ UNCHANGED <<announced, format, misfiled, file, taskVars, up, disp, workVars, killing,
                   excused, fails, cancels, stops, crashes>>

DeleteFile(r) ==
    /\ r \in doomed /\ doomed' = doomed \ {r}
    /\ Unlink(r, "input")
    /\ UNCHANGED <<announced, rows, format, misfiled, taskVars, up, disp, active, ctx, pc,
                   verdict, killing, excused, fails, countVars>>

(* The deep orphan scan deletes files an hour old that no row names: an *)
(* original has that age at any time, a new file when no worker is at it. *)
Orphans(r) ==
    {n \in Names : /\ n = "input" => r \notin rows
                   /\ file[r][n] # "none"
                   /\ file[r][n] = "orig" \/ WorkersOf(r) = {}}

Sweep(r) ==
    /\ setup.sweeping /\ up # "down" /\ \E n \in Orphans(r) : Unlink(r, n)
    /\ UNCHANGED <<fails, pc>> /\ FilesOnly

----------------------------------------------------------------------------
Worker(t) ==
    \/ StatInput(t) \/ BudgetInterrupted(t) \/ Quit(t) \/ StartFfmpeg(t)
    \/ FfmpegSucceeds(t) \/ FfmpegFails(t) \/ Decide(t) \/ FinishTask(t) \/ RemoveOutput(t)
    \/ MoveOutput(t) \/ ClearBackup(t) \/ MoveOriginal(t) \/ RestoreOutput(t) \/ Commit(t)
    \/ RestoreOriginal(t) \/ RemoveBackup(t) \/ UpdateFormat(t) \/ Deregister(t)

Service == Dequeue \/ StartWorker \/ CancelRow \/ Stopped \/ Tick

Move ==
    \/ Service
    \/ \E t \in Tasks : Worker(t) \/ StartFails(t) \/ Progress(t) \/ CancelJob(t) \/ JobTimeout(t)
    \/ "bus" \in Callers /\ SegmentCompleted
    \/ "api" \in Callers /\ ((\E r \in Recs : PostTask(r)) \/ (\E t \in Tasks : RetryTask(t)))
    \/ "backfill" \in Callers /\ Backfill
    \/ \E c \in Callers : InsertTasks(c)
    \/ Stop \/ Crash
    \/ \E old \in SUBSET With({"running"}) : Start(old)
    \/ \E r \in Recs : DeleteRow(r) \/ DeleteFile(r) \/ Sweep(r)

Next == Move /\ UNCHANGED setup

Spec == Init /\ [][Next]_vars

(* The ticker ticks, workers go on and ffmpeg ends; the service is started again. *)
FairSpec ==
    /\ Spec
    /\ WF_moving(Tick \/ Dequeue \/ StartWorker) /\ WF_moving(CancelRow) /\ WF_moving(Stopped)
    /\ \A t \in Tasks : WF_moving(Worker(t))
    /\ WF_moving(\E old \in SUBSET With({"running"}) : Start(old))

----------------------------------------------------------------------------
(* Properties *)

TypeOK ==
    /\ setup \in Setups
    /\ announced \in 0..NumRecs /\ rows \subseteq 1..announced
    /\ doomed \subseteq (1..announced) \ rows
    /\ format \in [Recs -> {"old", "new"}] /\ file \in [Recs -> [Names -> Contents]]
    /\ post \in [Callers -> SUBSET Recs]
    /\ last \in 0..MaxTasks /\ rec \in [Tasks -> 0..NumRecs]
    /\ status \in [Tasks -> {"none", "pending", "running"} \cup Ended]
    /\ \A t \in Tasks : (t <= last) = (status[t] # "none") /\ (t <= last) = (rec[t] # None)
    /\ up \in {"up", "stopping", "down"}
    /\ disp \in [slots : 0..MaxWorkers, task : 0..MaxTasks]
    /\ active = {t \in Tasks : pc[t] # "off"}
    /\ ctx \in [Tasks -> {"live", "cancelled", "timeout"}]
    /\ pc \in [Tasks -> Places]
    /\ verdict \in [Tasks -> {"none"} \cup Ended]
    /\ writes \in [Tasks -> Names \cup {"no", "gone"}]
    /\ killing \in 0..MaxTasks /\ excused \subseteq Tasks
    /\ left \subseteq Tasks /\ misfiled \subseteq Recs
    /\ fails \in 0..setup.fails /\ cancels \in 0..setup.cancels /\ stops \in 0..setup.stops
    /\ crashes \in 0..setup.crashes /\ deletes \in 0..setup.deletes

(* No more ffmpeg processes than workers are configured: the dispatcher    *)
(* counts the slots once and claims later, while jobs come to their end.   *)
WorkersBounded == Cardinality({t \in Tasks : pc[t] # "off"}) <= MaxWorkers

(* The backlog exceeds its cap by no more than the callers that counted    *)
(* at the same time, the counts and the writes of a task's end that        *)
(* failed, and the tasks a restart puts back: those the workers had, and   *)
(* one a crash caught being cancelled.  The backfill endpoint knows no     *)
(* cap, and a task whose time is up before ffmpeg starts stays running     *)
(* until a restart puts it back.                                           *)
BacklogBounded ==
    "backfill" \notin Callers /\ ~setup.timeouts =>
        Cardinality(With({"pending"})) <=
            MaxPending + Cardinality(Callers) - 1 + fails
                + MaxWorkers * (crashes + stops) + crashes

(* Two workers on one recording share its output, temporary and backup     *)
(* names: this can come of the create and retry endpoints, and nothing     *)
(* holds then of the recording's files.                                    *)
Unshared == MaxWorkers = 1 \/ Callers = {"bus"}

(* What is at a recording's path is never a file ffmpeg has not finished:  *)
(* a job that fails or is killed never gets there.                         *)
InputWhole == Unshared => \A r \in Recs : file[r]["input"] \in Whole \cup {"none"}

(* The orphan scan knows no backup names: between the two renames of a     *)
(* replacement it takes the original's, which a crash or a failed rename   *)
(* then leaves as the only copy.                                           *)
BackupSafe == setup.sweeping => crashes = 0 /\ fails = 0

(* A recording that retention has not taken has its footage whole in some  *)
(* file at every moment of a replacement.                                  *)
FootageKept == Unshared /\ BackupSafe => \A r \in rows : \E n \in Names : file[r][n] \in Whole

(* When no job is at work on a recording its file is in its place, unless  *)
(* a crash cut a replacement short, or the commit failed and then the      *)
(* restoration of the original too; and the row's format is the file's,    *)
(* unless the very update that was to say so has failed: that is logged,   *)
(* and the row keeps the old format over the replaced file.                *)
InPlace ==
    Unshared /\ BackupSafe /\ crashes = 0 =>
        \A r \in rows : WorkersOf(r) = {} =>
            /\ file[r]["input"] # "none" \/ fails > 1
            /\ \/ format[r] = IF file[r]["input"] = "orig" THEN "old" ELSE "new"
               \/ r \in misfiled \/ file[r]["input"] = "none"

(* Only tasks the user cancelled, or whose input vanished, or that ran out *)
(* of time in the queue for I/O, are cancelled; a stop of the service      *)
(* cancels what is running too.                                            *)
CancelledForCause == stops = 0 => With({"cancelled"}) \subseteq excused

(* The queue keeps its books: limits hold, a file that nobody works on is   *)
(* in its place with its format in its row, and a cancel has a cause.       *)
Inv == TypeOK /\ WorkersBounded /\ BacklogBounded /\ InPlace /\ CancelledForCause

(* A transcoded file beside an original that is kept stays there, as long  *)
(* as the clean-up at the start lists all tasks and no orphan scan runs:   *)
(* neither knows the outputs of other tasks.                               *)
OutputKept ==
    [][~setup.sweeping /\ last <= setup.window =>
        \A r \in rows : file[r]["output"] = "whole" /\ WorkersOf(r) = {} =>
            file'[r]["output"] = "whole" \/ WorkersOf(r)' # {}]_vars

(* Every task comes to an end, or is left running by a worker that is gone *)
(* and whose last word did not reach the row: the write failed, the job's  *)
(* context had run out or been cancelled before ffmpeg started, or the     *)
(* program crashed.  No other task waits or runs for ever, through stops,  *)
(* timeouts and restarts; and what a restart puts back, ends.              *)
Abandoned(t) == status[t] = "running" /\ pc[t] = "off" /\ t # disp.task /\ t \in left

TasksEnd ==
    \A t \in Tasks :
        status[t] \in {"pending", "running"} ~> status[t] \in Ended \/ Abandoned(t)

===============================================================================
