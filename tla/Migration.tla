------------------------------ MODULE Migration ------------------------------
(***************************************************************************)
(* The background migrator (internal/migration) moves one camera's         *)
(* recordings from one storage root to another while the camera records,   *)
(* the rolling merge appends and retention deletes.                        *)
(*                                                                         *)
(* A request switches the root, saves the configuration and enqueues a     *)
(* job; one worker lists the rows outside the job's target once and then   *)
(* takes them in order: copy to a temporary name and rename, rewrite the   *)
(* row, delete the source.  Each of these is a step.  A file is            *)
(* <<recording, root, version>>; an append writes the next version to the  *)
(* root in use, moves the row there and deletes the one before.  The       *)
(* process may be killed and the power may fail: then what was not flushed *)
(* is torn, and commits since the last checkpoint may be undone.           *)
(*                                                                         *)
(* Timelapse merges are left out: only a directory of frames gets a        *)
(* merge_path, and a directory is never copied.                            *)
(***************************************************************************)
EXTENDS Naturals, Sequences, FiniteSets

CONSTANTS
    NumRecs,     \* recordings ever finished at most, oldest first
    Roots,       \* storage roots; none lies inside another
    Home,        \* the default root, on which recording starts
    None,        \* no root
    MaxVersion,  \* bound: versions of a recording at most
    Setups       \* configurations and fault budgets to look at, see SetupType

Recs == 1..NumRecs
Versions == 1..MaxVersion
Files == Recs \X Roots \X Versions

\* recs:     recordings; versions: 1 without late appends
\* windowed: a migration window is configured
\* frames:   recordings kept as a directory of frames
\* shared:   roots that are other cameras' overrides
\* requests, fails, kills, outages, deletes: bounds on requests to switch the
\*           root, failed copies, updates and saves, kills of the process, power
\*           failures and recordings retention deletes
SetupType ==
    [recs : 0..NumRecs, versions : Versions, windowed : BOOLEAN, frames : SUBSET Recs,
     shared : SUBSET Roots, requests : Nat, fails : Nat, kills : Nat, outages : Nat, deletes : Nat]

ASSUME MigrationAssumption ==
    /\ NumRecs \in Nat /\ MaxVersion \in Nat \ {0} /\ IsFiniteSet(Roots)
    /\ Home \in Roots /\ None \notin Roots /\ Setups \subseteq SetupType

NoRow == [root |-> Home, version |-> 0]
Rows == [root : Roots, version : Versions]

VARIABLES
    setup,   \* the member of Setups this behaviour has, for good
    last,    \* recordings finished so far are 1..last
    segment, \* the root the open segment is written to, or None
    root,    \* the root the camera's next segment is written to
    conf,    \* the root in the saved configuration
    disk,    \* files, <<recording, root, version>>
    dirty,   \* files whose content is not flushed
    torn,    \* files whose content is lost
    row,     \* recording -> [root, version] or NoRow
    saved,   \* row as of the last checkpoint
    bucket,  \* recording -> the root of its open bucket's file, or None
    grow,    \* recording -> late append: "no", "written" or "committed"
    out,     \* recording -> the root that append's output went to
    newest,  \* history: recording -> newest version committed
    late,    \* history: recordings finished on a root the camera had left
    doomed,  \* files of recordings that are being deleted
    pending, \* delete_source -> requests between the switch and the queue
    queue,   \* jobs waiting, [to, del]
    wanted,  \* history: the last request wanted the history to follow
    keeps,   \* history: some request did not want sources deleted
    work,    \* the worker: [at, to, del, todo], see WorkType
    open,    \* BOOLEAN: inside the migration window
    fails, kills, outages, deletes, requests

fileVars == <<disk, dirty, torn>>
mergeVars == <<bucket, grow, out, newest>>
recordVars == <<last, segment, late>>
rootVars == <<root, conf, pending, wanted, keeps>>
countVars == <<kills, outages, deletes, requests>>
moving == <<fileVars, mergeVars, recordVars, rootVars, countVars, row, saved, doomed, queue,
            work, open, fails>>
vars == <<setup, moving>>

\* todo: the rows of the list still to be handled, as they were when it was made
Items == [rec : Recs, root : Roots, version : Versions]
WorkType ==
    [at : {"idle", "window", "skip", "file", "copy", "rewrite", "delete"},
     to : Roots, del : BOOLEAN, todo : SUBSET Items]
Idle == [at |-> "idle", to |-> Home, del |-> FALSE, todo |-> {}]

Init ==
    /\ setup \in Setups
    /\ last = 0 /\ segment = None /\ root = Home /\ conf = Home
    /\ disk = {} /\ dirty = {} /\ torn = {}
    /\ row = [r \in Recs |-> NoRow] /\ saved = row
    /\ bucket = [r \in Recs |-> None] /\ grow = [r \in Recs |-> "no"]
    /\ out = [r \in Recs |-> Home] /\ newest = [r \in Recs |-> 0]
    /\ late = {} /\ doomed = {}
    /\ pending = [d \in BOOLEAN |-> 0] /\ queue = <<>> /\ wanted = FALSE /\ keeps = FALSE
    /\ work = Idle /\ open = ~setup.windowed
    /\ fails = 0 /\ kills = 0 /\ outages = 0 /\ deletes = 0 /\ requests = 0

Listed == {r \in Recs : row[r] # NoRow}
FileOf(r) == <<r, row[r].root, row[r].version>>
Fault == fails < setup.fails /\ fails' = fails + 1

----------------------------------------------------------------------------
(* The rest of the program *)

(* A segment, or the first part of a merged recording, is begun on the root of *)
(* the moment,                                                                  *)
CreateSegment ==
    /\ segment = None /\ last < setup.recs
    /\ segment' = root
    /\ UNCHANGED <<fileVars, mergeVars, last, late, rootVars, countVars, row, saved, doomed, queue, work, open, fails>>

(* and is finished and synced where it was begun. *)
CloseSegment ==
    /\ segment # None
    /\ LET r == last + 1 IN
       /\ last' = r
       /\ disk' = disk \cup {<<r, segment, 1>>}
       /\ row' = [row EXCEPT ![r] = [root |-> segment, version |-> 1]]
       /\ newest' = [newest EXCEPT ![r] = 1] /\ bucket' = [bucket EXCEPT ![r] = segment]
       /\ late' = IF segment = root THEN late ELSE late \cup {r}
    /\ segment' = None
    /\ UNCHANGED <<dirty, torn, grow, out, rootVars, countVars, saved, doomed, queue, work, open, fails>>

BucketFile(r, v) == <<r, bucket[r], v>>

(* A late append folds the bucket's file into the next version, on the root of *)
(* the moment; a directory of frames gets none,                                *)
AppendWrite(r) ==
    /\ r \in 1..last \ setup.frames /\ bucket[r] # None
    /\ grow[r] = "no" /\ newest[r] < setup.versions
    /\ BucketFile(r, newest[r]) \in disk
    /\ disk' = disk \cup {<<r, root, newest[r] + 1>>}
    /\ grow' = [grow EXCEPT ![r] = "written"] /\ out' = [out EXCEPT ![r] = root]
    /\ UNCHANGED <<dirty, torn, bucket, newest, recordVars, rootVars, countVars, row, saved, doomed, queue, work, open, fails>>

(* moves the row there, *)
AppendCommit(r) ==
    /\ grow[r] = "written"
    /\ row' = IF r \in Listed
              THEN [row EXCEPT ![r] = [root |-> out[r], version |-> newest[r] + 1]] ELSE row
    /\ newest' = [newest EXCEPT ![r] = @ + 1]
    /\ grow' = [grow EXCEPT ![r] = "committed"]
    /\ UNCHANGED <<fileVars, bucket, out, recordVars, rootVars, countVars, saved, doomed, queue, work, open, fails>>

(* and deletes what it has replaced. *)
AppendDelete(r) ==
    /\ grow[r] = "committed"
    /\ disk' = disk \ {BucketFile(r, newest[r] - 1)}
    /\ grow' = [grow EXCEPT ![r] = "no"] /\ bucket' = [bucket EXCEPT ![r] = out[r]]
    /\ UNCHANGED <<dirty, torn, out, newest, recordVars, rootVars, countVars, row, saved, doomed, queue, work, open, fails>>

(* Retention or a client reads the rows to delete, *)
ListDeletes(r) ==
    /\ r \in Listed /\ deletes < setup.deletes /\ deletes' = deletes + 1
    /\ doomed' = doomed \cup {FileOf(r)}
    /\ UNCHANGED <<fileVars, mergeVars, recordVars, rootVars, kills, outages, requests, row, saved, queue, work, open, fails>>

(* deletes them, *)
DeleteRow(f) ==
    /\ f \in doomed /\ f[1] \in Listed
    /\ row' = [row EXCEPT ![f[1]] = NoRow]
    /\ UNCHANGED <<fileVars, mergeVars, recordVars, rootVars, countVars, saved, doomed, queue, work, open, fails>>

(* and then the files they named when they were read. *)
DeleteFile(f) ==
    /\ f \in doomed /\ f[1] \notin Listed
    /\ disk' = disk \ {f} /\ doomed' = doomed \ {f}
    /\ UNCHANGED <<dirty, torn, mergeVars, recordVars, rootVars, countVars, row, saved, queue, work, open, fails>>

----------------------------------------------------------------------------
(* Requests *)

(* The override in memory is switched at once.  A request that leaves the    *)
(* history where it is only saves, or fails to, after that.                  *)
SwitchRoot(to, migrate, del) ==
    /\ requests < setup.requests /\ requests' = requests + 1
    /\ root' = to
    /\ pending' = [pending EXCEPT ![del] = IF migrate THEN @ + 1 ELSE @]
    /\ conf' \in IF migrate THEN {conf} ELSE {conf, to}
    /\ wanted' = migrate /\ keeps' = (keeps \/ (migrate /\ ~del))
    /\ UNCHANGED <<fileVars, mergeVars, recordVars, kills, outages, deletes, row, saved, doomed, queue, work, open, fails>>

Answered(del) == pending[del] > 0 /\ pending' = [pending EXCEPT ![del] = @ - 1]

(* Mutant: a job is taken for the same whatever its target *)
SameJob(j, to) == TRUE

(* A job that waits for the same target is kept as it is. *)
Waiting(j, to) == j.to = to

(* The configuration is saved, and the history is to follow to the root of the *)
(* moment.  A kill between the two is as good as one after them.               *)
Enqueue(del) ==
    /\ Answered(del)
    /\ conf' = root
    /\ queue' = IF \E i \in DOMAIN queue : Waiting(queue[i], root) THEN queue
                 ELSE Append(queue, [to |-> root, del |-> del])
    /\ UNCHANGED <<fileVars, mergeVars, recordVars, countVars, root, wanted, keeps, row, saved, doomed, work, open, fails>>

(* The configuration is not saved: the root stays switched, nothing is queued. *)
SaveFails(del) ==
    /\ Answered(del) /\ Fault
    /\ UNCHANGED <<fileVars, mergeVars, recordVars, countVars, root, conf, wanted, keeps, row, saved, doomed, queue, work, open>>

----------------------------------------------------------------------------
(* The worker *)

Step(p) == work' = [work EXCEPT !.at = p]
(* The rows are handled oldest first. *)
Item == CHOOSE i \in work.todo : \A j \in work.todo : i.rec <= j.rec
NextFile == work' = [work EXCEPT !.at = "window", !.todo = @ \ {Item}]
WorkOnly == UNCHANGED <<mergeVars, recordVars, rootVars, countVars, saved, doomed, queue, open>>

(* next, process: the job leaves the queue and the rows outside its target are *)
(* listed.                                                                     *)
TakeJob ==
    /\ work.at = "idle" /\ queue # <<>>
    /\ LET j == Head(queue)
           todo == {[rec |-> r, root |-> row[r].root, version |-> row[r].version] :
                        r \in {x \in Listed : row[x].root # j.to}}
       IN work' = [at |-> "window", to |-> j.to, del |-> j.del, todo |-> todo]
    /\ queue' = Tail(queue)
    /\ UNCHANGED <<fileVars, mergeVars, recordVars, rootVars, countVars, row, saved, doomed, open, fails>>

(* The query or the capacity gate, at the start and now and then, ends the job. *)
JobFails ==
    /\ work.at = "window" /\ work.todo # {} /\ Fault
    /\ work' = Idle
    /\ UNCHANGED <<fileVars, row>> /\ WorkOnly

JobDone ==
    /\ work.at = "window" /\ work.todo = {}
    /\ work' = Idle
    /\ UNCHANGED <<fileVars, row, fails>> /\ WorkOnly

(* Roots, rootOf: the default root and the overrides of the moment.  A root that *)
(* was an override is not known any more.                                        *)
KnownRoots == {Home, root} \cup setup.shared

WindowOpens ==
    /\ work.at = "window" /\ work.todo # {} /\ open
    /\ Step(IF Item.root \in KnownRoots THEN "file" ELSE "skip")
    /\ UNCHANGED <<fileVars, row, fails>> /\ WorkOnly

(* Not under a known root: counted as done and left. *)
Skip ==
    /\ work.at = "skip" /\ NextFile
    /\ UNCHANGED <<fileVars, row, fails>> /\ WorkOnly

Source == <<Item.rec, Item.root, Item.version>>
Target == <<Item.rec, work.to, Item.version>>

(* Mutant: the copy is written under its final name *)
OpenSourceInPlace ==
    /\ work.at = "file"
    /\ IF Target \in disk THEN Step("rewrite") /\ UNCHANGED fileVars
       ELSE IF Source \in disk /\ Item.rec \notin setup.frames
       THEN /\ Step("copy") /\ disk' = disk \cup {Target} /\ torn' = torn \cup {Target}
            /\ UNCHANGED dirty
       ELSE NextFile /\ UNCHANGED fileVars
    /\ UNCHANGED <<row, fails>> /\ WorkOnly

(* copyRated: what is there already is taken for a copy; a source that has gone, *)
(* and one that is a directory, is an error, and the row stays as it is.         *)
OpenSource ==
    /\ work.at = "file"
    /\ IF Target \in disk THEN Step("rewrite")
       ELSE IF Source \in disk /\ Item.rec \notin setup.frames THEN Step("copy")
       ELSE NextFile
    /\ UNCHANGED <<fileVars, row, fails>> /\ WorkOnly

(* The copy is complete and gets its name; nothing is flushed. *)
CopyFile ==
    /\ work.at = "copy" /\ Step("rewrite")
    /\ disk' = disk \cup {Target} /\ dirty' = dirty \cup {Target}
    /\ torn' = IF Source \in torn THEN torn \cup {Target} ELSE torn \ {Target}
    /\ UNCHANGED <<row, fails>> /\ WorkOnly

(* The copy or the rewriting of the row fails. *)
MoveFails ==
    /\ work.at \in {"copy", "rewrite"} /\ Fault
    /\ NextFile
    /\ UNCHANGED <<fileVars, row>> /\ WorkOnly

(* RewriteRecordingPaths sets the path to what was listed and copied. *)
Rewrite ==
    /\ work.at = "rewrite"
    /\ row' = IF Item.rec \in Listed
              THEN [row EXCEPT ![Item.rec] = [root |-> work.to, version |-> Item.version]]
              ELSE row
    /\ IF work.del THEN Step("delete") ELSE NextFile
    /\ UNCHANGED <<fileVars, fails>> /\ WorkOnly

(* Mutant: the source is left where it was *)
DeleteSourceNot ==
    /\ work.at = "delete" /\ NextFile
    /\ UNCHANGED <<fileVars, row, fails>> /\ WorkOnly

DeleteSource ==
    /\ work.at = "delete" /\ NextFile
    /\ disk' = disk \ {Source}
    /\ UNCHANGED <<dirty, torn, row, fails>> /\ WorkOnly

Worker ==
    TakeJob \/ JobDone \/ WindowOpens \/ Skip \/ OpenSource \/ CopyFile \/ Rewrite \/ DeleteSource

----------------------------------------------------------------------------
(* Clock, stops, kills, outages *)

TurnWindow ==
    /\ setup.windowed /\ open' = ~open
    /\ UNCHANGED <<fileVars, mergeVars, recordVars, rootVars, countVars, row, saved, doomed, queue, work, fails>>

(* The queue, the buckets and what is under way are in memory, and the program *)
(* does not enqueue again when it starts; the root is the configuration's.     *)
Down ==
    /\ work' = Idle /\ queue' = <<>> /\ pending' = [d \in BOOLEAN |-> 0]
    /\ bucket' = [r \in Recs |-> None] /\ grow' = [r \in Recs |-> "no"]
    /\ segment' = None /\ doomed' = {} /\ root' = conf
    /\ UNCHANGED <<disk, out, newest, last, late, conf, wanted, keeps, open, fails, deletes, requests>>

(* A stop waits for the file at work and drops the rest; a kill drops all. *)
Kill ==
    /\ kills < setup.kills /\ kills' = kills + 1
    /\ Down
    /\ UNCHANGED <<dirty, torn, row, saved, outages>>

Flush(f) ==
    /\ f \in dirty /\ dirty' = dirty \ {f}
    /\ UNCHANGED <<disk, torn, mergeVars, recordVars, rootVars, countVars, row, saved, doomed, queue, work, open, fails>>

Checkpoint ==
    /\ setup.outages > 0 /\ saved # row /\ saved' = row
    /\ UNCHANGED <<fileVars, mergeVars, recordVars, rootVars, countVars, row, doomed, queue, work, open, fails>>

Outage ==
    /\ outages < setup.outages /\ outages' = outages + 1
    /\ torn' = torn \cup dirty /\ dirty' = {}
    /\ row' \in {row, saved} /\ saved' = row'
    /\ Down
    /\ UNCHANGED kills

----------------------------------------------------------------------------
Move ==
    \/ CreateSegment \/ CloseSegment \/ Worker \/ JobFails \/ MoveFails
    \/ TurnWindow \/ Kill \/ Checkpoint \/ Outage
    \/ \E r \in Recs : AppendWrite(r) \/ AppendCommit(r) \/ AppendDelete(r) \/ ListDeletes(r)
    \/ \E f \in doomed : DeleteRow(f) \/ DeleteFile(f)
    \/ \E to \in Roots, migrate, del \in BOOLEAN : SwitchRoot(to, migrate, del)
    \/ \E del \in BOOLEAN : Enqueue(del) \/ SaveFails(del)
    \/ \E f \in dirty : Flush(f)

Next == Move /\ UNCHANGED setup

Spec == Init /\ [][Next]_vars

(* Requests are answered; the worker is not held up for ever; the window opens *)
(* every day, and is open for long enough to begin a file.                     *)
FairSpec == Spec /\ WF_moving(\E del \in BOOLEAN : Enqueue(del))
                 /\ WF_moving(TakeJob) /\ SF_moving(WindowOpens)
                 /\ WF_moving(Worker /\ ~TakeJob /\ ~WindowOpens) /\ WF_moving(TurnWindow)

----------------------------------------------------------------------------
(* Properties *)

TypeOK ==
    /\ setup \in Setups /\ last \in 0..NumRecs /\ segment \in Roots \cup {None}
    /\ segment # None => last < setup.recs
    /\ root \in Roots /\ conf \in Roots
    /\ disk \subseteq Files /\ dirty \subseteq Files /\ torn \subseteq Files /\ doomed \subseteq Files
    /\ row \in [Recs -> Rows \cup {NoRow}] /\ saved \in [Recs -> Rows \cup {NoRow}]
    /\ bucket \in [Recs -> Roots \cup {None}] /\ grow \in [Recs -> {"no", "written", "committed"}]
    /\ out \in [Recs -> Roots] /\ newest \in [Recs -> 0..MaxVersion] /\ late \subseteq Recs
    /\ pending \in [BOOLEAN -> Nat] /\ queue \in Seq([to : Roots, del : BOOLEAN])
    /\ wanted \in BOOLEAN /\ keeps \in BOOLEAN /\ work \in WorkType /\ open \in BOOLEAN
    /\ work.at \notin {"idle", "window"} => work.todo # {}
    /\ fails \in 0..setup.fails /\ kills \in 0..setup.kills /\ outages \in 0..setup.outages
    /\ deletes \in 0..setup.deletes /\ requests \in 0..setup.requests

(* Whatever moves, fails and is killed, a row names a file that is there   *)
(* and whole.  Two things break this: a power failure, for copies are not  *)
(* flushed, and a late append whose row a second migration turns back to   *)
(* the version that the append then deletes.                               *)
RowIntact == outages = 0 => \A r \in Listed : newest[r] = 1 => FileOf(r) \in disk \ torn

(* A file that its recording's row does not name, and that is not the one the *)
(* worker is moving.                                                          *)
AtWork == IF work.at \in {"copy", "rewrite", "delete"} THEN {Source, Target} ELSE {}
Leftover(f) == newest[f[1]] = 1 /\ f[3] = 1 /\ f \notin AtWork /\ f # FileOf(f[1])

(* When every request asked for the sources to be deleted, a failed step, a   *)
(* kill and a deletion leave at most one file each on a root where nothing    *)
(* refers to it: however often the history is moved, copies do not pile up.   *)
FewLeftovers ==
    outages = 0 /\ ~keeps =>
        Cardinality({f \in disk : Leftover(f)}) <= fails + kills + deletes

Inv == TypeOK /\ FewLeftovers

(* With no more than two requests, the last of which wants the history, the *)
(* camera's recordings end up, and stay, where it wanted them: those that   *)
(* were finished before it and those finished after it.  This is so when    *)
(* nothing fails, for files nothing is appended to, and with two            *)
(* exceptions: a segment that was open at the switch is finished on the     *)
(* root it was begun on, maybe after the list was made, and a recording on  *)
(* a root that nothing uses any more is skipped.  A third request may be    *)
(* taken for a job that still waits in front of the second's.               *)
HistoryFollows ==
    requests = setup.requests /\ requests <= 2 /\ wanted
        ~> [](\A r \in Listed :
                 \/ row[r].root = root
                 \/ r \in late \cup setup.frames \/ row[r].root \notin KnownRoots
                 \/ newest[r] > 1 \/ kills + outages + fails > 0)

===============================================================================
