------------------------------- MODULE Offload -------------------------------
(***************************************************************************)
(* Uploading merged recordings to an object store and evicting the local   *)
(* copies (internal/offload, storage/db_offload.go).                       *)
(*                                                                         *)
(* An outbox row per recording goes pending -> uploading -> uploaded ->    *)
(* evicted; skipped is the other end.  A scanner enqueues, workers claim   *)
(* and upload, the sweep of this process and the command-line tool of      *)
(* another evict.  Meanwhile retention deletes recordings, and the rolling *)
(* merge may still append to one: that writes a new file and moves the     *)
(* row to it, while the outbox keeps the path it was given.                *)
(*                                                                         *)
(* Statements, file operations and requests are a step each.  A file of a  *)
(* recording is named by its version, and is as large as its version.      *)
(***************************************************************************)
EXTENDS Naturals, FiniteSets

CONSTANTS
    NumRecs,       \* recordings at most
    AllWorkers,    \* upload workers at most
    ClaimBatch,    \* rows claimed at a time
    MaxVersion,    \* bound: versions of a recording
    Setups         \* installations and fault budgets to look at, see SetupType

Recs == 1..NumRecs
Versions == 1..MaxVersion

\* recs:     recordings that get merged, in order of their end
\* workers:  the upload workers; evictors: who evicts
\* backlog:  cap on pending and uploading rows
\* versions: 1 when nothing is appended late
\* fails:    bound on failed requests and file operations
\* dbFails, crashes, deletes, gone: bounds on failed outbox updates, crashes,
\*           recordings retention deletes and objects that vanish
\* broken:   recordings whose bucket cannot be reached
SetupType ==
    [recs : 0..NumRecs, workers : SUBSET AllWorkers, evictors : SUBSET {"auto", "cli"},
     backlog : Nat \ {0}, versions : Versions, fails : Nat, dbFails : Nat,
     crashes : Nat, deletes : Nat, gone : Nat, broken : SUBSET Recs]

ASSUME OffloadAssumption ==
    /\ NumRecs \in Nat /\ ClaimBatch \in Nat \ {0} /\ MaxVersion \in Nat \ {0}
    /\ IsFiniteSet(AllWorkers) /\ Setups \subseteq SetupType

None == 0
Statuses == {"none", "pending", "uploading", "uploaded", "evicted", "skipped"}

VARIABLES
    setup,     \* the member of Setups this behaviour has, for good
    last,      \* recordings merged so far are 1..last
    disk,      \* recording -> versions of its file on disk
    row,       \* recording -> version its row points to, or None
    grow,      \* recording -> late append: [at |-> "no", "written" or "committed", to]
    footage,   \* history: recording -> newest version whose sources are gone
    expired,   \* history: recordings retention has taken
    doomed,    \* files retention has still to delete, <<recording, version>>
    id, status, path, uploaded,  \* outbox: recording -> id, status, local_path, uploaded_size
    remote,    \* recording -> size of its object, or None
    scan,      \* the scanner: [at, todo, room]
    hand,      \* worker -> recordings claimed and not done
    at, size,  \* worker -> place in uploadOne, size it has read
    evict,     \* evictor -> [at, item, todo], items <<recording, uploaded_size>>
    fails, dbFails, crashes, gone

recVars == <<last, disk, row, grow, footage, expired, doomed>>
boxVars == <<id, status, path, uploaded>>
workVars == <<hand, at, size>>
countVars == <<fails, dbFails, crashes, gone>>
moving == <<recVars, boxVars, remote, scan, workVars, evict, countVars>>
vars == <<setup, moving>>

Workers == setup.workers
Evictors == setup.evictors
BacklogLimit == setup.backlog
Broken == setup.broken

NotGrowing == [at |-> "no", to |-> None]
NoScan == [at |-> "idle", todo |-> {}, room |-> 0]
NoItem == <<None, None>>
NoEvict == [at |-> "idle", item |-> NoItem, todo |-> {}]

Init ==
    /\ setup \in Setups
    /\ last = 0
    /\ disk = [r \in Recs |-> {}] /\ row = [r \in Recs |-> None]
    /\ grow = [r \in Recs |-> NotGrowing]
    /\ footage = [r \in Recs |-> None] /\ expired = {} /\ doomed = {}
    /\ id = [r \in Recs |-> None] /\ status = [r \in Recs |-> "none"]
    /\ path = [r \in Recs |-> None] /\ uploaded = [r \in Recs |-> None]
    /\ remote = [r \in Recs |-> None]
    /\ scan = NoScan
    /\ hand = [w \in Workers |-> {}] /\ at = [w \in Workers |-> "idle"]
    /\ size = [w \in Workers |-> None]
    /\ evict = [e \in Evictors |-> NoEvict]
    /\ fails = 0 /\ dbFails = 0 /\ crashes = 0 /\ gone = 0

OneFails == fails < setup.fails /\ fails' = fails + 1 /\ UNCHANGED <<dbFails, crashes, gone>>
OneDbFails == dbFails < setup.dbFails /\ dbFails' = dbFails + 1 /\ UNCHANGED <<fails, crashes, gone>>

With(S) == {r \in Recs : status[r] \in S}
Backlog == Cardinality(With({"pending", "uploading"}))

-----------------------------------------------------------------------------
\* Recordings: the rolling merge and retention.

\* The window is over and the grace time too: the recording may be offloaded.
Merged ==
    /\ last < setup.recs
    /\ last' = last + 1
    /\ disk' = [disk EXCEPT ![last'] = {1}]
    /\ row' = [row EXCEPT ![last'] = 1]
    /\ footage' = [footage EXCEPT ![last'] = 1]
    /\ UNCHANGED <<grow, expired, doomed, boxVars, remote, scan, workVars, evict, countVars>>

\* A late append writes bucket and segments to a new file, ...
AppendWrite(r) ==
    /\ grow[r].at = "no" /\ row[r] \in disk[r] /\ row[r] < setup.versions
    /\ grow' = [grow EXCEPT ![r] = [at |-> "written", to |-> row[r] + 1]]
    /\ disk' = [disk EXCEPT ![r] = @ \cup {row[r] + 1}]
    /\ UNCHANGED <<last, row, footage, expired, doomed, boxVars, remote, scan, workVars, evict, countVars>>

\* ... then moves the row to it, if there still is one, ...
AppendCommit(r) ==
    /\ grow[r].at = "written"
    /\ grow' = [grow EXCEPT ![r].at = "committed"]
    /\ row' = [row EXCEPT ![r] = IF @ = None THEN None ELSE grow[r].to]
    /\ footage' = [footage EXCEPT ![r] = grow[r].to]
    /\ UNCHANGED <<last, disk, expired, doomed, boxVars, remote, scan, workVars, evict, countVars>>

\* ... and deletes the file before it.
AppendRemove(r) ==
    /\ grow[r].at = "committed"
    /\ grow' = [grow EXCEPT ![r] = NotGrowing]
    /\ disk' = [disk EXCEPT ![r] = @ \ {grow[r].to - 1}]
    /\ UNCHANGED <<last, row, footage, expired, doomed, boxVars, remote, scan, workVars, evict, countVars>>

\* Retention deletes the row, and then the file.
RetentionRow(r) ==
    /\ row[r] # None /\ Cardinality(expired) < setup.deletes
    /\ row' = [row EXCEPT ![r] = None]
    /\ expired' = expired \cup {r}
    /\ doomed' = doomed \cup {<<r, row[r]>>}
    /\ UNCHANGED <<last, disk, grow, footage, boxVars, remote, scan, workVars, evict, countVars>>

RetentionFile(f) ==
    /\ f \in doomed
    /\ doomed' = doomed \ {f}
    /\ disk' = [disk EXCEPT ![f[1]] = @ \ {f[2]}]
    /\ UNCHANGED <<last, row, grow, footage, expired, boxVars, remote, scan, workVars, evict, countVars>>

-----------------------------------------------------------------------------
\* The scanner.

\* A confirmed upload whose recording has another size by now is done again.
RequeueStale ==
    /\ scan.at = "idle"
    /\ scan' = [scan EXCEPT !.at = "count"]
    /\ status' = [r \in Recs |->
                    IF status[r] = "uploaded" /\ row[r] \notin {None, uploaded[r]}
                    THEN "pending" ELSE status[r]]
    /\ UNCHANGED <<recVars, id, path, uploaded, remote, workVars, evict, countVars>>

CountBacklog ==
    /\ scan.at = "count"
    /\ scan' = IF Backlog >= BacklogLimit THEN NoScan
               ELSE [scan EXCEPT !.at = "list", !.room = BacklogLimit - Backlog]
    /\ UNCHANGED <<recVars, boxVars, remote, workVars, evict, countVars>>

\* The candidates, each with the path it has now.
ListCandidates ==
    /\ scan.at = "list"
    /\ scan' = [scan EXCEPT !.at = "enqueue",
                  !.todo = {<<r, row[r]>> : r \in {q \in 1..last : row[q] # None /\ status[q] = "none"}}]
    /\ UNCHANGED <<recVars, boxVars, remote, workVars, evict, countVars>>

\* In order of their end.  INSERT OR IGNORE: a recording gets one row, ever.
Enqueue ==
    /\ scan.at = "enqueue" /\ scan.room > 0
    /\ \E c \in scan.todo :
        /\ \A d \in scan.todo : c[1] <= d[1]
        /\ IF status[c[1]] # "none"
           THEN scan' = [scan EXCEPT !.todo = @ \ {c}] /\ UNCHANGED boxVars
           ELSE /\ scan' = [scan EXCEPT !.todo = @ \ {c}, !.room = @ - 1]
                /\ id' = [id EXCEPT ![c[1]] = NumRecs + 1 - Cardinality(With({"none"}))]
                /\ status' = [status EXCEPT ![c[1]] = "pending"]
                /\ path' = [path EXCEPT ![c[1]] = c[2]]
                /\ UNCHANGED uploaded
    /\ UNCHANGED <<recVars, remote, workVars, evict, countVars>>

ScanEnds ==
    /\ scan.at = "enqueue" /\ (scan.todo = {} \/ scan.room = 0)
    /\ scan' = NoScan
    /\ UNCHANGED <<recVars, boxVars, remote, workVars, evict, countVars>>

-----------------------------------------------------------------------------
\* The workers.

\* The n oldest pending rows.
Oldest(n) ==
    {r \in With({"pending"}) : Cardinality({q \in With({"pending"}) : id[q] < id[r]}) < n}

\* Mutant: rows are read without being taken.
ClaimUnmarked(w) ==
    /\ at[w] = "idle" /\ With({"pending"}) # {}
    /\ hand' = [hand EXCEPT ![w] = Oldest(ClaimBatch)]
    /\ at' = [at EXCEPT ![w] = "stat"]
    /\ UNCHANGED <<recVars, boxVars, remote, scan, size, evict, countVars>>

\* One transaction.  An idle worker polls, so that no wake-up is missed.
Claim(w) ==
    /\ at[w] = "idle" /\ With({"pending"}) # {}
    /\ hand' = [hand EXCEPT ![w] = Oldest(ClaimBatch)]
    /\ at' = [at EXCEPT ![w] = "stat"]
    /\ status' = [r \in Recs |-> IF r \in Oldest(ClaimBatch) THEN "uploading" ELSE status[r]]
    /\ UNCHANGED <<recVars, id, path, uploaded, remote, scan, size, evict, countVars>>

\* The row at work is the oldest.
Front(w) == {r \in hand[w] : \A q \in hand[w] : id[r] <= id[q]}
Item(w) == CHOOSE r \in Front(w) : TRUE
Present(w) == path[Item(w)] \in disk[Item(w)]

Done(w) ==
    /\ hand' = [hand EXCEPT ![w] = @ \ {Item(w)}]
    /\ at' = [at EXCEPT ![w] = IF hand[w] = {Item(w)} THEN "idle" ELSE "stat"]
    /\ size' = [size EXCEPT ![w] = None]

\* The outbox update that ends an item; its error is logged or dropped, and
\* leaves the row as it is.
Mark(w, new) == Done(w) /\ status' = [status EXCEPT ![Item(w)] = new]

To(w, place) == at' = [at EXCEPT ![w] = place] /\ UNCHANGED hand

StatOk(w) ==
    /\ at[w] = "stat" /\ Present(w)
    /\ To(w, "open")
    /\ size' = [size EXCEPT ![w] = path[Item(w)]]
    /\ UNCHANGED <<recVars, boxVars, remote, scan, evict, countVars>>

\* The stat, or the wait for the I/O budget, fails.
StatFails(w) ==
    /\ at[w] = "stat" /\ OneFails
    /\ Mark(w, "pending")
    /\ UNCHANGED <<recVars, id, path, uploaded, remote, scan, evict>>

Skip(w) ==
    /\ at[w] = "stat" /\ ~Present(w)
    /\ Mark(w, "skipped")
    /\ UNCHANGED <<recVars, id, path, uploaded, remote, scan, evict, countVars>>

\* The file is open from here on, whatever happens to its name.
OpenOk(w) ==
    /\ at[w] = "open" /\ Present(w) /\ Item(w) \notin Broken
    /\ To(w, "put")
    /\ UNCHANGED <<recVars, boxVars, remote, scan, size, evict, countVars>>

\* The file is gone since the stat, or the bucket has no store.
OpenFails(w) ==
    /\ at[w] = "open" /\ (~Present(w) \/ Item(w) \in Broken)
    /\ Mark(w, "pending")
    /\ UNCHANGED <<recVars, id, path, uploaded, remote, scan, evict, countVars>>

PutOk(w) ==
    /\ at[w] = "put"
    /\ To(w, "head")
    /\ remote' = [remote EXCEPT ![Item(w)] = size[w]]
    /\ UNCHANGED <<recVars, boxVars, scan, size, evict, countVars>>

\* A success that leaves no object, or not the whole of it.
PutGhost(w) ==
    /\ at[w] = "put" /\ OneFails
    /\ To(w, "head")
    /\ remote' = [remote EXCEPT ![Item(w)] = size[w] - 1]
    /\ UNCHANGED <<recVars, boxVars, scan, size, evict>>

\* The error may come after the object was stored.
PutFails(w) ==
    /\ at[w] = "put" /\ OneFails
    /\ Mark(w, "pending")
    /\ \/ UNCHANGED remote
       \/ remote' = [remote EXCEPT ![Item(w)] = size[w]]
    /\ UNCHANGED <<recVars, id, path, uploaded, scan, evict>>

HeadOk(w) ==
    /\ at[w] = "head" /\ remote[Item(w)] = size[w]
    /\ To(w, "mark")
    /\ UNCHANGED <<recVars, boxVars, remote, scan, size, evict, countVars>>

HeadRefuses(w) ==
    /\ at[w] = "head" /\ remote[Item(w)] # size[w]
    /\ Mark(w, "pending")
    /\ UNCHANGED <<recVars, id, path, uploaded, remote, scan, evict, countVars>>

HeadFails(w) ==
    /\ at[w] = "head" /\ OneFails
    /\ Mark(w, "pending")
    /\ UNCHANGED <<recVars, id, path, uploaded, remote, scan, evict>>

MarkUploaded(w) ==
    /\ at[w] = "mark"
    /\ Mark(w, "uploaded")
    /\ uploaded' = [uploaded EXCEPT ![Item(w)] = size[w]]
    /\ UNCHANGED <<recVars, id, path, remote, scan, evict, countVars>>

\* Any outbox update that ends an item may fail.
MarkFails(w) ==
    /\ \/ at[w] \in {"put", "head", "mark"}
       \/ at[w] = "stat" /\ ~Present(w)
       \/ at[w] = "open" /\ (~Present(w) \/ Item(w) \in Broken)
    /\ OneDbFails
    /\ Done(w)
    /\ UNCHANGED <<recVars, boxVars, remote, scan, evict>>

-----------------------------------------------------------------------------
\* RunEvict, by the sweep of this process or by the command-line tool.

\* The uploads confirmed up to some time.
EvictList(e) ==
    /\ evict[e].at = "idle"
    /\ \E S \in SUBSET With({"uploaded"}) \ {{}} :
         evict' = [evict EXCEPT ![e] =
                     [at |-> "head", item |-> NoItem, todo |-> {<<r, uploaded[r]>> : r \in S}]]
    /\ UNCHANGED <<recVars, boxVars, remote, scan, workVars, countVars>>

\* Mutant: a copy goes without a look at the object.
EvictHeadTrusts(e) ==
    /\ evict[e].at = "head"
    /\ \E it \in evict[e].todo :
         evict' = [evict EXCEPT ![e] = [at |-> "remove", item |-> it, todo |-> @.todo \ {it}]]
    /\ UNCHANGED <<recVars, boxVars, remote, scan, workVars, countVars>>

EvictHeadOk(e) ==
    /\ evict[e].at = "head"
    /\ \E it \in evict[e].todo :
         /\ remote[it[1]] # None /\ remote[it[1]] = it[2]
         /\ evict' = [evict EXCEPT ![e] = [at |-> "remove", item |-> it, todo |-> @.todo \ {it}]]
    /\ UNCHANGED <<recVars, boxVars, remote, scan, workVars, countVars>>

Refuse(e, it) ==
    evict' = [evict EXCEPT ![e] =
                IF @.todo \ {it} = {} THEN NoEvict
                ELSE [at |-> "head", item |-> NoItem, todo |-> @.todo \ {it}]]

EvictRefuses(e) ==
    /\ evict[e].at = "head"
    /\ \E it \in evict[e].todo : remote[it[1]] \notin Versions \cap {it[2]} /\ Refuse(e, it)
    /\ UNCHANGED <<recVars, boxVars, remote, scan, workVars, countVars>>

EvictHeadFails(e) ==
    /\ evict[e].at = "head" /\ OneFails
    /\ \E it \in evict[e].todo : Refuse(e, it)
    /\ UNCHANGED <<recVars, boxVars, remote, scan, workVars>>

\* By the path the outbox row was given; a file that is gone is no error.
EvictRemove(e) ==
    /\ evict[e].at = "remove"
    /\ evict' = [evict EXCEPT ![e].at = "row"]
    /\ LET r == evict[e].item[1] IN disk' = [disk EXCEPT ![r] = @ \ {path[r]}]
    /\ UNCHANGED <<last, row, grow, footage, expired, doomed, boxVars, remote, scan, workVars, countVars>>

\* By the recording's id, whatever its row says by now.
EvictRow(e) ==
    /\ evict[e].at = "row"
    /\ evict' = [evict EXCEPT ![e].at = "mark"]
    /\ row' = [row EXCEPT ![evict[e].item[1]] = None]
    /\ UNCHANGED <<last, disk, grow, footage, expired, doomed, boxVars, remote, scan, workVars, countVars>>

EvictMark(e) ==
    /\ evict[e].at = "mark"
    /\ Refuse(e, NoItem)
    /\ status' = [status EXCEPT ![evict[e].item[1]] = "evicted"]
    /\ UNCHANGED <<recVars, id, path, uploaded, remote, scan, workVars, countVars>>

\* The file or the row cannot be deleted: the item is left as it is.
EvictItemFails(e) ==
    /\ evict[e].at \in {"remove", "row"} /\ OneFails
    /\ Refuse(e, NoItem)
    /\ UNCHANGED <<recVars, boxVars, remote, scan, workVars>>

\* The outbox update fails: the run ends.
EvictMarkFails(e) ==
    /\ evict[e].at = "mark" /\ OneDbFails
    /\ evict' = [evict EXCEPT ![e] = NoEvict]
    /\ UNCHANGED <<recVars, boxVars, remote, scan, workVars>>

-----------------------------------------------------------------------------
\* The store's own rules delete an object whose recording is still here.  Once
\* an evictor has looked at it, that would be the bucket's loss, not the code's.
ObjectGone(r) ==
    /\ gone < setup.gone /\ remote[r] # None /\ row[r] \in disk[r]
    /\ \A e \in Evictors : evict[e].item[1] # r
    /\ gone' = gone + 1
    /\ remote' = [remote EXCEPT ![r] = None]
    /\ UNCHANGED <<recVars, boxVars, scan, workVars, evict, fails, dbFails, crashes>>

\* Mutant: rows left in "uploading" are taken up by nobody.
RestartKeeps ==
    /\ crashes < setup.crashes
    /\ crashes' = crashes + 1
    /\ scan' = NoScan
    /\ hand' = [w \in Workers |-> {}] /\ at' = [w \in Workers |-> "idle"]
    /\ size' = [w \in Workers |-> None]
    /\ evict' = [e \in Evictors |-> IF e = "auto" THEN NoEvict ELSE evict[e]]
    /\ grow' = [r \in Recs |-> NotGrowing]
    /\ UNCHANGED <<last, disk, row, footage, expired, doomed, boxVars, remote, fails, dbFails, gone>>

\* A crash, or a shutdown in the middle, and the next start, which puts what
\* was being uploaded back.  The command-line tool is another process.
Restart ==
    /\ crashes < setup.crashes
    /\ crashes' = crashes + 1
    /\ status' = [r \in Recs |-> IF status[r] = "uploading" THEN "pending" ELSE status[r]]
    /\ scan' = NoScan
    /\ hand' = [w \in Workers |-> {}] /\ at' = [w \in Workers |-> "idle"]
    /\ size' = [w \in Workers |-> None]
    /\ evict' = [e \in Evictors |-> IF e = "auto" THEN NoEvict ELSE evict[e]]
    /\ grow' = [r \in Recs |-> NotGrowing]
    /\ UNCHANGED <<last, disk, row, footage, expired, doomed, id, path, uploaded, remote, fails, dbFails, gone>>

Scanner == RequeueStale \/ CountBacklog \/ ListCandidates \/ Enqueue \/ ScanEnds

Worker(w) ==
    \/ Claim(w) \/ StatOk(w) \/ StatFails(w) \/ Skip(w) \/ OpenOk(w) \/ OpenFails(w)
    \/ PutOk(w) \/ PutGhost(w) \/ PutFails(w)
    \/ HeadOk(w) \/ HeadRefuses(w) \/ HeadFails(w)
    \/ MarkUploaded(w) \/ MarkFails(w)

Evictor(e) ==
    \/ EvictList(e) \/ EvictHeadOk(e) \/ EvictRefuses(e) \/ EvictHeadFails(e)
    \/ EvictRemove(e) \/ EvictRow(e) \/ EvictMark(e)
    \/ EvictItemFails(e) \/ EvictMarkFails(e)

Move ==
    \/ Merged
    \/ \E r \in Recs : AppendWrite(r) \/ AppendCommit(r) \/ AppendRemove(r) \/ RetentionRow(r)
    \/ \E r \in Recs : ObjectGone(r)
    \/ \E f \in doomed : RetentionFile(f)
    \/ Scanner
    \/ \E w \in Workers : Worker(w)
    \/ \E e \in Evictors : Evictor(e)
    \/ Restart

Next == Move /\ UNCHANGED setup

Spec == Init /\ [][Next]_vars

-----------------------------------------------------------------------------
Items == Recs \X (Versions \cup {None})

TypeOK ==
    /\ setup \in Setups /\ last \in 0..NumRecs
    /\ disk \in [Recs -> SUBSET Versions] /\ row \in [Recs -> Versions \cup {None}]
    /\ grow \in [Recs -> [at : {"no", "written", "committed"}, to : Versions \cup {None}]]
    /\ footage \in [Recs -> Versions \cup {None}]
    /\ expired \subseteq Recs /\ doomed \subseteq Recs \X Versions
    /\ id \in [Recs -> 0..NumRecs] /\ status \in [Recs -> Statuses]
    /\ path \in [Recs -> Versions \cup {None}] /\ uploaded \in [Recs -> Versions \cup {None}]
    /\ remote \in [Recs -> Versions \cup {None}]
    /\ scan \in [at : {"idle", "count", "list", "enqueue"},
                 todo : SUBSET (Recs \X Versions), room : 0..BacklogLimit]
    /\ hand \in [Workers -> SUBSET Recs]
    /\ at \in [Workers -> {"idle", "stat", "open", "put", "head", "mark"}]
    /\ size \in [Workers -> Versions \cup {None}]
    /\ evict \in [Evictors -> [at : {"idle", "head", "remove", "row", "mark"},
                                 item : Items \cup {NoItem}, todo : SUBSET Items]]
    /\ fails \in 0..setup.fails /\ dbFails \in 0..setup.dbFails /\ crashes \in 0..setup.crashes
    /\ gone \in 0..setup.gone

\* A recording that retention has not taken can be had in full: locally, by
\* its row and the file of that name, or as an object of the same size.
\* "Fail-stop per item: ... never loses data either" (evict.go:63).  The case
\* left out is lost: what a late append added to a recording after its upload
\* goes with the row, which the evictor clears without a look at it.
NothingLost ==
    \A r \in 1..last \ expired :
        \/ row[r] \in disk[r] /\ row[r] >= footage[r]
        \/ remote[r] >= footage[r]
        \/ uploaded[r] \notin {None, footage[r]}

\* Two workers never have the same recording in hand, however it got back to
\* pending and whatever an evictor marks meanwhile.
OneUploader ==
    \A v, w \in Workers : v # w => hand[v] \cap hand[w] = {}

\* What is marked as uploaded or evicted is in the store with the size the
\* outbox has, whichever requests and updates failed or were repeated, as long
\* as the store keeps what it has.  A recording that has grown since is left
\* out: an evictor that listed it before may mark it while it is uploaded again.
ConfirmedIsStored ==
    gone = 0 =>
        \A r \in With({"uploaded", "evicted"}) :
            /\ uploaded[r] # None
            /\ footage[r] <= uploaded[r] => remote[r] >= uploaded[r]

\* Enqueueing stops at the cap, during a scan too (offload.go:292); uploads that
\* are done again do not go through it.
BacklogCapped ==
    Cardinality({r \in With({"pending", "uploading"}) : uploaded[r] = None}) <= BacklogLimit

\* A recording is skipped when it can no longer be had from this machine
\* (db_offload.go:235).  Left out is a recording whose late append moved it to
\* another file: the worker looks for it under the old name and skips it.
SkippedIsGone == \A r \in With({"skipped"}) : row[r] \notin disk[r] \/ row[r] # path[r]

\* The outbox keeps its books, whatever fails, restarts or is requeued: one
\* worker per row, nothing marked that is not stored, nothing skipped that is
\* there, and no backlog over the cap.
Inv == TypeOK /\ OneUploader /\ ConfirmedIsStored /\ BacklogCapped /\ SkippedIsGone

\* Fairness: the scan comes round, workers work, and a late append is carried
\* through.  Evictors and retention owe nothing.  Requests may fail, but only so
\* often; a recording in Broken never gets through.
FairSpec ==
    /\ Spec
    /\ WF_moving(Scanner)
    /\ \A w \in AllWorkers : WF_moving(w \in Workers /\ Worker(w))
    /\ \A r \in Recs : WF_moving(AppendCommit(r) \/ AppendRemove(r))

\* A recording in the outbox is uploaded, or skipped, in the end: a failed
\* upload is tried again, and holds up no other.  Two cases are left out: as
\* many recordings that never get through as are claimed at a time hold up all
\* others, and a row whose last update failed stays "uploading" until a restart.
UploadsEnd ==
    \A r \in Recs :
        status[r] \in {"pending", "uploading"} /\ r \notin Broken /\ Cardinality(Broken) < ClaimBatch
            ~> status[r] \notin {"pending", "uploading"} \/ dbFails > 0
=============================================================================
