----------------------------- MODULE MCOffload -----------------------------
(* Small instances of Offload for TLC. *)
EXTENDS Offload

CONSTANTS w1, w2

Plain == [recs |-> 2, workers |-> {w1}, evictors |-> {}, backlog |-> 2, versions |-> 1,
          fails |-> 0, dbFails |-> 0, crashes |-> 0, deletes |-> 0, gone |-> 0, broken |-> {}]

MCSetups == {
    \* two workers, an evictor, a failed request, a failed update and a restart
    [Plain EXCEPT !.workers = {w1, w2}, !.evictors = {"auto"}, !.backlog = 1,
                  !.fails = 1, !.dbFails = 1, !.crashes = 1],
    \* two workers with batches of two
    [Plain EXCEPT !.workers = {w1, w2}, !.fails = 1, !.dbFails = 1, !.crashes = 1, !.deletes = 1],
    \* both evictors and an object that vanishes, with a restart or a deletion
    [Plain EXCEPT !.evictors = {"auto", "cli"}, !.backlog = 1, !.fails = 1, !.gone = 1, !.deletes = 1],
    [Plain EXCEPT !.evictors = {"auto", "cli"}, !.backlog = 1, !.fails = 1, !.gone = 1, !.crashes = 1],
    \* recordings grow while they are uploaded and evicted
    [Plain EXCEPT !.recs = 1, !.workers = {w1, w2}, !.evictors = {"cli"}, !.versions = 2, !.fails = 1],
    [Plain EXCEPT !.workers = {w1, w2}, !.backlog = 1, !.versions = 2],
    \* a recording that never gets through
    [Plain EXCEPT !.recs = 3, !.backlog = 3, !.fails = 1, !.crashes = 1, !.deletes = 1,
                  !.broken = {1}]}
=============================================================================
