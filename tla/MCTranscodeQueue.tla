--------------------------- MODULE MCTranscodeQueue ---------------------------
(* Small instances of TranscodeQueue for TLC. *)
EXTENDS TranscodeQueue

Plain == [recs |-> 2, tasks |-> 2, workers |-> 1, pending |-> 2, callers |-> {"bus"},
          replace |-> TRUE, timeouts |-> FALSE, sweeping |-> FALSE, window |-> 2,
          fails |-> 0, cancels |-> 0, stops |-> 0, crashes |-> 0, deletes |-> 0]

MCSetups == {
    \* two workers replace two files, with a failure, a cancel and a deletion
    [Plain EXCEPT !.workers = 2, !.fails = 1, !.cancels = 1, !.deletes = 1],
    [Plain EXCEPT !.workers = 2, !.timeouts = TRUE, !.fails = 1, !.cancels = 1],
    \* one recording transcoded again and again, with a stop and a crash
    [Plain EXCEPT !.recs = 1, !.tasks = 3, !.pending = 1, !.callers = {"bus", "api"},
                  !.fails = 1, !.stops = 1],
    [Plain EXCEPT !.recs = 1, !.pending = 1, !.callers = {"bus", "api"}, !.timeouts = TRUE,
                  !.fails = 1, !.cancels = 1, !.crashes = 1],
    \* the orphan scan and the backfill beside a replacement
    [Plain EXCEPT !.tasks = 3, !.callers = {"bus", "backfill"}, !.sweeping = TRUE,
                  !.cancels = 1, !.deletes = 1],
    \* three callers' tasks in a backlog of one, originals kept
    [Plain EXCEPT !.recs = 1, !.tasks = 4, !.pending = 1, !.callers = {"bus", "api"},
                  !.replace = FALSE, !.window = 4, !.fails = 1, !.cancels = 1],
    \* a crash while a task is being cancelled and another is running
    [Plain EXCEPT !.recs = 1, !.tasks = 4, !.pending = 1, !.callers = {"bus", "api"},
                  !.replace = FALSE, !.window = 4, !.cancels = 1, !.crashes = 1],
    \* replacements whose commit and restoration both fail, with a crash
    [Plain EXCEPT !.recs = 1, !.callers = {"bus", "api"}, !.fails = 2, !.crashes = 1],
    \* originals kept, through a stop and a crash
    [Plain EXCEPT !.replace = FALSE, !.stops = 1, !.crashes = 1]}
===============================================================================
