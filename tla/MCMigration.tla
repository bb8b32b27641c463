------------------------------ MODULE MCMigration ------------------------------
(* Small instances of Migration for TLC. *)
EXTENDS Migration

Plain == [recs |-> 1, versions |-> 1, windowed |-> FALSE, frames |-> {}, shared |-> {},
          requests |-> 2, fails |-> 0, kills |-> 0, outages |-> 0, deletes |-> 0]

MCSetups == {
    \* two recordings and a window, there and back over a root that stays known
    [Plain EXCEPT !.recs = 2, !.windowed = TRUE, !.shared = Roots],
    \* a directory of frames in front of a file
    [Plain EXCEPT !.recs = 2, !.frames = {1}],
    \* a failure, a kill and a deletion
    [Plain EXCEPT !.shared = Roots, !.fails = 1, !.kills = 1, !.deletes = 1],
    \* late appends, with a failure and a kill or a power failure and a deletion
    [Plain EXCEPT !.versions = 2, !.shared = Roots, !.fails = 1, !.kills = 1],
    [Plain EXCEPT !.versions = 2, !.outages = 1, !.deletes = 1]}
===============================================================================
