--------------------------- MODULE MCRollingMerge ---------------------------
(* Small instances of RollingMerge for TLC. *)
EXTENDS RollingMerge

Plain == [segs |-> 3, crashes |-> 0, deletes |-> 0, fails |-> 0, holdLimit |-> 3,
          transcode |-> FALSE, holdFails |-> FALSE, append |-> FALSE, legacy |-> FALSE]
Two == [Plain EXCEPT !.segs = 2]

MCSetups == {
    Plain,
    [Two EXCEPT !.fails = 1, !.crashes = 1],
    [Two EXCEPT !.fails = 1, !.legacy = TRUE],
    [Two EXCEPT !.deletes = 1, !.transcode = TRUE],
    [Two EXCEPT !.crashes = 1, !.transcode = TRUE, !.holdFails = TRUE],
    [Two EXCEPT !.transcode = TRUE, !.holdLimit = 1],
    [Two EXCEPT !.fails = 1, !.append = TRUE, !.holdFails = TRUE] }
=============================================================================
