---------------------------- MODULE MCCameraManager ----------------------------
(* Small instances of CameraManager for TLC. *)
EXTENDS CameraManager

CONSTANTS c1, c2

Plain == [cams |-> 2, booted |-> 2, built |-> 2, clients |-> {c1, c2}, kinds |-> OpNames,
          calls |-> 3, fails |-> 0, saves |-> 0]

MCSetups == {
    \* two callers of the guarded operations, with a recorder for both cameras or for one
    [Plain EXCEPT !.kinds = {"start", "stop", "restart"}, !.calls = 4, !.fails = 2],
    [Plain EXCEPT !.kinds = {"start", "stop", "restart"}, !.built = 1],
    \* two callers of all operations, with and without a boot to come
    [Plain EXCEPT !.booted = 1, !.built = 1, !.fails = 1, !.saves = 1],
    [Plain EXCEPT !.kinds = OpNames \ {"boot"}, !.saves = 1],
    \* one caller makes six calls on one camera
    [Plain EXCEPT !.cams = 1, !.booted = 1, !.built = 1, !.clients = {c1},
                  !.kinds = OpNames \ {"boot", "publish"}, !.calls = 6, !.fails = 1, !.saves = 1]}

\* One caller removes and restarts three cameras.
Removals == {[Plain EXCEPT !.cams = 3, !.booted = 3, !.built = 3, !.clients = {c1},
                           !.kinds = {"remove", "restart"}, !.calls = 2]}
===============================================================================
