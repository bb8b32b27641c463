----------------------------- MODULE CameraManager -----------------------------
(***************************************************************************)
(* The camera registry and the recorders' lifecycle (internal/camera).     *)
(*                                                                         *)
(* The configuration is a Go slice of cameras.  A published snapshot maps  *)
(* each camera to its recorder, its hub and a pointer into that slice's    *)
(* array, so the arrays are modelled with their places: an append within   *)
(* the capacity and a removal change an array in place, an append beyond   *)
(* it moves to a new one.                                                  *)
(*                                                                         *)
(* Requests, the health loop's restarts and the boot run at once.  Start,  *)
(* stop and restart hold a mutex per camera, which they find in a map;     *)
(* add, remove, update, protocol-off and the boot of pull cameras work     *)
(* outside it but for the part that starts a recorder.  Recorders are      *)
(* numbered; recorder n has hub n, and numbers from Cams on up that are no *)
(* recorder's are hubs made for publishers.                                *)
(***************************************************************************)
EXTENDS Naturals, Sequences, FiniteSets, SequencesExt

CONSTANTS
    NumCams,     \* cameras there may be
    MaxOps,      \* bound: calls at most
    AllClients,  \* goroutines that call the manager, at most
    Setups       \* calls and fault budgets to look at, see SetupType

OpNames == {"add", "remove", "update", "start", "stop", "restart", "protocol", "boot", "publish"}

\* cams:    cameras in use; booted: the first of them are configured at the start;
\* built:   no recorder is made for the configured ones after the first of them
\* clients: goroutines that call the manager; kinds: kinds of calls they make
\* calls, fails, saves: bounds on calls, failed recorder starts and failed
\*          writes of the configuration file
SetupType ==
    [cams : 1..NumCams, booted : 1..NumCams, built : 0..NumCams, clients : SUBSET AllClients,
     kinds : SUBSET OpNames, calls : 0..MaxOps, fails : Nat, saves : Nat]

ASSUME CameraAssumption ==
    /\ NumCams \in Nat /\ MaxOps \in Nat /\ IsFiniteSet(AllClients)
    /\ Setups \subseteq SetupType /\ \A s \in Setups : s.built <= s.booted /\ s.booted <= s.cams

Cams == 1..NumCams
None == 0
\* A camera's settings: gen counts the changes a recorder is restarted for; of the
\* settings a recorder copies and is not restarted for (ONVIF endpoint, dark-frame
\* filter, mjpeg_form), form tells two values; no recorder is made for a bare
\* camera (protocol timelapse without timelapse settings).
Forms == {"plain", "altered", "bare"}
Camera(i, f) == [id |-> i, gen |-> 0, form |-> f]
Empty == Camera(None, "plain")
Numbers == 1..(NumCams + MaxOps)   \* recorders and hubs

VARIABLES
    setup,    \* the member of Setups this behaviour has, for good
    mem,      \* arrays: mem[a][i] is the camera [id, gen, form] in place i
    cfg,      \* cfg.Cameras: [arr, len]
    conf,     \* snapshot.configs: camera -> place <<a, i>> or <<>>
    rec,      \* snapshot.recorders: camera -> recorder or None
    hub,      \* snapshot.hubs: camera -> hub or None
    failed,   \* snapshot.failedStarts: set of cameras
    made,     \* recorder or publisher's hub -> the camera [id, gen, form] it was made for
    running,  \* recorders whose goroutines run
    entry,    \* lifecycleMu: camera -> number of its mutex, or None
    mutexes,  \* camera -> mutexes made so far
    task,     \* client -> [pc, op, id, cam, rec, hub, mu]
    booted,   \* cameras the boot has been given
    pushing,  \* camera -> hub its publisher writes to, or None
    wanted,   \* history: cameras last asked to run, see RemoveUnsaved
    ops, fails, saves

snap == <<conf, rec, hub, failed>>
locks == <<entry, mutexes>>
slice == <<mem, cfg>>
counts == <<ops, fails, saves>>
moving == <<slice, snap, locks, counts, made, running, task, booted, pushing, wanted>>
vars == <<setup, moving>>

Clients == setup.clients
NumBooted == setup.booted
Ops == setup.kinds

Idle == [pc |-> "idle", op |-> "none", id |-> None, cam |-> Empty, rec |-> None, hub |-> None, mu |-> None]

\* The camera as the configuration file has it.
First(i) == Camera(i, IF i <= setup.built THEN "plain" ELSE "bare")
NumUp == IF "boot" \in Ops THEN 0 ELSE setup.built

\* With a boot to come nothing runs yet, otherwise every camera does that can.
Init ==
    /\ setup \in Setups
    /\ mem = <<[i \in 1..NumBooted |-> First(i)]>>
    /\ cfg = [arr |-> 1, len |-> NumBooted]
    /\ conf = [i \in Cams |-> IF i <= NumBooted THEN <<1, i>> ELSE <<>>]
    /\ rec = [i \in Cams |-> IF i <= NumUp THEN i ELSE None] /\ hub = rec
    /\ made = [n \in 1..NumUp |-> First(n)]
    /\ running = 1..NumUp /\ booted = 1..NumUp
    /\ failed = {} /\ wanted = 1..NumBooted
    /\ entry = [i \in Cams |-> None] /\ mutexes = [i \in Cams |-> 0]
    /\ task = [c \in Clients |-> Idle]
    /\ pushing = [i \in Cams |-> None]
    /\ ops = 0 /\ fails = 0 /\ saves = 0

At(place) == mem[place[1]][place[2]]
Slots == 1..cfg.len
Content(i) == mem[cfg.arr][i]
IndexOf(i) == {k \in Slots : Content(k).id = i}
Configured == {Content(k).id : k \in Slots}
Keyed == {i \in Cams : conf[i] # <<>>}

Begin(c, op) == task[c].pc = "idle" /\ op \in Ops /\ ops < setup.calls /\ ops' = ops + 1
Goto(c, pc) == task' = [task EXCEPT ![c].pc = pc]
Done(c) == task' = [task EXCEPT ![c] = Idle]
SaveFails == saves < setup.saves /\ saves' = saves + 1

----------------------------------------------------------------------------
(* The slice *)

\* append: in place while the array has room, else to an array twice as long.
Append1(x) ==
    LET old == mem[cfg.arr]  n == cfg.len + 1  size == Len(old) IN
    IF n <= size
    THEN /\ mem' = [mem EXCEPT ![cfg.arr][n] = x] /\ cfg' = [cfg EXCEPT !.len = n]
    ELSE /\ mem' = Append(mem, [i \in 1..(2 * size) |->
                                  IF i < n THEN old[i] ELSE IF i = n THEN x ELSE Empty])
         /\ cfg' = [arr |-> Len(mem) + 1, len |-> n]

\* append(s[:k], s[k+1:]...): what follows moves down, the last place keeps its copy.
Cut(k) ==
    /\ mem' = [mem EXCEPT ![cfg.arr] =
                  [i \in DOMAIN @ |-> IF i \in k..(cfg.len - 1) THEN @[i + 1] ELSE @[i]]]
    /\ cfg' = [cfg EXCEPT !.len = @ - 1]

----------------------------------------------------------------------------
(* Add, remove, update: the part under configMu *)

\* AddCamera; a camera already there, by its name, endpoint or serial, is refused.
AddConfig(c, i, f) ==
    /\ Begin(c, "add") /\ i \notin Configured
    /\ Append1(Camera(i, f)) /\ UNCHANGED saves
    /\ conf' = [conf EXCEPT ![i] = <<cfg'.arr, cfg'.len>>]
    /\ wanted' = wanted \cup {i}
    /\ task' = [task EXCEPT ![c] = [Idle EXCEPT !.pc = "load", !.op = "add", !.id = i, !.cam = Camera(i, f)]]
    /\ UNCHANGED <<rec, hub, failed, locks, fails, made, running, booted, pushing>>

\* A camera that is pending activation is not started.
AddPending(c, i) ==
    /\ Begin(c, "add") /\ i \notin Configured
    /\ Append1(Camera(i, "plain"))
    /\ conf' = [conf EXCEPT ![i] = <<cfg'.arr, cfg'.len>>]
    /\ wanted' = wanted \ {i}
    /\ UNCHANGED <<rec, hub, failed, locks, fails, saves, made, running, task, booted, pushing>>

\* The camera goes out again when the file cannot be written.
AddUnsaved(c, i) ==
    /\ Begin(c, "add") /\ i \notin Configured /\ SaveFails
    /\ LET n == cfg.len + 1  old == mem[cfg.arr]  new == Camera(i, "plain") IN
       IF n <= Len(old) THEN mem' = [mem EXCEPT ![cfg.arr][n] = new] /\ UNCHANGED cfg
       ELSE /\ mem' = Append(mem, [k \in 1..(2 * Len(old)) |->
                                     IF k < n THEN old[k] ELSE IF k = n THEN new ELSE Empty])
            /\ cfg' = [cfg EXCEPT !.arr = Len(mem) + 1]
    /\ UNCHANGED <<snap, locks, fails, made, running, task, booted, pushing, wanted>>

\* RemoveCamera and ArchiveCamera look the recorder up first,
RemoveRead(c, i) ==
    /\ Begin(c, "remove")
    /\ task' = [task EXCEPT ![c] = [Idle EXCEPT !.pc = "remove", !.op = "remove", !.id = i,
                                               !.rec = rec[i], !.hub = hub[i]]]
    /\ UNCHANGED <<slice, snap, locks, fails, saves, made, running, booted, pushing, wanted>>

\* then take the camera out of slice and snapshot.
RemoveConfig(c) ==
    LET i == task[c].id IN
    /\ task[c].pc = "remove" /\ i \in Configured
    /\ \E k \in IndexOf(i) : Cut(k)
    /\ conf' = [conf EXCEPT ![i] = <<>>]
    /\ rec' = [rec EXCEPT ![i] = None] /\ hub' = [hub EXCEPT ![i] = None]
    /\ failed' = failed \ {i} /\ wanted' = wanted \ {i}
    /\ Goto(c, "drop")
    /\ UNCHANGED <<locks, counts, made, running, booted, pushing>>

RemoveNone(c) ==
    /\ task[c].pc = "remove" /\ task[c].id \notin Configured
    /\ Done(c)
    /\ UNCHANGED <<slice, snap, locks, counts, made, running, booted, pushing, wanted>>

\* The roll-back puts everything back but what has failed to start, so that a camera
\* without a recorder is forgotten until it is asked to run again; the recorder and
\* hub are those looked up before.
RemoveUnsaved(c) ==
    LET i == task[c].id IN
    /\ task[c].pc = "remove" /\ i \in Configured /\ SaveFails
    /\ conf' = [conf EXCEPT ![i] = <<cfg.arr, CHOOSE k \in IndexOf(i) : TRUE>>]
    /\ rec' = [rec EXCEPT ![i] = task[c].rec] /\ hub' = [hub EXCEPT ![i] = task[c].hub]
    /\ failed' = failed \ {i}
    /\ wanted' = IF task[c].rec = None THEN wanted \ (failed \cap {i}) ELSE wanted
    /\ Done(c)
    /\ UNCHANGED <<slice, locks, ops, fails, made, running, booted, pushing>>

\* The mutex goes out of the map,
RemoveDrop(c) ==
    /\ task[c].pc = "drop" /\ Goto(c, "oldstop")
    /\ entry' = [entry EXCEPT ![task[c].id] = None]
    /\ UNCHANGED <<slice, snap, mutexes, counts, made, running, booted, pushing, wanted>>

(* Mutant: the recorder is started with the camera as it was *)
UpdateConfigOld(c, i, f) ==
    /\ Begin(c, "update") /\ i \in Configured
    /\ \E k \in IndexOf(i) :
       /\ mem' = [mem EXCEPT ![cfg.arr][k] = [@ EXCEPT !.gen = @ + 1, !.form = f]]
       /\ task' = [task EXCEPT ![c] = [Idle EXCEPT !.pc = "read", !.op = "update", !.id = i, !.cam = Content(k)]]
    /\ wanted' = wanted \cup {i}
    /\ UNCHANGED <<cfg, snap, locks, fails, saves, made, running, booted, pushing>>

\* UpdateCamera changes the camera in its place, with a restart to follow
UpdateConfig(c, i, f) ==
    /\ Begin(c, "update") /\ i \in Configured
    /\ \E k \in IndexOf(i) :
       LET new == [Content(k) EXCEPT !.gen = @ + 1, !.form = f] IN
       /\ mem' = [mem EXCEPT ![cfg.arr][k] = new]
       /\ task' = [task EXCEPT ![c] = [Idle EXCEPT !.pc = "read", !.op = "update", !.id = i, !.cam = new]]
    /\ wanted' = wanted \cup {i}
    /\ UNCHANGED <<cfg, snap, locks, fails, saves, made, running, booted, pushing>>

\* or without one,
UpdateForm(c, i, f) ==
    /\ Begin(c, "update") /\ i \in Configured
    /\ \E k \in IndexOf(i) :
       /\ Content(k).form # "bare" /\ f \notin {"bare", Content(k).form}
       /\ mem' = [mem EXCEPT ![cfg.arr][k] = [Content(k) EXCEPT !.form = f]]
    /\ UNCHANGED <<cfg, snap, locks, fails, saves, made, running, task, booted, pushing, wanted>>

\* and back when the file cannot be written.
UpdateUnsaved(c, i) ==
    /\ Begin(c, "update") /\ i \in Configured /\ SaveFails
    /\ UNCHANGED <<slice, snap, locks, fails, made, running, task, booted, pushing, wanted>>

----------------------------------------------------------------------------
(* Update, remove, protocol-off: the part without a lock *)

\* the protocol is turned off for a camera
ProtocolOff(c, i) ==
    /\ Begin(c, "protocol") /\ rec[i] # None /\ i \in Keyed
    /\ task' = [task EXCEPT ![c] = [Idle EXCEPT !.pc = "take", !.op = "protocol", !.id = i, !.rec = rec[i]]]
    /\ wanted' = wanted \ {i}
    /\ UNCHANGED <<slice, snap, locks, fails, saves, made, running, booted, pushing>>

UpdateRead(c) ==
    /\ task[c].pc = "read"
    /\ task' = [task EXCEPT ![c].rec = rec[task[c].id],
                            ![c].pc = IF rec[task[c].id] = None THEN "check" ELSE "take"]
    /\ UNCHANGED <<slice, snap, locks, counts, made, running, booted, pushing, wanted>>

TakeOut(c) ==
    /\ task[c].pc = "take" /\ Goto(c, "oldstop")
    /\ rec' = [rec EXCEPT ![task[c].id] = None]
    /\ UNCHANGED <<slice, conf, hub, failed, locks, counts, made, running, booted, pushing, wanted>>

(* Mutant: the recorder that was taken out is not stopped *)
StopOldNot(c) ==
    /\ task[c].pc = "oldstop"
    /\ IF task[c].op = "update" THEN Goto(c, "check") ELSE Done(c)
    /\ UNCHANGED <<slice, snap, locks, counts, made, running, booted, pushing, wanted>>

\* Stop has no effect on a recorder that is not started yet.
StopOld(c) ==
    /\ task[c].pc = "oldstop"
    /\ running' = running \ {task[c].rec}
    /\ IF task[c].op = "update" THEN Goto(c, "check") ELSE Done(c)
    /\ UNCHANGED <<slice, snap, locks, counts, made, booted, pushing, wanted>>

UpdateCheck(c) ==
    /\ task[c].pc = "check"
    /\ IF rec[task[c].id] = None THEN Goto(c, "load") ELSE Done(c)
    /\ UNCHANGED <<slice, snap, locks, counts, made, running, booted, pushing, wanted>>

----------------------------------------------------------------------------
(* Under the camera's mutex *)

\* StartCamera and RestartRecorder copy the camera the snapshot points to.
Call(c, op, i) ==
    /\ op \in {"start", "restart"} /\ Begin(c, op) /\ i \in Keyed
    /\ task' = [task EXCEPT ![c] = [Idle EXCEPT !.pc = "load", !.op = op, !.id = i, !.cam = At(conf[i])]]
    /\ wanted' = wanted \cup {i}
    /\ UNCHANGED <<slice, snap, locks, fails, saves, made, running, booted, pushing>>

CallStop(c, i) ==
    /\ Begin(c, "stop")
    /\ task' = [task EXCEPT ![c] = [Idle EXCEPT !.pc = "load", !.op = "stop", !.id = i]]
    /\ UNCHANGED <<slice, snap, locks, fails, saves, made, running, booted, pushing, wanted>>

\* startRecorder takes the mutex of the camera it was given.
Guarded(c) == IF task[c].op \in {"start", "restart", "stop"} THEN task[c].id ELSE task[c].cam.id
LoadMutex(c) ==
    LET i == Guarded(c) IN
    /\ task[c].pc = "load"
    /\ IF entry[i] = None
       THEN /\ mutexes' = [mutexes EXCEPT ![i] = @ + 1]
            /\ entry' = [entry EXCEPT ![i] = mutexes[i] + 1]
       ELSE UNCHANGED locks
    /\ task' = [task EXCEPT ![c].pc = "lock", ![c].mu = entry'[i]]
    /\ UNCHANGED <<slice, snap, counts, made, running, booted, pushing, wanted>>

Inside == {"locked", "halt", "build", "register", "starting"}
Holds(c, i, n) == task[c].pc \in Inside /\ Guarded(c) = i /\ task[c].mu = n

(* Mutant: the mutex is not waited for *)
LockNot(c) ==
    /\ task[c].pc = "lock" /\ Goto(c, "locked")
    /\ UNCHANGED <<slice, snap, locks, counts, made, running, booted, pushing, wanted>>

Lock(c) ==
    /\ task[c].pc = "lock" /\ \A d \in Clients : ~Holds(d, Guarded(c), task[c].mu)
    /\ Goto(c, "locked")
    /\ UNCHANGED <<slice, snap, locks, counts, made, running, booted, pushing, wanted>>

Pass(c) ==
    /\ task[c].pc = "locked" /\ task[c].op \in {"add", "update"}
    /\ Goto(c, "build")
    /\ UNCHANGED <<slice, snap, locks, counts, made, running, booted, pushing, wanted>>

\* A recorder that records, or reconnects, answers a start; none answers a stop.
Answer(c) ==
    LET r == rec[task[c].id] IN
    /\ task[c].pc = "locked"
    /\ (task[c].op = "start" /\ r \in running) \/ (task[c].op = "stop" /\ r = None)
    /\ Done(c)
    /\ UNCHANGED <<slice, snap, locks, counts, made, running, booted, pushing, wanted>>

\* Any other is taken out first, one that runs and is in error as well.
Replace(c) ==
    LET i == task[c].id  r == rec[i]  op == task[c].op IN
    /\ task[c].pc = "locked" /\ op \in {"start", "restart", "stop"}
    /\ op = "stop" => r # None
    /\ task' = [task EXCEPT ![c].pc = "halt", ![c].rec = r]
    /\ rec' = [rec EXCEPT ![i] = None]
    /\ hub' = IF op = "stop" THEN [hub EXCEPT ![i] = None] ELSE hub
    /\ wanted' = IF op = "stop" THEN wanted \ {i} ELSE wanted
    /\ UNCHANGED <<slice, conf, failed, locks, counts, made, running, booted, pushing>>

Halt(c) ==
    /\ task[c].pc = "halt"
    /\ running' = running \ {task[c].rec}
    /\ IF task[c].op = "stop" THEN Done(c) ELSE Goto(c, "build")
    /\ UNCHANGED <<slice, snap, locks, counts, made, booted, pushing, wanted>>

\* createRecorder makes recorder and hub, and publishes the hub,
Build(c) ==
    LET n == Len(made) + 1 IN
    /\ task[c].pc = "build" /\ task[c].cam.form # "bare"
    /\ made' = Append(made, task[c].cam)
    /\ hub' = [hub EXCEPT ![task[c].cam.id] = n]
    /\ task' = [task EXCEPT ![c].pc = "register", ![c].rec = n]
    /\ UNCHANGED <<slice, conf, rec, failed, locks, counts, running, booted, pushing, wanted>>

\* or makes none, and the call ends;
BuildNone(c) ==
    /\ task[c].pc = "build" /\ task[c].cam.form = "bare"
    /\ Done(c)
    /\ UNCHANGED <<slice, snap, locks, counts, made, running, booted, pushing, wanted>>

\* startRecorderLocked publishes the recorder,
Register(c) ==
    /\ task[c].pc = "register" /\ Goto(c, "starting")
    /\ rec' = [rec EXCEPT ![task[c].cam.id] = task[c].rec]
    /\ UNCHANGED <<slice, conf, hub, failed, locks, counts, made, running, booted, pushing, wanted>>

\* and leaves a timelapse recorder that is not due to its schedule's monitor,
Delay(c) ==
    /\ task[c].pc = "starting"
    /\ Done(c)
    /\ UNCHANGED <<slice, snap, locks, counts, made, running, booted, pushing, wanted>>

\* or starts it.
StartRecorder(c) ==
    /\ task[c].pc = "starting"
    /\ running' = running \cup {task[c].rec}
    /\ failed' = failed \ {task[c].cam.id}
    /\ Done(c)
    /\ UNCHANGED <<slice, conf, rec, hub, locks, counts, made, booted, pushing, wanted>>

(* Mutant: the failure is not noted *)
StartFailsSilent(c) ==
    /\ task[c].pc = "starting" /\ fails < setup.fails /\ fails' = fails + 1
    /\ rec' = [rec EXCEPT ![task[c].cam.id] = None]
    /\ Done(c)
    /\ UNCHANGED <<slice, conf, hub, failed, locks, ops, saves, made, running, booted, pushing, wanted>>

StartFails(c) ==
    /\ task[c].pc = "starting" /\ fails < setup.fails /\ fails' = fails + 1
    /\ rec' = [rec EXCEPT ![task[c].cam.id] = None]
    /\ failed' = failed \cup {task[c].cam.id}
    /\ Done(c)
    /\ UNCHANGED <<slice, conf, hub, locks, ops, saves, made, running, booted, pushing, wanted>>

----------------------------------------------------------------------------
(* Boot, publishers *)

\* bringUpCamera, on a copy of the list, of a pull camera builds and registers without the mutex,
BootBuild(c, i) ==
    LET n == Len(made) + 1 IN
    /\ Begin(c, "boot") /\ i \in (1..setup.built) \ booted /\ booted' = booted \cup {i}
    /\ made' = Append(made, First(i))
    /\ hub' = [hub EXCEPT ![i] = n]
    /\ task' = [task EXCEPT ![c] = [Idle EXCEPT !.pc = "bootreg", !.op = "boot", !.id = i, !.rec = n]]
    /\ UNCHANGED <<slice, conf, rec, failed, locks, fails, saves, running, pushing, wanted>>

BootRegister(c) ==
    /\ task[c].pc = "bootreg" /\ Goto(c, "boot")
    /\ rec' = [rec EXCEPT ![task[c].id] = task[c].rec]
    /\ UNCHANGED <<slice, conf, hub, failed, locks, counts, made, running, booted, pushing, wanted>>

\* and starts it; a recorder that does not start stays registered.
BootStart(c) ==
    /\ task[c].pc = "boot" /\ Done(c)
    /\ \/ running' = running \cup {task[c].rec} /\ UNCHANGED fails
       \/ fails < setup.fails /\ fails' = fails + 1 /\ UNCHANGED running
    /\ UNCHANGED <<slice, snap, locks, ops, saves, made, booted, pushing, wanted>>

\* GetOrCreateHub, for a publisher that connects.
Publish(c, i) ==
    LET n == Len(made) + 1 IN
    /\ Begin(c, "publish") /\ i \in Keyed
    /\ IF hub[i] # None
       THEN pushing' = [pushing EXCEPT ![i] = hub[i]] /\ UNCHANGED <<hub, made>>
       ELSE /\ pushing' = [pushing EXCEPT ![i] = n] /\ hub' = [hub EXCEPT ![i] = n]
            /\ made' = Append(made, Camera(i, "plain"))
    /\ UNCHANGED <<slice, conf, rec, failed, locks, fails, saves, running, task, booted, wanted>>

----------------------------------------------------------------------------
Move ==
    \E c \in Clients :
        \/ RemoveConfig(c) \/ RemoveNone(c) \/ RemoveUnsaved(c) \/ RemoveDrop(c) \/ UpdateRead(c)
        \/ TakeOut(c) \/ StopOld(c) \/ UpdateCheck(c) \/ LoadMutex(c) \/ Lock(c) \/ Pass(c) \/ Answer(c)
        \/ Replace(c) \/ Halt(c) \/ Build(c) \/ BuildNone(c) \/ Register(c) \/ Delay(c)
        \/ StartRecorder(c) \/ StartFails(c) \/ BootRegister(c) \/ BootStart(c)
        \/ \E i \in 1..setup.cams :
              \/ AddPending(c, i) \/ AddUnsaved(c, i) \/ RemoveRead(c, i) \/ UpdateUnsaved(c, i)
              \/ ProtocolOff(c, i) \/ CallStop(c, i) \/ BootBuild(c, i) \/ Publish(c, i)
              \/ \E f \in Forms : AddConfig(c, i, f) \/ UpdateConfig(c, i, f) \/ UpdateForm(c, i, f)
              \/ \E op \in {"start", "restart"} : Call(c, op, i)

Next == Move /\ UNCHANGED setup

Spec == Init /\ [][Next]_vars

----------------------------------------------------------------------------
(* Properties *)

Cameras == [id : 0..NumCams, gen : 0..MaxOps, form : Forms]
TypeOK ==
    /\ setup \in Setups
    /\ \A a \in DOMAIN mem : mem[a] \in Seq(Cameras)
    /\ cfg.arr \in DOMAIN mem
    /\ cfg.len \in 0..Len(mem[cfg.arr])
    /\ \A i \in Keyed : conf[i][1] \in DOMAIN mem /\ conf[i][2] \in DOMAIN mem[conf[i][1]]
    /\ made \in Seq(Cameras) /\ running \subseteq DOMAIN made
    /\ \A i \in Cams : {rec[i], hub[i], pushing[i]} \subseteq {None} \cup DOMAIN made
    /\ {failed, booted, wanted} \subseteq SUBSET Cams
    /\ \A i \in Cams : entry[i] \in 0..mutexes[i]
    /\ \A c \in Clients : task[c].op \in OpNames \cup {"none"} /\ task[c].cam \in Cameras

Quiet == \A c \in Clients : task[c].pc = "idle"
RecorderOf(n) == made[n].id

(* Start, stop and restart are guarded by the camera's mutex and keep the   *)
(* promises below whoever else makes such calls; the others keep them when  *)
(* one caller makes them, on one camera, after the boot: a removal shifts   *)
(* the places the snapshot points to, an addition moves the cameras to a    *)
(* new array, and the boot replaces a recorder a request has started.       *)
Guarding == Ops \subseteq {"start", "stop", "restart"}
Alone == Cardinality(Clients) = 1 /\ setup.cams = 1 /\ "boot" \notin Ops

(* When nothing is under way, every recorder that runs can be reached: it is *)
(* the one registered for its camera.                                        *)
RunningRegistered ==
    Guarding \/ Alone => (Quiet => \A n \in running : rec[RecorderOf(n)] = n)

(* A camera is never recorded by two recorders at once.                      *)
OneRecorder ==
    Guarding \/ Alone => \A m, n \in running : RecorderOf(m) = RecorderOf(n) => m = n

(* When nothing is under way, what was last asked to run is registered, or   *)
(* known to have failed, so that the health loop sees it.  A bare camera is  *)
(* neither, and a removal that was rolled back forgets what had failed.      *)
Served ==
    Guarding \/ Alone =>
        (Quiet => \A i \in wanted \cap Keyed : rec[i] # None \/ i \in failed \/ At(conf[i]).form = "bare")

(* The snapshot's cameras are those of the configuration, each once.         *)
SnapshotIsConfig ==
    /\ Keyed = Configured
    /\ \A k, l \in Slots : Content(k).id = Content(l).id => k = l

(* The snapshot's configuration of a camera is that camera's.                *)
OwnConfig == \A i \in Keyed : At(conf[i]).id = i

(* When nothing is under way, a recorder that runs works with the camera's   *)
(* configuration as it is, but for the settings it is not restarted for.     *)
LatestConfig ==
    Alone =>
        (Quiet => \A n \in running, k \in Slots :
                      RecorderOf(n) = Content(k).id => made[n].gen = Content(k).gen)

(* When nothing is under way, no camera that was removed is being recorded.  *)
RemovedStops == Alone => (Quiet => \A n \in running : RecorderOf(n) \in Configured)

(* The manager's maps agree: types, the snapshot is the configuration, what  *)
(* was asked to run does or has failed, and what was removed does not.       *)
Inv == TypeOK /\ SnapshotIsConfig /\ Served /\ RemovedStops

===============================================================================
