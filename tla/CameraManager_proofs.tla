------------------------ MODULE CameraManager_proofs ------------------------
(***************************************************************************)
(* Theorems about CameraManager: the invariants its run checks, for any    *)
(* number of cameras, callers, calls and failures.                         *)
(***************************************************************************)
EXTENDS CameraManager, TLAPS, FiniteSetTheorems, SequenceTheorems

Pcs == {"idle", "remove", "drop", "oldstop", "read", "take", "check", "load", "lock",
        "locked", "halt", "build", "register", "starting", "bootreg", "boot"}
Starts == {"add", "update", "start", "restart"}
Guards == {"load", "lock"} \cup Inside
Calls == {"start", "restart", "stop"}

\* Actions taken together.
Guard(c) == Pass(c) \/ Answer(c) \/ Replace(c)
Adds(c, i) == \E f \in Forms : AddConfig(c, i, f)
Updates(c, i) == \E f \in Forms : UpdateConfig(c, i, f)
Alters(c, i) == \E f \in Forms : UpdateForm(c, i, f)

\* What a client has in hand at each place.
Shape(t) ==
    /\ t.pc # "idle" => t.id \in Cams
    /\ t.op \in Starts /\ t.pc # "idle" => t.cam.id \in Cams
    /\ t.op = "add" => t.id = t.cam.id
    /\ t.op = "update" => t.id = t.cam.id
    /\ t.pc \in Guards => t.op \in Starts \cup {"stop"}
    /\ t.pc \in {"build", "register", "starting"} => t.op \in Starts
    /\ t.pc = "halt" => t.op \in Calls
    /\ t.pc \in {"read", "check"} => t.op = "update"
    /\ t.pc = "take" => t.op \in {"update", "protocol"}
    /\ t.pc = "oldstop" => t.op \in {"update", "protocol", "remove"}
    /\ t.pc \in {"remove", "drop"} => t.op = "remove"
    /\ t.pc \in {"register", "starting", "bootreg", "boot"} => t.rec # None

TaskType(n) ==
    [pc : Pcs, op : OpNames \cup {"none"}, id : 0..NumCams, cam : Cameras,
     rec : 0..n, hub : 0..n, mu : Nat]

TaskOK ==
    /\ task \in [Clients -> TaskType(Len(made))]
    /\ \A c \in Clients : Shape(task[c])
    /\ entry \in [Cams -> Nat] /\ mutexes \in [Cams -> Nat]
    /\ \A i \in Cams : entry[i] <= mutexes[i]

\* The arrays; a place the snapshot points to was filled once and stays so.
SliceOK ==
    /\ mem \in Seq(Seq(Cameras)) /\ \A a \in DOMAIN mem : Len(mem[a]) > 0
    /\ \A a \in DOMAIN mem : \A k \in DOMAIN mem[a] : mem[a][k].gen <= ops
    /\ cfg \in [arr : Nat, len : Nat] /\ cfg.arr \in DOMAIN mem /\ cfg.len <= Len(mem[cfg.arr])
    /\ conf \in [Cams -> Seq(Nat)]
    /\ \A i \in Keyed : /\ conf[i][1] \in DOMAIN mem /\ conf[i][2] \in DOMAIN mem[conf[i][1]]
                        /\ At(conf[i]).id \in Cams
    /\ ops \in 0..setup.calls

\* What is registered was made, for the camera it is registered for.
RecOK ==
    /\ made \in Seq(Cameras) /\ running \subseteq DOMAIN made
    /\ rec \in [Cams -> 0..Len(made)] /\ hub \in [Cams -> 0..Len(made)]
    /\ pushing \in [Cams -> 0..Len(made)]
    /\ failed \subseteq Cams /\ booted \subseteq Cams /\ wanted \subseteq Cams
    /\ fails \in Nat /\ saves \in Nat

Base == setup \in Setups /\ SliceOK /\ SnapshotIsConfig /\ TaskOK /\ RecOK

-----------------------------------------------------------------------------
\* Callers that start, stop and restart, guarded by the cameras' mutexes.

\* The snapshot's configuration never changes, and a task's is its camera's.
SameCamera ==
    /\ OwnConfig
    /\ \A c \in Clients : task[c].pc # "idle" =>
          task[c].pc \in Guards /\ task[c].op \in Calls
          /\ (task[c].op # "stop" => task[c].cam = At(conf[task[c].id]) /\ task[c].cam.id = task[c].id)

\* One mutex per camera, and one client at a camera.
OneMutex ==
    \A c \in Clients : task[c].pc \in {"lock"} \cup Inside => task[c].mu = entry[task[c].id] /\ task[c].mu # None
OneInside ==
    \A c, d \in Clients :
        task[c].pc \in Inside /\ task[d].pc \in Inside /\ task[c].id = task[d].id => c = d

Halting(n) == \E c \in Clients : task[c].pc = "halt" /\ task[c].id = RecorderOf(n) /\ task[c].rec = n
Reached == \A n \in running : rec[RecorderOf(n)] = n \/ Halting(n)

\* A client that has taken a recorder out, or put a new one in.
HandsOn ==
    \A c \in Clients :
        /\ task[c].pc \in {"halt", "build", "register"} => rec[task[c].id] = None
        /\ task[c].pc = "starting" => rec[task[c].id] = task[c].rec
        /\ task[c].pc \in {"register", "starting"} =>
              /\ task[c].rec # None /\ RecorderOf(task[c].rec) = task[c].id
              /\ task[c].rec \notin running

Underway(i) == \E c \in Clients : task[c].pc # "idle" /\ task[c].op # "stop" /\ task[c].id = i
Serving ==
    \A i \in wanted \cap Keyed : rec[i] # None \/ i \in failed \/ At(conf[i]).form = "bare" \/ Underway(i)

GuardInv == Guarding => SameCamera /\ OneMutex /\ OneInside /\ Reached /\ HandsOn /\ Serving

-----------------------------------------------------------------------------
\* One caller of all operations, on one camera.

Present == cfg.len = 1
Current == mem[1][1]
OneSlot ==
    /\ cfg.arr = 1 /\ cfg.len \in 0..1 /\ Len(mem[1]) = 1 /\ Current.id = 1
    /\ conf[1] = IF Present THEN <<1, 1>> ELSE <<>>
    /\ Keyed \subseteq {1}
    /\ \A n \in DOMAIN made : RecorderOf(n) = 1
    /\ failed \subseteq {1}

\* At most this recorder runs, with the configuration it is restarted for.
Runs(r) == running \subseteq {r} /\ (running # {} => Present /\ made[r].gen = Current.gen)
Rests == wanted \cap Keyed = {} \/ rec[1] # None \/ 1 \in failed \/ Current.form = "bare"

AloneAt(t) ==
    /\ t.pc \notin {"bootreg", "boot"} /\ (t.pc # "idle" => t.id = 1)
    /\ t.pc # "idle" /\ t.op \in Starts => Present /\ t.cam = Current
    /\ t.pc \in {"idle", "remove"} => Runs(rec[1]) /\ Rests
    /\ t.pc \in {"remove", "take"} => t.rec = rec[1]
    /\ t.pc \in {"drop", "oldstop"} => running \subseteq {t.rec} /\ rec[1] = None
    /\ t.pc = "drop" \/ (t.pc = "oldstop" /\ t.op = "remove") => ~Present
    /\ t.pc \in {"take", "oldstop"} /\ t.op = "protocol" => 1 \notin wanted
    /\ t.pc \in {"read", "take"} => running \subseteq {rec[1]}
    /\ t.pc = "check" => running = {}
    /\ t.pc \in {"load", "lock", "locked"} =>
          IF t.op \in {"add", "update"} THEN running = {} ELSE Runs(rec[1])
    /\ t.pc \in {"load", "lock", "locked"} /\ t.op = "stop" => Rests
    /\ t.pc = "halt" => running \subseteq {t.rec} /\ rec[1] = None
    /\ t.pc = "halt" /\ t.op = "stop" => 1 \notin wanted
    /\ t.pc \in {"build", "register", "starting"} => running = {}
    /\ t.pc \in {"register", "starting"} => t.rec # None /\ made[t.rec] = Current
    /\ t.pc = "starting" => t.rec = rec[1]

AloneInv == Alone => OneSlot /\ \A c \in Clients : AloneAt(task[c])

IInv == Base /\ GuardInv /\ AloneInv

-----------------------------------------------------------------------------
\* What a camera's settings may be.
LEMMA CameraFacts ==
    ASSUME NEW i \in Cams
    PROVE  /\ \A f \in Forms : /\ Camera(i, f) \in Cameras /\ Camera(i, f).id = i
                              /\ Camera(i, f).gen = 0 /\ Camera(i, f).form = f
           /\ First(i) \in Cameras /\ First(i).id = i /\ First(i).gen = 0
           /\ i <= setup.built => First(i).form = "plain"
           /\ ~(i <= setup.built) => First(i).form = "bare"
           /\ "plain" \in Forms /\ "bare" \in Forms
<1>1. i \in 0..NumCams /\ 0 \in 0..MaxOps
  BY CameraAssumption DEF Cams
<1>2. \A f \in Forms : /\ Camera(i, f) \in Cameras /\ Camera(i, f).id = i
                       /\ Camera(i, f).gen = 0 /\ Camera(i, f).form = f
  BY <1>1 DEF Camera, Cameras
<1>3. "plain" \in Forms /\ "bare" \in Forms
  BY DEF Forms
<1>4. CASE i <= setup.built
  <2>1. First(i) = Camera(i, "plain")
    BY <1>4 DEF First
  <2> QED BY <1>2, <1>3, <1>4, <2>1
<1>5. CASE ~(i <= setup.built)
  <2>1. First(i) = Camera(i, "bare")
    BY <1>5 DEF First
  <2> QED BY <1>2, <1>3, <1>5, <2>1
<1> QED BY <1>4, <1>5

LEMMA SetupFacts ==
    ASSUME setup \in Setups
    PROVE  /\ NumCams \in Nat /\ MaxOps \in Nat /\ Cams = 1..NumCams
           /\ setup.cams \in Cams /\ setup.cams \in Nat
           /\ NumBooted \in 1..setup.cams /\ NumBooted \in Cams
           /\ 1..setup.cams \subseteq Cams /\ 1 \in 1..setup.cams
           /\ IsFiniteSet(Clients) /\ Ops \subseteq OpNames
           /\ setup.calls \in 0..MaxOps /\ setup.fails \in Nat /\ setup.saves \in Nat
           /\ setup.built \in Nat /\ setup.built <= NumBooted /\ 1..setup.built \subseteq 1..NumBooted
<1>1. setup \in SetupType /\ setup.booted <= setup.cams /\ setup.built <= setup.booted
  BY CameraAssumption
<1>2. IsFiniteSet(Clients)
  BY <1>1, CameraAssumption, FS_Subset DEF SetupType, Clients
<1> QED
  BY <1>1, <1>2, CameraAssumption DEF SetupType, Cams, NumBooted, Ops

\* One caller is one client.
LEMMA OneClient ==
    ASSUME setup \in Setups, Alone
    PROVE  \A c, d \in Clients : c = d
BY SetupFacts, FS_Singleton DEF Alone

\* The parts of a sequence that an update in one place leaves alone.
LEMMA Within ==
    ASSUME NEW S, NEW s \in Seq(S), NEW k \in DOMAIN s, NEW x \in S
    PROVE  /\ [s EXCEPT ![k] = x] \in Seq(S) /\ Len([s EXCEPT ![k] = x]) = Len(s)
           /\ DOMAIN [s EXCEPT ![k] = x] = DOMAIN s
           /\ \A j \in DOMAIN s : [s EXCEPT ![k] = x][j] = IF j = k THEN x ELSE s[j]
OBVIOUS

-----------------------------------------------------------------------------
(* The arrays *)

SnapOK == SliceOK /\ SnapshotIsConfig

\* Calls are counted up to their bound.
LEMMA Counted ==
    ASSUME setup \in Setups, SliceOK, ops' = ops \/ (ops < setup.calls /\ ops' = ops + 1)
    PROVE  ops \in Nat /\ ops' \in Nat /\ ops <= ops' /\ ops' \in 0..setup.calls
<1>1. ops \in 0..setup.calls
  BY DEF SliceOK
<1>2. setup.calls \in Nat
  <2>1. setup.calls \in 0..MaxOps /\ MaxOps \in Nat
    BY SetupFacts
  <2> QED BY <2>1
<1> QED BY <1>1, <1>2

LEMMA SliceFrame ==
    ASSUME setup \in Setups, setup' = setup, SnapOK, UNCHANGED <<slice, conf>>,
           ops' = ops \/ (ops < setup.calls /\ ops' = ops + 1)
    PROVE  SnapOK'
<1>1. ops \in Nat /\ ops' \in Nat /\ ops <= ops' /\ ops' \in 0..setup.calls
  BY Counted DEF SnapOK
<1>2. mem' = mem /\ cfg' = cfg /\ conf' = conf
  BY DEF slice
<1>3. SnapshotIsConfig'
  BY <1>2 DEF SnapOK, SnapshotIsConfig, Keyed, Configured, Slots, Content
<1>4. \A a \in DOMAIN mem : \A k \in DOMAIN mem[a] : mem[a][k].gen \in Nat /\ mem[a][k].gen <= ops'
  <2> SUFFICES ASSUME NEW a \in DOMAIN mem, NEW k \in DOMAIN mem[a]
               PROVE  mem[a][k].gen \in Nat /\ mem[a][k].gen <= ops'
    OBVIOUS
  <2>1. mem[a][k] \in Cameras /\ mem[a][k].gen <= ops
    BY DEF SnapOK, SliceOK
  <2>2. mem[a][k].gen \in Nat
    BY <2>1, SetupFacts DEF Cameras
  <2> QED BY <2>1, <2>2, <1>1
<1>5. SliceOK'
  BY <1>1, <1>2, <1>4 DEF SnapOK, SliceOK, Keyed, At
<1> QED BY <1>3, <1>5 DEF SnapOK

\* An array of places and what is in it.
LEMMA Arrays ==
    ASSUME setup \in Setups, SliceOK
    PROVE  /\ cfg.arr \in DOMAIN mem /\ mem[cfg.arr] \in Seq(Cameras) /\ Len(mem[cfg.arr]) \in Nat
           /\ Len(mem[cfg.arr]) > 0 /\ cfg.len \in Nat /\ cfg.len <= Len(mem[cfg.arr])
           /\ Slots = 1..cfg.len /\ \A k \in Slots : k \in DOMAIN mem[cfg.arr] /\ Content(k) = mem[cfg.arr][k]
           /\ \A a \in DOMAIN mem : mem[a] \in Seq(Cameras)
           /\ Len(mem) \in Nat /\ DOMAIN mem = 1..Len(mem)
BY DEF SliceOK, Slots, Content

\* The array after x was put behind the slice, in place or in a longer one.
Extended(x) ==
    LET old == mem[cfg.arr]  n == cfg.len + 1 IN
    IF n <= Len(old) THEN mem' = [mem EXCEPT ![cfg.arr][n] = x]
    ELSE mem' = Append(mem, [k \in 1..(2 * Len(old)) |->
                               IF k < n THEN old[k] ELSE IF k = n THEN x ELSE Empty])
Home == IF cfg.len + 1 <= Len(mem[cfg.arr]) THEN cfg.arr ELSE Len(mem) + 1

LEMMA Extending ==
    ASSUME setup \in Setups, SliceOK, NEW i \in Cams, NEW f \in Forms, Extended(Camera(i, f))
    PROVE  /\ mem' \in Seq(Seq(Cameras)) /\ Home \in DOMAIN mem' /\ Home \in Nat
           /\ \A a \in DOMAIN mem' : Len(mem'[a]) > 0
           /\ \A a \in DOMAIN mem' : \A k \in DOMAIN mem'[a] : mem'[a][k].gen <= ops
           /\ cfg.len + 1 <= Len(mem'[Home])
           /\ \A k \in Slots : mem'[Home][k] = Content(k)
           /\ mem'[Home][cfg.len + 1] = Camera(i, f)
           /\ \A a \in DOMAIN mem : \A k \in DOMAIN mem[a] :
                 /\ a \in DOMAIN mem' /\ k \in DOMAIN mem'[a]
                 /\ mem[a][k].id \in Cams => mem'[a][k].id \in Cams
<1> DEFINE x == Camera(i, f)
           old == mem[cfg.arr]
           n == cfg.len + 1
           new == [k \in 1..(2 * Len(old)) |->
                     IF k < n THEN old[k] ELSE IF k = n THEN x ELSE Empty]
<1>1. x \in Cameras /\ x.gen = 0 /\ Empty \in Cameras /\ Empty.gen = 0
  BY SetupFacts DEF Cameras, Camera, Forms, Empty, Cams, None
<1>2. ops \in Nat /\ n \in Nat \ {0} /\ old \in Seq(Cameras) /\ Len(old) \in Nat \ {0} /\ cfg.len <= Len(old)
  <2>1. ops \in Nat
    BY SetupFacts, SMTT(40) DEF SliceOK
  <2>2. old \in Seq(Cameras) /\ Len(old) \in Nat /\ Len(old) > 0 /\ cfg.len \in Nat /\ cfg.len <= Len(old)
    BY Arrays
  <2> QED BY <2>1, <2>2
<1>3. CASE n <= Len(old)
  <2>1. mem' = [mem EXCEPT ![cfg.arr] = [old EXCEPT ![n] = x]] /\ Home = cfg.arr
    BY <1>3 DEF Extended, Home
  <2>2. n \in DOMAIN old
    BY <1>2, <1>3
  <2> DEFINE up == [old EXCEPT ![n] = x]
  <2>3. /\ up \in Seq(Cameras) /\ Len(up) = Len(old) /\ DOMAIN up = DOMAIN old
        /\ \A k \in DOMAIN old : up[k] = IF k = n THEN x ELSE old[k]
    BY <1>1, <1>2, <2>2, Within
  <2>4. /\ mem' \in Seq(Seq(Cameras)) /\ DOMAIN mem' = DOMAIN mem
        /\ \A a \in DOMAIN mem : mem'[a] = IF a = cfg.arr THEN up ELSE mem[a]
    BY <2>1, <2>3, Arrays, SMTT(40) DEF SliceOK
  <2>5. \A k \in DOMAIN up : up[k].gen <= ops
    BY <1>1, <1>2, <2>3, Arrays DEF SliceOK
  <2> HIDE DEF up, old, x
  <2>6. \A a \in DOMAIN mem' : Len(mem'[a]) > 0
    BY <2>3, <2>4, <1>2 DEF SliceOK
  <2>7. \A a \in DOMAIN mem' : \A k \in DOMAIN mem'[a] : mem'[a][k].gen <= ops
    BY <2>4, <2>5 DEF SliceOK
  <2>8. Home \in DOMAIN mem' /\ Home \in Nat /\ n <= Len(mem'[Home])
    BY <2>1, <2>3, <2>4, <1>3, Arrays
  <2>9. \A k \in Slots : k # n /\ k \in DOMAIN old /\ Content(k) = old[k]
    BY <1>2, Arrays DEF old
  <2>10. \A k \in Slots : mem'[Home][k] = Content(k)
    BY <2>1, <2>3, <2>4, <2>9, Arrays
  <2>11. mem'[Home][n] = x
    BY <2>1, <2>2, <2>3, <2>4, Arrays
  <2>12. \A a \in DOMAIN mem : \A k \in DOMAIN mem[a] :
            /\ a \in DOMAIN mem' /\ k \in DOMAIN mem'[a]
            /\ mem[a][k].id \in Cams => mem'[a][k].id \in Cams
    <3> SUFFICES ASSUME NEW a \in DOMAIN mem, NEW k \in DOMAIN mem[a]
                 PROVE  /\ a \in DOMAIN mem' /\ k \in DOMAIN mem'[a]
                        /\ mem[a][k].id \in Cams => mem'[a][k].id \in Cams
      OBVIOUS
    <3>1. x.id \in Cams
      BY CameraFacts DEF x
    <3>2. CASE a = cfg.arr
      BY <2>3, <2>4, <3>1, <3>2 DEF old
    <3>3. CASE a # cfg.arr
      BY <2>4, <3>3
    <3> QED BY <3>2, <3>3
  <2> QED BY <2>4, <2>6, <2>7, <2>8, <2>10, <2>11, <2>12 DEF x
<1>4. CASE ~(n <= Len(old))
  <2>1. mem' = Append(mem, new) /\ Home = Len(mem) + 1
    BY <1>4 DEF Extended, Home
  <2>2. n = Len(old) + 1 /\ cfg.len = Len(old) /\ 2 * Len(old) \in Nat /\ n <= 2 * Len(old) /\ 2 * Len(old) > 0
    BY <1>2, <1>4, Arrays
  <2>3. \A k \in 1..(2 * Len(old)) : new[k] \in Cameras
    BY <1>1, <1>2, <2>2
  <2>4. new \in Seq(Cameras) /\ Len(new) = 2 * Len(old) /\ DOMAIN new = 1..(2 * Len(old))
    <3>1. \A m \in Nat : [1..m -> Cameras] \subseteq Seq(Cameras)
      OBVIOUS
    <3>2. new \in [1..(2 * Len(old)) -> Cameras]
      BY <2>3
    <3> QED BY <2>2, <3>1, <3>2
  <2>5. \A k \in DOMAIN new : new[k] = IF k < n THEN old[k] ELSE IF k = n THEN x ELSE Empty
    BY <2>4
  <2>6. \A k \in DOMAIN new : new[k].gen <= ops
    <3> SUFFICES ASSUME NEW k \in DOMAIN new
                 PROVE  new[k].gen <= ops
      OBVIOUS
    <3>1. k < n => k \in DOMAIN old
      BY <1>2, <2>2, <2>4
    <3>2. k < n => old[k].gen <= ops
      BY <3>1, Arrays DEF SliceOK
    <3> QED BY <1>1, <1>2, <2>5, <3>2
  <2> HIDE DEF new, x, old
  <2>7. /\ mem' \in Seq(Seq(Cameras)) /\ DOMAIN mem' = DOMAIN mem \cup {Home} /\ mem'[Home] = new
        /\ \A a \in DOMAIN mem : mem'[a] = mem[a]
    BY <2>1, <2>4, Arrays, SMTT(40) DEF SliceOK
  <2>8. \A a \in DOMAIN mem' : Len(mem'[a]) > 0
    BY <2>2, <2>4, <2>7 DEF SliceOK
  <2>9. \A a \in DOMAIN mem' : \A k \in DOMAIN mem'[a] : mem'[a][k].gen <= ops
    BY <2>6, <2>7 DEF SliceOK
  <2>10. Home \in Nat /\ n <= Len(mem'[Home])
    BY <2>1, <2>2, <2>4, <2>7, Arrays
  <2>11. \A k \in Slots : k < n /\ k \in DOMAIN new /\ Content(k) = old[k]
    BY <1>2, <2>2, <2>4, Arrays DEF old
  <2>12. n \in DOMAIN new
    BY <1>2, <2>2, <2>4
  <2>13. \A k \in Slots : mem'[Home][k] = Content(k)
    BY <2>5, <2>7, <2>11
  <2>14. mem'[Home][n] = x
    BY <1>2, <2>5, <2>7, <2>12
  <2> QED BY <2>7, <2>8, <2>9, <2>10, <2>13, <2>14 DEF x
<1> QED BY <1>3, <1>4

\* A camera is added behind the slice and the snapshot points to it there,
LEMMA SliceAdded ==
    ASSUME setup \in Setups, setup' = setup, SnapOK, NEW i \in Cams, i \notin Configured,
           NEW f \in Forms, Extended(Camera(i, f)), cfg' = [arr |-> Home, len |-> cfg.len + 1],
           conf' = [conf EXCEPT ![i] = <<Home, cfg.len + 1>>],
           ops < setup.calls, ops' = ops + 1
    PROVE  SnapOK'
<1> DEFINE x == Camera(i, f)
<1> USE DEF SnapOK
<1>1. ops \in Nat /\ ops' \in 0..setup.calls /\ ops <= ops'
  BY Counted
<1>2. cfg.len \in Nat /\ Slots = 1..cfg.len
  BY Arrays
<1>3. /\ mem' \in Seq(Seq(Cameras)) /\ Home \in DOMAIN mem' /\ Home \in Nat
      /\ \A a \in DOMAIN mem' : Len(mem'[a]) > 0
      /\ \A a \in DOMAIN mem' : \A k \in DOMAIN mem'[a] : mem'[a][k].gen <= ops
      /\ cfg.len + 1 <= Len(mem'[Home])
      /\ \A k \in Slots : mem'[Home][k] = Content(k)
      /\ mem'[Home][cfg.len + 1] = x
  BY Extending
<1>0. \A a \in DOMAIN mem : \A k \in DOMAIN mem[a] :
         /\ a \in DOMAIN mem' /\ k \in DOMAIN mem'[a]
         /\ mem[a][k].id \in Cams => mem'[a][k].id \in Cams
  BY Extending
<1>x. x.id = i
  BY CameraFacts
<1> HIDE DEF x
<1>n. PICK n \in Nat : n = cfg.len + 1
  BY <1>2
<1>4. Slots' = Slots \cup {n} /\ n \notin Slots
  BY <1>2, <1>n DEF Slots
<1>5. /\ \A k \in Slots : Content(k)' = Content(k)
      /\ Content(n)' = x
  BY <1>3, <1>n DEF Content
<1>6. Configured' = Configured \cup {i}
  BY <1>4, <1>5, <1>x DEF Configured
<1>7. /\ conf \in [Cams -> Seq(Nat)] /\ conf' \in [Cams -> Seq(Nat)]
      /\ conf'[i] = <<Home, cfg.len + 1>> /\ \A j \in Cams \ {i} : conf'[j] = conf[j]
  <2>1. <<Home, cfg.len + 1>> \in Seq(Nat)
    BY <1>2, <1>3
  <2>2. conf \in [Cams -> Seq(Nat)]
    BY DEF SliceOK
  <2> QED BY <2>1, <2>2
<1>8. Keyed' = Keyed \cup {i}
  BY <1>7 DEF Keyed
<1>9. SnapshotIsConfig'
  <2>1. \A k, l \in Slots' : Content(k)'.id = Content(l)'.id => k = l
    <3>1. \A k \in Slots : Content(k).id # i
      BY DEF Configured
    <3> QED BY <1>4, <1>5, <1>x, <3>1 DEF SnapshotIsConfig
  <2> QED BY <1>6, <1>8, <2>1 DEF SnapshotIsConfig
<1>10. \A a \in DOMAIN mem' : \A k \in DOMAIN mem'[a] : mem'[a][k].gen <= ops'
  <2> SUFFICES ASSUME NEW a \in DOMAIN mem', NEW k \in DOMAIN mem'[a]
               PROVE  mem'[a][k].gen <= ops'
    OBVIOUS
  <2>1. mem'[a][k] \in Cameras /\ mem'[a][k].gen <= ops
    BY <1>3
  <2>2. mem'[a][k].gen \in Nat
    BY <2>1, SetupFacts DEF Cameras
  <2> QED BY <2>1, <2>2, <1>1
<1>11. \A j \in Keyed' : /\ conf'[j][1] \in DOMAIN mem' /\ conf'[j][2] \in DOMAIN mem'[conf'[j][1]]
                         /\ At(conf[j])'.id \in Cams
  <2> SUFFICES ASSUME NEW j \in Keyed'
               PROVE  /\ conf'[j][1] \in DOMAIN mem' /\ conf'[j][2] \in DOMAIN mem'[conf'[j][1]]
                      /\ mem'[conf'[j][1]][conf'[j][2]].id \in Cams
    BY DEF At
  <2>1. CASE j = i
    <3>1. conf'[j][1] = Home /\ conf'[j][2] = cfg.len + 1
      BY <1>7, <2>1
    <3>2. cfg.len + 1 \in DOMAIN mem'[Home]
      BY <1>2, <1>3
    <3> QED BY <1>3, <1>x, <3>1, <3>2
  <2>2. CASE j # i
    <3>1. j \in Keyed /\ conf'[j] = conf[j]
      BY <1>7, <1>8, <2>2 DEF Keyed
    <3>2. /\ conf[j][1] \in DOMAIN mem /\ conf[j][2] \in DOMAIN mem[conf[j][1]]
          /\ mem[conf[j][1]][conf[j][2]].id \in Cams
      BY <3>1 DEF SliceOK, At
    <3> HIDE DEF SnapOK
    <3> QED BY <1>0, <3>1, <3>2
  <2> QED BY <2>1, <2>2
<1>12. cfg' \in [arr : Nat, len : Nat] /\ cfg'.arr \in DOMAIN mem' /\ cfg'.len <= Len(mem'[cfg'.arr])
  BY <1>2, <1>3
<1>13. SliceOK'
  BY <1>1, <1>3, <1>7, <1>10, <1>11, <1>12 DEF SliceOK
<1> QED BY <1>9, <1>13

\* or, when the addition cannot be saved, is left behind the slice.
LEMMA SliceLeft ==
    ASSUME setup \in Setups, setup' = setup, SnapOK, NEW i \in Cams,
           NEW f \in Forms, Extended(Camera(i, f)), cfg' = [arr |-> Home, len |-> cfg.len], conf' = conf,
           ops < setup.calls, ops' = ops + 1
    PROVE  SnapOK'
<1> DEFINE x == Camera(i, f)
<1> USE DEF SnapOK
<1>1. ops \in Nat /\ ops' \in 0..setup.calls /\ ops <= ops'
  BY Counted
<1>2. cfg.len \in Nat /\ Slots = 1..cfg.len
  BY Arrays
<1>3. /\ mem' \in Seq(Seq(Cameras)) /\ Home \in DOMAIN mem' /\ Home \in Nat
      /\ \A a \in DOMAIN mem' : Len(mem'[a]) > 0
      /\ \A a \in DOMAIN mem' : \A k \in DOMAIN mem'[a] : mem'[a][k].gen <= ops
      /\ cfg.len + 1 <= Len(mem'[Home])
      /\ \A k \in Slots : mem'[Home][k] = Content(k)
  BY Extending
<1>0. \A a \in DOMAIN mem : \A k \in DOMAIN mem[a] :
         /\ a \in DOMAIN mem' /\ k \in DOMAIN mem'[a]
         /\ mem[a][k].id \in Cams => mem'[a][k].id \in Cams
  BY Extending
<1>4. Slots' = Slots /\ Keyed' = Keyed
  BY <1>2 DEF Slots, Keyed
<1>5. \A k \in Slots : Content(k)' = Content(k)
  BY <1>3 DEF Content
<1>6. SnapshotIsConfig'
  BY <1>4, <1>5 DEF SnapshotIsConfig, Configured
<1>7. \A a \in DOMAIN mem' : \A k \in DOMAIN mem'[a] : mem'[a][k].gen <= ops'
  <2> SUFFICES ASSUME NEW a \in DOMAIN mem', NEW k \in DOMAIN mem'[a]
               PROVE  mem'[a][k].gen <= ops'
    OBVIOUS
  <2>1. mem'[a][k] \in Cameras /\ mem'[a][k].gen <= ops
    BY <1>3
  <2>2. mem'[a][k].gen \in Nat
    BY <2>1, SetupFacts DEF Cameras
  <2> QED BY <2>1, <2>2, <1>1
<1>8. \A j \in Keyed' : /\ conf'[j][1] \in DOMAIN mem' /\ conf'[j][2] \in DOMAIN mem'[conf'[j][1]]
                        /\ At(conf[j])'.id \in Cams
  <2> SUFFICES ASSUME NEW j \in Keyed
               PROVE  /\ conf[j][1] \in DOMAIN mem' /\ conf[j][2] \in DOMAIN mem'[conf[j][1]]
                      /\ mem'[conf[j][1]][conf[j][2]].id \in Cams
    BY <1>4 DEF At
  <2>1. /\ conf[j][1] \in DOMAIN mem /\ conf[j][2] \in DOMAIN mem[conf[j][1]]
        /\ mem[conf[j][1]][conf[j][2]].id \in Cams
    BY DEF SliceOK, At
  <2> HIDE DEF SnapOK
  <2> QED BY <1>0, <2>1
<1>9. cfg' \in [arr : Nat, len : Nat] /\ cfg'.arr \in DOMAIN mem' /\ cfg'.len <= Len(mem'[cfg'.arr])
  <2>1. Len(mem'[Home]) \in Nat
    BY <1>3
  <2>2. cfg.len <= Len(mem'[Home])
    BY <1>2, <1>3, <2>1
  <2> QED BY <1>2, <1>3, <2>2
<1>10. SliceOK'
  BY <1>1, <1>3, <1>7, <1>8, <1>9 DEF SliceOK
<1> QED BY <1>6, <1>10

\* A camera is cut out of the slice; what follows moves down a place.
LEMMA SliceCut ==
    ASSUME setup \in Setups, setup' = setup, SnapOK, NEW i \in Cams, NEW k \in IndexOf(i), Cut(k),
           conf' = [conf EXCEPT ![i] = <<>>], ops' = ops
    PROVE  SnapOK'
<1> USE DEF SnapOK
<1>1. PICK n \in Nat : n = cfg.len
  BY Arrays
<1>2. /\ Slots = 1..n /\ k \in 1..n /\ Content(k).id = i /\ n > 0
      /\ n \in Nat /\ n - 1 \in Nat
  BY <1>1, Arrays DEF IndexOf
<1> DEFINE old == mem[cfg.arr]
           From(j) == IF k <= j /\ j <= n - 1 THEN j + 1 ELSE j
           up == [j \in DOMAIN old |-> old[From(j)]]
<1>3. /\ old \in Seq(Cameras) /\ Len(old) \in Nat /\ n <= Len(old) /\ Len(old) > 0
      /\ \A j \in Slots : j \in DOMAIN old /\ Content(j) = old[j]
  BY <1>1, Arrays
<1>4. \A j \in DOMAIN old : From(j) \in DOMAIN old
  BY <1>2, <1>3
<1>5. mem' = [mem EXCEPT ![cfg.arr] = up]
  <2>1. mem' = [mem EXCEPT ![cfg.arr] =
                  [j \in DOMAIN old |-> IF j \in k..(cfg.len - 1) THEN old[j + 1] ELSE old[j]]]
    BY DEF Cut
  <2>2. \A j \in DOMAIN old : (IF j \in k..(cfg.len - 1) THEN old[j + 1] ELSE old[j]) = old[From(j)]
    BY <1>1, <1>2, <1>3
  <2>3. [j \in DOMAIN old |-> IF j \in k..(cfg.len - 1) THEN old[j + 1] ELSE old[j]] = up
    BY <2>2
  <2> QED BY <2>1, <2>3
<1>6. cfg' = [cfg EXCEPT !.len = n - 1]
  BY <1>1 DEF Cut
<1>7. up \in Seq(Cameras) /\ Len(up) = Len(old) /\ DOMAIN up = DOMAIN old
      /\ \A j \in DOMAIN old : up[j] = old[From(j)]
  <2>1. \A m \in Nat : [1..m -> Cameras] \subseteq Seq(Cameras)
    OBVIOUS
  <2>2. up \in [1..Len(old) -> Cameras]
    BY <1>3, <1>4
  <2> QED BY <1>3, <2>1, <2>2
<1> HIDE DEF up
<1>8. /\ mem' \in Seq(Seq(Cameras)) /\ DOMAIN mem' = DOMAIN mem /\ cfg.arr \in DOMAIN mem
      /\ mem'[cfg.arr] = up /\ \A a \in DOMAIN mem : a # cfg.arr => mem'[a] = mem[a]
  BY <1>5, <1>7, Arrays DEF SliceOK
<1>9. cfg'.arr = cfg.arr /\ cfg'.len = n - 1 /\ cfg' \in [arr : Nat, len : Nat]
  BY <1>2, <1>6 DEF SliceOK
<1>10. Slots' = 1..(n - 1) /\ \A j \in Slots' : j \in Slots /\ From(j) \in Slots \ {k}
  <2>1. Slots' = 1..(n - 1)
    BY <1>9 DEF Slots
  <2>2. ASSUME NEW j \in 1..(n - 1)
        PROVE  j \in 1..n /\ From(j) \in 1..n /\ From(j) # k
    BY <1>2
  <2> HIDE DEF From
  <2> QED BY <1>2, <2>1, <2>2
<1>11. \A j \in Slots' : Content(j)' = Content(From(j))
  <2> SUFFICES ASSUME NEW j \in Slots'
               PROVE  mem'[cfg'.arr][j] = Content(From(j))
    BY DEF Content
  <2>1. j \in DOMAIN old /\ Content(From(j)) = old[From(j)]
    BY <1>3, <1>10
  <2> QED BY <1>7, <1>8, <1>9, <2>1
<1>12. \A j, l \in Slots' : From(j) = From(l) => j = l
  BY <1>2, <1>10
<1>13. \A l \in Slots \ {k} : \E j \in Slots' : From(j) = l
  <2> SUFFICES ASSUME NEW l \in Slots, l # k
               PROVE  \E j \in Slots' : From(j) = l
    OBVIOUS
  <2>1. CASE l < k
    BY <1>2, <1>10, <2>1
  <2>2. CASE l > k
    <3>1. l - 1 \in Slots' /\ From(l - 1) = l
      BY <1>2, <1>10, <2>2
    <3> QED BY <3>1
  <2> QED BY <1>2, <2>1, <2>2
<1> HIDE DEF From
<1>14. \A l \in Slots : Content(l).id = i => l = k
  BY <1>2 DEF SnapshotIsConfig
<1>15. Configured' = Configured \ {i}
  <2>1. ASSUME NEW j \in Slots'
        PROVE  Content(j)'.id \in Configured \ {i}
    BY <1>10, <1>11, <1>14, <2>1 DEF Configured
  <2>2. ASSUME NEW l \in Slots, Content(l).id # i
        PROVE  \E j \in Slots' : Content(j)'.id = Content(l).id
    <3>1. l # k
      BY <1>2, <2>2
    <3>2. PICK j \in Slots' : From(j) = l
      BY <1>13, <3>1
    <3> QED BY <1>11, <3>2
  <2>3. Configured' = {Content(j)'.id : j \in Slots'}
    BY DEF Configured
  <2> QED BY <2>1, <2>2, <2>3 DEF Configured
<1>16. \A j, l \in Slots' : Content(j)'.id = Content(l)'.id => j = l
  BY <1>10, <1>11, <1>12 DEF SnapshotIsConfig
<1>17. /\ conf \in [Cams -> Seq(Nat)] /\ conf' \in [Cams -> Seq(Nat)]
       /\ Keyed' = Keyed \ {i} /\ \A j \in Cams \ {i} : conf'[j] = conf[j]
  BY DEF SliceOK, Keyed
<1>18. SnapshotIsConfig'
  BY <1>15, <1>16, <1>17 DEF SnapshotIsConfig
<1>19. \A a \in DOMAIN mem' : Len(mem'[a]) > 0
  BY <1>3, <1>7, <1>8 DEF SliceOK
<1>20. \A a \in DOMAIN mem' : \A j \in DOMAIN mem'[a] : mem'[a][j].gen <= ops'
  <2> SUFFICES ASSUME NEW a \in DOMAIN mem', NEW j \in DOMAIN mem'[a]
               PROVE  mem'[a][j].gen <= ops
    OBVIOUS
  <2>1. CASE a = cfg.arr
    <3>1. j \in DOMAIN old /\ mem'[a][j] = old[From(j)]
      BY <1>7, <1>8, <2>1
    <3> QED BY <1>4, <1>8, <2>1, <3>1 DEF SliceOK
  <2>2. CASE a # cfg.arr
    BY <1>8, <2>2 DEF SliceOK
  <2> QED BY <2>1, <2>2
<1>21. \A a \in DOMAIN mem : \A j \in DOMAIN mem[a] :
         /\ a \in DOMAIN mem' /\ j \in DOMAIN mem'[a]
         /\ mem[a][j].id \in Cams => mem'[a][j].id \in Cams
  <2> SUFFICES ASSUME NEW a \in DOMAIN mem, NEW j \in DOMAIN mem[a]
               PROVE  /\ a \in DOMAIN mem' /\ j \in DOMAIN mem'[a]
                      /\ mem[a][j].id \in Cams => mem'[a][j].id \in Cams
    OBVIOUS
  <2>1. CASE a = cfg.arr
    <3>1. j \in DOMAIN old /\ mem'[a][j] = old[From(j)] /\ a \in DOMAIN mem' /\ j \in DOMAIN mem'[a]
      BY <1>7, <1>8, <2>1
    <3>2. From(j) = j \/ From(j) \in Slots
      BY <1>2, <1>3, <3>1 DEF From
    <3>3. From(j) \in Slots => old[From(j)].id \in Cams
      <4>1. ASSUME NEW l \in Slots
            PROVE  old[l].id \in Cams
        BY <1>3, <4>1 DEF SnapshotIsConfig, Configured, Keyed
      <4> QED BY <4>1
    <3> QED BY <2>1, <3>1, <3>2, <3>3
  <2>2. CASE a # cfg.arr
    BY <1>8, <2>2
  <2> QED BY <2>1, <2>2
<1>22. \A j \in Keyed' : /\ conf'[j][1] \in DOMAIN mem' /\ conf'[j][2] \in DOMAIN mem'[conf'[j][1]]
                         /\ At(conf[j])'.id \in Cams
  <2> SUFFICES ASSUME NEW j \in Keyed'
               PROVE  /\ conf'[j][1] \in DOMAIN mem' /\ conf'[j][2] \in DOMAIN mem'[conf'[j][1]]
                      /\ mem'[conf'[j][1]][conf'[j][2]].id \in Cams
    BY DEF At
  <2>1. j \in Keyed /\ conf'[j] = conf[j]
    BY <1>17 DEF Keyed
  <2>2. /\ conf[j][1] \in DOMAIN mem /\ conf[j][2] \in DOMAIN mem[conf[j][1]]
        /\ mem[conf[j][1]][conf[j][2]].id \in Cams
    BY <2>1 DEF SliceOK, At
  <2> HIDE DEF SnapOK
  <2> QED BY <1>21, <2>1, <2>2
<1>23. cfg'.arr \in DOMAIN mem' /\ cfg'.len <= Len(mem'[cfg'.arr])
  <2>1. Len(mem'[cfg'.arr]) = Len(old) /\ cfg'.len = n - 1
    BY <1>7, <1>8, <1>9
  <2>2. n - 1 <= Len(old)
    BY <1>2, <1>3
  <2> QED BY <1>8, <1>9, <2>1, <2>2
<1>24. SliceOK'
  <2>1. ops' \in 0..setup'.calls
    BY DEF SliceOK
  <2> QED BY <2>1, <1>8, <1>9, <1>17, <1>19, <1>20, <1>22, <1>23 DEF SliceOK
<1> QED BY <1>18, <1>24

\* A camera is pointed to where it is in the slice.
LEMMA SlicePointed ==
    ASSUME setup \in Setups, setup' = setup, SnapOK, NEW i \in Cams, NEW k \in IndexOf(i),
           UNCHANGED slice, conf' = [conf EXCEPT ![i] = <<cfg.arr, k>>], ops' = ops
    PROVE  SnapOK'
<1> USE DEF SnapOK
<1>1. mem' = mem /\ cfg' = cfg
  BY DEF slice
<1>2. k \in Slots /\ Content(k).id = i /\ i \in Configured /\ k \in DOMAIN mem[cfg.arr]
      /\ Content(k) = mem[cfg.arr][k] /\ k \in Nat /\ cfg.arr \in Nat /\ cfg.arr \in DOMAIN mem
  BY Arrays, SMTT(40) DEF IndexOf, Configured, SliceOK
<1>3. /\ conf \in [Cams -> Seq(Nat)] /\ conf' \in [Cams -> Seq(Nat)]
      /\ conf'[i] = <<cfg.arr, k>> /\ \A j \in Cams \ {i} : conf'[j] = conf[j]
  BY <1>2 DEF SliceOK
<1>4. Keyed' = Keyed
  BY <1>2, <1>3 DEF Keyed, SnapshotIsConfig
<1>5. SnapshotIsConfig'
  BY <1>1, <1>4 DEF SnapshotIsConfig, Configured, Slots, Content
<1>6. \A j \in Keyed' : /\ conf'[j][1] \in DOMAIN mem' /\ conf'[j][2] \in DOMAIN mem'[conf'[j][1]]
                        /\ At(conf[j])'.id \in Cams
  <2> SUFFICES ASSUME NEW j \in Keyed
               PROVE  /\ conf'[j][1] \in DOMAIN mem /\ conf'[j][2] \in DOMAIN mem[conf'[j][1]]
                      /\ mem[conf'[j][1]][conf'[j][2]].id \in Cams
    BY <1>1, <1>4 DEF At
  <2>1. CASE j = i
    BY <1>2, <1>3, <2>1
  <2>2. CASE j # i
    <3>1. conf'[j] = conf[j]
      BY <1>3, <2>2 DEF Keyed
    <3> QED BY <3>1 DEF SliceOK, At
  <2> QED BY <2>1, <2>2
<1>7. SliceOK'
  BY <1>1, <1>3, <1>6 DEF SliceOK
<1> QED BY <1>5, <1>7

\* What an update makes of a camera.
LEMMA Changed ==
    ASSUME setup \in Setups, SliceOK, NEW i \in Cams, NEW k \in IndexOf(i), NEW f \in Forms
    PROVE  /\ Content(k) \in Cameras /\ Content(k).id = i /\ Content(k).gen \in Nat
           /\ [Content(k) EXCEPT !.gen = @ + 1, !.form = f] = [id |-> i, gen |-> Content(k).gen + 1, form |-> f]
           /\ [Content(k) EXCEPT !.form = f] = [id |-> i, gen |-> Content(k).gen, form |-> f]
<1>1. Content(k) \in Cameras /\ Content(k).id = i
  BY Arrays DEF IndexOf
<1>2. Content(k).gen \in Nat
  BY <1>1, SetupFacts DEF Cameras
<1> DEFINE x == Content(k)
<1>3. x \in [id : 0..NumCams, gen : 0..MaxOps, form : Forms] /\ x.id = i
  BY <1>1 DEF Cameras
<1> HIDE DEF x
<1>5. PICK g \in 0..MaxOps, e \in Forms : x = [id |-> i, gen |-> g, form |-> e]
  BY <1>3
<1>4. /\ [x EXCEPT !.gen = @ + 1, !.form = f] = [id |-> i, gen |-> x.gen + 1, form |-> f]
      /\ [x EXCEPT !.form = f] = [id |-> i, gen |-> x.gen, form |-> f]
  <2>1. x.id = i /\ x.gen = g /\ x.form = e /\ x = [id |-> x.id, gen |-> x.gen, form |-> x.form]
    BY <1>5
  <2>2. [x EXCEPT !.form = f] = [id |-> x.id, gen |-> x.gen, form |-> f]
    BY <2>1
  <2>3. [x EXCEPT !.gen = @ + 1, !.form = f] = [id |-> x.id, gen |-> x.gen + 1, form |-> f]
    <3> DEFINE y == [x EXCEPT !.gen = x.gen + 1]
    <3>1. y = [id |-> x.id, gen |-> x.gen + 1, form |-> x.form]
      BY <2>1
    <3> HIDE DEF y
    <3>2. [y EXCEPT !.form = f] = [id |-> x.id, gen |-> x.gen + 1, form |-> f]
      BY <3>1
    <3> QED BY <3>2, Zenon DEF y
  <2> QED BY <2>1, <2>2, <2>3
<1> QED BY <1>1, <1>2, <1>4 DEF x

\* A camera is changed in its place.
LEMMA SliceUpdated ==
    ASSUME setup \in Setups, setup' = setup, SnapOK, NEW i \in Cams, NEW k \in IndexOf(i),
           NEW g \in Nat, g <= Content(k).gen + 1, NEW f \in Forms,
           mem' = [mem EXCEPT ![cfg.arr][k] = [id |-> i, gen |-> g, form |-> f]], cfg' = cfg,
           conf' = conf, ops < setup.calls, ops' = ops + 1
    PROVE  SnapOK' /\ [id |-> i, gen |-> g, form |-> f] \in Cameras
<1> DEFINE new == [id |-> i, gen |-> g, form |-> f]
           old == mem[cfg.arr]
<1> USE DEF SnapOK
<1>1. /\ ops \in Nat /\ ops' \in Nat /\ ops <= ops' /\ ops' = ops + 1
      /\ ops' \in 0..setup.calls /\ ops + 1 <= MaxOps
  <2>1. ops \in 0..setup.calls /\ setup.calls \in 0..MaxOps /\ MaxOps \in Nat
    BY SetupFacts, SMTT(40) DEF SliceOK
  <2> QED BY <2>1
<1>2. /\ k \in Slots /\ k \in DOMAIN old /\ Content(k) = old[k] /\ Content(k).id = i
      /\ old \in Seq(Cameras) /\ cfg.arr \in DOMAIN mem
  BY Arrays DEF IndexOf
<1>3. new.id = i /\ new.gen <= ops' /\ new \in Cameras
  <2>1. old[k] \in Cameras /\ old[k].gen <= ops /\ g <= old[k].gen + 1
    BY <1>2 DEF SliceOK
  <2>2. old[k].gen \in Nat
    BY <2>1, SetupFacts DEF Cameras
  <2>3. \A h \in Nat : h <= ops /\ g <= h + 1 => g <= ops' /\ g \in 0..MaxOps
    <3>1. MaxOps \in Nat
      BY SetupFacts
    <3> QED BY <1>1, <3>1
  <2>4. g <= ops' /\ g \in 0..MaxOps
    BY <2>1, <2>2, <2>3
  <2> QED BY <2>4, SetupFacts DEF Cameras
<1> DEFINE up == [old EXCEPT ![k] = new]
<1>4. mem' = [mem EXCEPT ![cfg.arr] = up]
  OBVIOUS
<1> HIDE DEF new
<1>5. /\ up \in Seq(Cameras) /\ Len(up) = Len(old) /\ DOMAIN up = DOMAIN old
      /\ \A j \in DOMAIN old : up[j] = IF j = k THEN new ELSE old[j]
  BY <1>2, <1>3, Within
<1> HIDE DEF up
<1>6. /\ mem' \in Seq(Seq(Cameras)) /\ DOMAIN mem' = DOMAIN mem
      /\ mem'[cfg.arr] = up /\ \A a \in DOMAIN mem : a # cfg.arr => mem'[a] = mem[a]
  <2>1. mem \in Seq(Seq(Cameras))
    BY DEF SliceOK
  <2>2. cfg.arr \in DOMAIN mem /\ up \in Seq(Cameras)
    BY <1>2, <1>5
  <2>3. /\ [mem EXCEPT ![cfg.arr] = up] \in Seq(Seq(Cameras))
        /\ DOMAIN [mem EXCEPT ![cfg.arr] = up] = DOMAIN mem
        /\ \A a \in DOMAIN mem : [mem EXCEPT ![cfg.arr] = up][a] = IF a = cfg.arr THEN up ELSE mem[a]
    BY <2>1, <2>2, Within
  <2> HIDE DEF SnapOK
  <2> QED BY <1>4, <2>2, <2>3
<1>7. Slots' = Slots /\ Keyed' = Keyed /\ \A j \in Slots : Content(j)'.id = Content(j).id
  <2>1. Slots' = Slots /\ Keyed' = Keyed
    BY DEF Slots, Keyed
  <2>2. ASSUME NEW j \in Slots
        PROVE  Content(j)'.id = Content(j).id
    <3>1. j \in DOMAIN old /\ Content(j) = old[j] /\ Content(j)' = up[j]
      BY <1>6, Arrays DEF Content
    <3> QED BY <1>2, <1>3, <1>5, <3>1
  <2> QED BY <2>1, <2>2
<1>8. SnapshotIsConfig'
  BY <1>7 DEF SnapshotIsConfig, Configured
<1>9. \A a \in DOMAIN mem' : Len(mem'[a]) > 0
  BY <1>2, <1>5, <1>6 DEF SliceOK
<1>10. \A a \in DOMAIN mem' : \A j \in DOMAIN mem'[a] : mem'[a][j].gen <= ops'
  <2> SUFFICES ASSUME NEW a \in DOMAIN mem', NEW j \in DOMAIN mem'[a]
               PROVE  mem'[a][j].gen <= ops'
    OBVIOUS
  <2>1. ASSUME mem'[a][j].gen <= ops
        PROVE  mem'[a][j].gen <= ops'
    <3>1. mem'[a][j] \in Cameras
      BY <1>6
    <3>2. mem'[a][j].gen \in Nat
      BY <3>1, SetupFacts DEF Cameras
    <3> QED BY <1>1, <2>1, <3>2
  <2>2. CASE a = cfg.arr
    BY <1>2, <1>3, <1>5, <1>6, <2>1, <2>2 DEF SliceOK
  <2>3. CASE a # cfg.arr
    BY <1>6, <2>1, <2>3 DEF SliceOK
  <2> QED BY <2>2, <2>3
<1>11. \A a \in DOMAIN mem : \A j \in DOMAIN mem[a] :
         /\ a \in DOMAIN mem' /\ j \in DOMAIN mem'[a]
         /\ mem[a][j].id \in Cams => mem'[a][j].id \in Cams
  <2> SUFFICES ASSUME NEW a \in DOMAIN mem, NEW j \in DOMAIN mem[a]
               PROVE  /\ a \in DOMAIN mem' /\ j \in DOMAIN mem'[a]
                      /\ mem[a][j].id \in Cams => mem'[a][j].id \in Cams
    OBVIOUS
  <2>1. CASE a = cfg.arr
    BY <1>2, <1>3, <1>5, <1>6, <2>1
  <2>2. CASE a # cfg.arr
    BY <1>6, <2>2
  <2> QED BY <2>1, <2>2
<1>12. \A j \in Keyed' : /\ conf'[j][1] \in DOMAIN mem' /\ conf'[j][2] \in DOMAIN mem'[conf'[j][1]]
                         /\ At(conf[j])'.id \in Cams
  <2> SUFFICES ASSUME NEW j \in Keyed
               PROVE  /\ conf[j][1] \in DOMAIN mem' /\ conf[j][2] \in DOMAIN mem'[conf[j][1]]
                      /\ mem'[conf[j][1]][conf[j][2]].id \in Cams
    BY <1>7 DEF At
  <2>1. /\ conf[j][1] \in DOMAIN mem /\ conf[j][2] \in DOMAIN mem[conf[j][1]]
        /\ mem[conf[j][1]][conf[j][2]].id \in Cams
    BY DEF SliceOK, At
  <2> HIDE DEF SnapOK
  <2> QED BY <1>11, <2>1
<1>13. cfg'.arr \in DOMAIN mem' /\ cfg'.len <= Len(mem'[cfg'.arr])
  BY <1>2, <1>5, <1>6 DEF SliceOK
<1>14. SliceOK'
  BY <1>1, <1>6, <1>9, <1>10, <1>12, <1>13 DEF SliceOK
<1> QED BY <1>3, <1>8, <1>14 DEF new

LEMMA SnapStep ==
    ASSUME Base, Next
    PROVE  SnapOK'
<1> USE DEF Base, SnapOK
<1>1. setup' = setup /\ setup \in Setups /\ 1..setup.cams \subseteq Cams
  BY SetupFacts DEF Next
<1>2. PICK c \in Clients :
        \/ RemoveConfig(c) \/ RemoveNone(c) \/ RemoveUnsaved(c) \/ RemoveDrop(c) \/ UpdateRead(c)
        \/ TakeOut(c) \/ StopOld(c) \/ UpdateCheck(c) \/ LoadMutex(c) \/ Lock(c) \/ Guard(c) \/ Halt(c)
        \/ Build(c) \/ BuildNone(c) \/ Register(c) \/ Delay(c) \/ StartRecorder(c) \/ StartFails(c) \/ BootRegister(c) \/ BootStart(c)
        \/ \E i \in 1..setup.cams :
              \/ Adds(c, i) \/ AddPending(c, i) \/ AddUnsaved(c, i) \/ RemoveRead(c, i)
              \/ Updates(c, i) \/ Alters(c, i) \/ UpdateUnsaved(c, i)
              \/ ProtocolOff(c, i) \/ CallStop(c, i) \/ BootBuild(c, i) \/ Publish(c, i)
              \/ \E op \in {"start", "restart"} : Call(c, op, i)
  BY DEF Next, Move, Guard, Adds, Updates, Alters
<1>3. CASE RemoveConfig(c)
  <2>1. task[c].id \in Cams /\ ops' = ops
    BY <1>3 DEF RemoveConfig, counts, SnapshotIsConfig, Keyed
  <2>2. PICK k \in IndexOf(task[c].id) : Cut(k)
    BY <1>3 DEF RemoveConfig
  <2> QED BY <1>1, <1>3, <2>1, <2>2, SliceCut DEF RemoveConfig
<1>4. CASE RemoveUnsaved(c)
  <2>1. task[c].id \in Cams /\ ops' = ops /\ UNCHANGED slice
    BY <1>4 DEF RemoveUnsaved, SnapshotIsConfig, Keyed
  <2>2. IndexOf(task[c].id) # {}
    BY <1>4 DEF RemoveUnsaved, Configured, IndexOf
  <2>3. PICK k \in IndexOf(task[c].id) : conf' = [conf EXCEPT ![task[c].id] = <<cfg.arr, k>>]
    BY <1>4, <2>2 DEF RemoveUnsaved
  <2> QED BY <1>1, <2>1, <2>3, SlicePointed
<1>5. ASSUME NEW i \in 1..setup.cams, NEW f \in Forms, Append1(Camera(i, f)), i \notin Configured,
             ops < setup.calls, ops' = ops + 1, conf' = [conf EXCEPT ![i] = <<cfg'.arr, cfg'.len>>]
      PROVE  SnapOK'
  <2>1. i \in Cams
    BY <1>1
  <2>2. Extended(Camera(i, f)) /\ cfg' = [arr |-> Home, len |-> cfg.len + 1]
    <3>1. cfg = [arr |-> cfg.arr, len |-> cfg.len]
      BY DEF SliceOK
    <3> QED BY <1>5, <3>1 DEF Append1, Extended, Home
  <2>3. conf' = [conf EXCEPT ![i] = <<Home, cfg.len + 1>>]
    BY <1>5, <2>2
  <2> QED BY <1>1, <1>5, <2>1, <2>2, <2>3, SliceAdded
<1>6. ASSUME NEW i \in 1..setup.cams, AddUnsaved(c, i)
      PROVE  SnapOK'
  <2> DEFINE x == Camera(i, "plain")
  <2>1. i \in Cams /\ ops < setup.calls /\ ops' = ops + 1 /\ conf' = conf /\ "plain" \in Forms
    BY <1>1, <1>6 DEF AddUnsaved, Begin, snap, Forms
  <2>2. Extended(x) /\ cfg' = [arr |-> Home, len |-> cfg.len]
    <3>1. cfg = [arr |-> cfg.arr, len |-> cfg.len]
      BY DEF SliceOK
    <3> QED BY <1>6, <3>1 DEF AddUnsaved, Extended, Home
  <2> QED BY <1>1, <2>1, <2>2, SliceLeft
<1>7. ASSUME NEW i \in 1..setup.cams, Updates(c, i) \/ Alters(c, i)
      PROVE  SnapOK'
  <2>1. i \in Cams /\ ops < setup.calls /\ ops' = ops + 1 /\ cfg' = cfg /\ conf' = conf
    BY <1>1, <1>7 DEF Updates, Alters, UpdateConfig, UpdateForm, Begin, snap
  <2>2. PICK f \in Forms, k \in IndexOf(i) :
          \/ mem' = [mem EXCEPT ![cfg.arr][k] = [Content(k) EXCEPT !.gen = @ + 1, !.form = f]]
          \/ mem' = [mem EXCEPT ![cfg.arr][k] = [Content(k) EXCEPT !.form = f]]
    BY <1>7 DEF Updates, Alters, UpdateConfig, UpdateForm
  <2>3. PICK g \in Nat : g <= Content(k).gen + 1 /\ mem' = [mem EXCEPT ![cfg.arr][k] = [id |-> i, gen |-> g, form |-> f]]
    <3>1. /\ Content(k).gen \in Nat
          /\ [Content(k) EXCEPT !.gen = @ + 1, !.form = f] = [id |-> i, gen |-> Content(k).gen + 1, form |-> f]
          /\ [Content(k) EXCEPT !.form = f] = [id |-> i, gen |-> Content(k).gen, form |-> f]
      <4>1. setup \in Setups /\ SliceOK /\ i \in Cams
        BY <1>1, <2>1 DEF SnapOK
      <4> QED BY <4>1, Changed, Zenon
    <3>2. /\ Content(k).gen + 1 \in Nat /\ Content(k).gen + 1 <= Content(k).gen + 1
          /\ Content(k).gen <= Content(k).gen + 1
      BY <3>1
    <3>3. \/ mem' = [mem EXCEPT ![cfg.arr][k] = [id |-> i, gen |-> Content(k).gen + 1, form |-> f]]
          \/ mem' = [mem EXCEPT ![cfg.arr][k] = [id |-> i, gen |-> Content(k).gen, form |-> f]]
      BY <2>2, <3>1
    <3> QED BY <3>1, <3>2, <3>3
  <2> QED BY <1>1, <2>1, <2>3, SliceUpdated
<1>8. CASE \/ RemoveNone(c) \/ RemoveDrop(c) \/ UpdateRead(c) \/ TakeOut(c) \/ StopOld(c)
           \/ UpdateCheck(c) \/ LoadMutex(c) \/ Lock(c) \/ Guard(c) \/ Halt(c)
           \/ Build(c) \/ BuildNone(c) \/ Register(c) \/ Delay(c) \/ StartRecorder(c) \/ StartFails(c)
           \/ BootRegister(c) \/ BootStart(c)
  <2>1. UNCHANGED <<slice, conf>> /\ ops' = ops
    BY <1>8 DEF RemoveNone, RemoveDrop, UpdateRead, TakeOut, StopOld, UpdateCheck, LoadMutex, Lock, Guard, Pass,
                Answer, Replace, Halt, Build, BuildNone, Register, Delay, StartRecorder, StartFails, BootRegister,
                BootStart, snap, counts
  <2> QED BY <1>1, <2>1, SliceFrame
<1>9. ASSUME NEW i \in 1..setup.cams,
             \/ RemoveRead(c, i) \/ ProtocolOff(c, i) \/ CallStop(c, i) \/ BootBuild(c, i) \/ Publish(c, i)
             \/ UpdateUnsaved(c, i) \/ \E op \in {"start", "restart"} : Call(c, op, i)
      PROVE  SnapOK'
  <2>1. UNCHANGED <<slice, conf>> /\ ops < setup.calls /\ ops' = ops + 1
    BY <1>9 DEF RemoveRead, ProtocolOff, CallStop, BootBuild, Publish, UpdateUnsaved, Call, Begin, snap
  <2> QED BY <1>1, <2>1, SliceFrame
<1>10. ASSUME NEW i \in 1..setup.cams, Adds(c, i) \/ AddPending(c, i)
       PROVE  SnapOK'
  <2>1. "plain" \in Forms
    BY DEF Forms
  <2>2. PICK f \in Forms : Append1(Camera(i, f))
    BY <1>10, <2>1 DEF Adds, AddConfig, AddPending
  <2>3. /\ i \notin Configured /\ ops < setup.calls /\ ops' = ops + 1
        /\ conf' = [conf EXCEPT ![i] = <<cfg'.arr, cfg'.len>>]
    BY <1>10 DEF Adds, AddConfig, AddPending, Begin
  <2> QED BY <1>5, <2>2, <2>3
<1> QED BY <1>2, <1>3, <1>4, <1>6, <1>7, <1>8, <1>9, <1>10

-----------------------------------------------------------------------------
(* What the clients have in hand *)

LEMMA InHand ==
    ASSUME Base, NEW c \in Clients
    PROVE  /\ task[c] \in TaskType(Len(made)) /\ Shape(task[c])
           /\ Len(made) \in Nat /\ made \in Seq(Cameras) /\ DOMAIN made = 1..Len(made)
           /\ task[c].rec \in 0..Len(made) /\ task[c].hub \in 0..Len(made)
           /\ task[c].cam \in Cameras /\ task[c].cam.id \in 0..NumCams
           /\ task[c].pc # "idle" => task[c].id \in Cams
BY DEF Base, TaskOK, TaskType, RecOK, Shape, Cameras

LEMMA TaskSet ==
    ASSUME TaskOK, setup' = setup, NEW c \in Clients, NEW t \in TaskType(Len(made')), Shape(t),
           task' = [task EXCEPT ![c] = t], UNCHANGED locks,
           Len(made) \in Nat, Len(made') \in Nat, Len(made) <= Len(made')
    PROVE  TaskOK'
<1>1. task \in [Clients -> TaskType(Len(made'))]
  <2>1. 0..Len(made) \subseteq 0..Len(made')
    OBVIOUS
  <2>2. TaskType(Len(made)) \subseteq TaskType(Len(made'))
    BY <2>1 DEF TaskType
  <2> QED BY <2>2 DEF TaskOK
<1>2. Clients' = Clients
  BY DEF Clients
<1>3. task' \in [Clients -> TaskType(Len(made'))]
  BY <1>1
<1>4. \A d \in Clients : Shape(task'[d])
  BY <1>1 DEF TaskOK
<1>5. entry' = entry /\ mutexes' = mutexes
  BY DEF locks
<1> QED BY <1>2, <1>3, <1>4, <1>5 DEF TaskOK

LEMMA NewTask ==
    /\ Idle \in TaskType(Len(made)) \/ Len(made) \notin Nat
    /\ Shape(Idle)
<1>1. NumCams \in Nat /\ MaxOps \in Nat
  BY CameraAssumption
<1> QED BY <1>1 DEF Idle, TaskType, Shape, Pcs, OpNames, Cameras, Camera, Forms, Empty, None, Inside, Starts, Guards

LEMMA TaskStep ==
    ASSUME Base, Next
    PROVE  TaskOK'
<1>1. setup' = setup /\ setup \in Setups /\ 1..setup.cams \subseteq Cams /\ 0..NumCams = {0} \cup Cams
  BY SetupFacts DEF Next, Base
<1>2. PICK c \in Clients :
        \/ RemoveConfig(c) \/ RemoveNone(c) \/ RemoveUnsaved(c) \/ RemoveDrop(c) \/ UpdateRead(c)
        \/ TakeOut(c) \/ StopOld(c) \/ UpdateCheck(c) \/ LoadMutex(c) \/ Lock(c) \/ Guard(c) \/ Halt(c)
        \/ Build(c) \/ BuildNone(c) \/ Register(c) \/ Delay(c) \/ StartRecorder(c) \/ StartFails(c) \/ BootRegister(c) \/ BootStart(c)
        \/ \E i \in 1..setup.cams :
              \/ Adds(c, i) \/ AddPending(c, i) \/ AddUnsaved(c, i) \/ RemoveRead(c, i)
              \/ Updates(c, i) \/ Alters(c, i) \/ UpdateUnsaved(c, i)
              \/ ProtocolOff(c, i) \/ CallStop(c, i) \/ BootBuild(c, i) \/ Publish(c, i)
              \/ \E op \in {"start", "restart"} : Call(c, op, i)
  BY DEF Next, Move, Guard, Adds, Updates, Alters
<1>3. /\ TaskOK /\ task[c] \in TaskType(Len(made)) /\ Shape(task[c])
      /\ Len(made) \in Nat /\ made \in Seq(Cameras)
  BY InHand DEF Base
<1>4. Idle \in TaskType(Len(made)) /\ Shape(Idle)
  BY <1>3, NewTask
<1> DEFINE Kept == made' = made /\ UNCHANGED locks
           Fits(t) == task' = [task EXCEPT ![c] = t] /\ t \in TaskType(Len(made')) /\ Shape(t)
<1>5. ASSUME Kept, NEW t, Fits(t)
      PROVE  TaskOK'
  <2>1. /\ Len(made') = Len(made) /\ UNCHANGED locks
        /\ task' = [task EXCEPT ![c] = t] /\ t \in TaskType(Len(made')) /\ Shape(t)
    BY <1>5
  <2>2. Len(made') \in Nat /\ Len(made) <= Len(made')
    BY <1>3, <2>1
  <2> QED BY <1>1, <1>3, <2>1, <2>2, TaskSet
<1>6. ASSUME NEW p \in Pcs, Shape([task[c] EXCEPT !.pc = p]), Goto(c, p), Kept
      PROVE  TaskOK'
  <2>1. Fits([task[c] EXCEPT !.pc = p])
    BY <1>3, <1>6 DEF Goto, TaskType
  <2> QED BY <1>5, <1>6, <2>1
<1>7. ASSUME Done(c), Kept
      PROVE  TaskOK'
  BY <1>4, <1>5, <1>7 DEF Done
<1> HIDE DEF Kept, Fits
<1>8. ASSUME Kept, task' = task
      PROVE  TaskOK'
  <2>1. task' = [task EXCEPT ![c] = task[c]]
    BY <1>3, <1>8 DEF TaskOK
  <2>2. made' = made
    BY <1>8 DEF Kept
  <2> QED BY <1>3, <1>5, <1>8, <2>1, <2>2 DEF Fits
<1>9. CASE RemoveConfig(c)
  <2>1. Goto(c, "drop") /\ Kept /\ task[c].pc = "remove"
    BY <1>9 DEF RemoveConfig, Kept
  <2>2. Shape([task[c] EXCEPT !.pc = "drop"])
    BY <1>3, <2>1 DEF Shape, TaskType, Inside, Guards
  <2> QED BY <1>6, <2>1, <2>2 DEF Pcs
<1>10. CASE RemoveNone(c) \/ RemoveUnsaved(c)
  BY <1>7, <1>10 DEF RemoveNone, RemoveUnsaved, Kept
<1>11. CASE RemoveDrop(c)
  <2>1. /\ task' = [task EXCEPT ![c].pc = "oldstop"] /\ task[c].pc = "drop"
        /\ entry' = [entry EXCEPT ![task[c].id] = None] /\ mutexes' = mutexes /\ made' = made
    BY <1>11 DEF RemoveDrop, Goto
  <2> DEFINE t == [task[c] EXCEPT !.pc = "oldstop"]
  <2>2. t \in TaskType(Len(made)) /\ Shape(t)
    BY <1>3, <1>11, <2>1 DEF RemoveDrop, Shape, TaskType, Inside, Guards, Pcs
  <2> HIDE DEF t
  <2>3. task' = [task EXCEPT ![c] = t]
    BY <2>1 DEF t
  <2>4. /\ Clients' = Clients /\ task' \in [Clients -> TaskType(Len(made'))]
        /\ \A d \in Clients : Shape(task'[d])
    BY <1>1, <1>3, <2>1, <2>2, <2>3 DEF TaskOK, Clients
  <2>5. /\ entry' \in [Cams -> Nat] /\ mutexes' \in [Cams -> Nat]
        /\ \A i \in Cams : entry'[i] <= mutexes'[i]
    <3>1. entry \in [Cams -> Nat] /\ mutexes \in [Cams -> Nat] /\ \A i \in Cams : entry[i] <= mutexes[i]
      BY <1>3 DEF TaskOK
    <3>2. /\ DOMAIN entry' = Cams /\ mutexes' = mutexes
          /\ \A i \in Cams : entry'[i] = IF i = task[c].id THEN 0 ELSE entry[i]
      BY <2>1, <3>1 DEF None
    <3>3. entry' \in [Cams -> Nat]
      <4>1. entry' = [i \in Cams |-> entry'[i]]
        BY <2>1, <3>1
      <4>2. \A i \in Cams : entry'[i] \in Nat
        BY <3>1, <3>2
      <4> QED BY <4>1, <4>2
    <3>4. \A i \in Cams : entry'[i] <= mutexes'[i]
      <4> SUFFICES ASSUME NEW i \in Cams
                   PROVE  entry'[i] <= mutexes[i]
        BY <3>2
      <4>1. mutexes[i] \in Nat /\ entry[i] <= mutexes[i]
        BY <3>1
      <4>2. entry'[i] = 0 \/ entry'[i] = entry[i]
        BY <3>2
      <4> QED BY <4>1, <4>2
    <3> QED BY <3>1, <3>2, <3>3, <3>4
  <2> QED BY <2>4, <2>5 DEF TaskOK
<1>12. CASE UpdateRead(c)
  <2> DEFINE p == IF rec[task[c].id] = None THEN "check" ELSE "take"
             t == [task[c] EXCEPT !.rec = rec[task[c].id], !.pc = p]
  <2>1. task' = [task EXCEPT ![c] = t] /\ Kept /\ task[c].pc = "read"
    BY <1>12 DEF UpdateRead, Kept
  <2>2. task[c].id \in Cams /\ rec[task[c].id] \in 0..Len(made)
    BY <2>1, InHand DEF Base, RecOK
  <2>3. p \in {"check", "take"}
    OBVIOUS
  <2> HIDE DEF p
  <2>4. t \in TaskType(Len(made)) /\ Shape(t)
    BY <1>3, <2>1, <2>2, <2>3 DEF Shape, TaskType, Inside, Guards, Pcs
  <2>5. made' = made
    BY <2>1 DEF Kept
  <2> QED BY <1>5, <2>1, <2>4, <2>5 DEF Fits
<1>13. CASE TakeOut(c)
  <2>1. Goto(c, "oldstop") /\ Kept /\ task[c].pc = "take"
    BY <1>13 DEF TakeOut, Kept
  <2>2. Shape([task[c] EXCEPT !.pc = "oldstop"])
    BY <1>3, <2>1 DEF Shape, TaskType, Inside, Guards
  <2> QED BY <1>6, <2>1, <2>2 DEF Pcs
<1>14. CASE StopOld(c)
  <2>1. Kept /\ task[c].pc = "oldstop"
    BY <1>14 DEF StopOld, Kept
  <2>2. CASE Done(c)
    BY <1>7, <2>1, <2>2
  <2>3. CASE task[c].op = "update" /\ Goto(c, "check")
    <3>1. Shape([task[c] EXCEPT !.pc = "check"])
      BY <1>3, <2>1, <2>3 DEF Shape, TaskType, Inside, Guards
    <3> QED BY <1>6, <2>1, <2>3, <3>1 DEF Pcs
  <2> QED BY <1>14, <2>2, <2>3 DEF StopOld
<1>15. CASE UpdateCheck(c)
  <2>1. Kept /\ task[c].pc = "check"
    BY <1>15 DEF UpdateCheck, Kept
  <2>2. CASE Done(c)
    BY <1>7, <2>1, <2>2
  <2>3. CASE Goto(c, "load")
    <3>1. Shape([task[c] EXCEPT !.pc = "load"])
      BY <1>3, <2>1 DEF Shape, TaskType, Inside, Guards, Starts
    <3> QED BY <1>6, <2>1, <2>3, <3>1 DEF Pcs
  <2> QED BY <1>15, <2>2, <2>3 DEF UpdateCheck
<1>16. CASE LoadMutex(c)
  <2> DEFINE i == Guarded(c)
             t == [task[c] EXCEPT !.pc = "lock", !.mu = entry'[i]]
  <2>1. task' = [task EXCEPT ![c] = t] /\ task[c].pc = "load" /\ made' = made
    BY <1>16 DEF LoadMutex
  <2>2. i \in Cams
    BY <1>3, <2>1 DEF Shape, Guarded, Guards, Starts
  <2>3. /\ entry' \in [Cams -> Nat] /\ mutexes' \in [Cams -> Nat]
        /\ \A j \in Cams : entry'[j] <= mutexes'[j]
    <3>1. CASE entry[i] = None
      <4>1. mutexes' = [mutexes EXCEPT ![i] = @ + 1] /\ entry' = [entry EXCEPT ![i] = mutexes[i] + 1]
        BY <1>16, <3>1 DEF LoadMutex
      <4> HIDE DEF i
      <4> QED BY <1>3, <2>2, <4>1 DEF TaskOK
    <3>2. CASE entry[i] # None
      <4>1. mutexes' = mutexes /\ entry' = entry
        BY <1>16, <3>2 DEF LoadMutex, locks
      <4> QED BY <1>3, <4>1 DEF TaskOK
    <3> QED BY <3>1, <3>2
  <2>4. entry'[i] \in Nat
    BY <2>2, <2>3
  <2> HIDE DEF i
  <2>5. t \in TaskType(Len(made)) /\ Shape(t)
    BY <1>3, <2>1, <2>4 DEF Shape, TaskType, Inside, Guards, Pcs
  <2> HIDE DEF t
  <2>6. /\ Clients' = Clients /\ task' \in [Clients -> TaskType(Len(made'))]
        /\ \A d \in Clients : Shape(task'[d])
    BY <1>1, <1>3, <2>1, <2>5 DEF TaskOK, Clients
  <2> QED BY <2>3, <2>6 DEF TaskOK
<1>17. CASE Lock(c)
  <2>1. Goto(c, "locked") /\ Kept /\ task[c].pc = "lock"
    BY <1>17 DEF Lock, Kept
  <2>2. Shape([task[c] EXCEPT !.pc = "locked"])
    BY <1>3, <2>1 DEF Shape, TaskType, Inside, Guards
  <2> QED BY <1>6, <2>1, <2>2 DEF Pcs
<1>18. CASE Guard(c)
  <2>1. Kept /\ task[c].pc = "locked" /\ task[c].id \in Cams /\ task[c].op \in Starts \cup {"stop"}
    BY <1>3, <1>18 DEF Guard, Pass, Answer, Replace, Kept, Shape, Inside, Guards
  <2>2. CASE Pass(c)
    <3>1. Goto(c, "build") /\ task[c].op \in {"add", "update"}
      BY <2>2 DEF Pass
    <3>2. Shape([task[c] EXCEPT !.pc = "build"])
      BY <1>3, <2>1, <3>1 DEF Shape, TaskType, Inside, Guards, Starts
    <3> QED BY <1>6, <2>1, <3>1, <3>2 DEF Pcs
  <2>3. CASE Answer(c)
    BY <1>7, <2>1, <2>3 DEF Answer
  <2>4. CASE Replace(c)
    <3> DEFINE t == [task[c] EXCEPT !.pc = "halt", !.rec = rec[task[c].id]]
    <3>1. task' = [task EXCEPT ![c] = t] /\ task[c].op \in Calls
      BY <2>4 DEF Replace, Calls
    <3>2. rec[task[c].id] \in 0..Len(made)
      BY <2>1 DEF Base, RecOK
    <3>3. t \in TaskType(Len(made)) /\ Shape(t)
      BY <1>3, <2>1, <3>1, <3>2 DEF Shape, TaskType, Inside, Guards, Pcs, Calls
    <3>4. made' = made
      BY <2>1 DEF Kept
    <3> HIDE DEF t
    <3> QED BY <1>5, <2>1, <3>1, <3>3, <3>4 DEF Fits
  <2> QED BY <1>18, <2>2, <2>3, <2>4 DEF Guard
<1>19. CASE Halt(c)
  <2>1. Kept /\ task[c].pc = "halt"
    BY <1>19 DEF Halt, Kept
  <2>2. CASE Done(c)
    BY <1>7, <2>1, <2>2
  <2>3. CASE task[c].op # "stop" /\ Goto(c, "build")
    <3>1. Shape([task[c] EXCEPT !.pc = "build"])
      BY <1>3, <2>1, <2>3 DEF Shape, TaskType, Inside, Guards, Starts, Calls
    <3> QED BY <1>6, <2>1, <2>3, <3>1 DEF Pcs
  <2> QED BY <1>19, <2>2, <2>3 DEF Halt
<1>20. CASE Build(c)
  <2> DEFINE n == Len(made) + 1
             t == [task[c] EXCEPT !.pc = "register", !.rec = n]
  <2>1. /\ task' = [task EXCEPT ![c] = t] /\ made' = Append(made, task[c].cam) /\ task[c].pc = "build"
        /\ UNCHANGED locks
    BY <1>20 DEF Build
  <2>2. Len(made') = n /\ n \in Nat /\ n # 0 /\ n \in 0..n /\ 0..Len(made) \subseteq 0..n
    BY <1>3, <2>1
  <2> HIDE DEF n
  <2>3. t \in TaskType(n) /\ Shape(t)
    BY <1>3, <2>1, <2>2 DEF Shape, TaskType, Inside, Guards, Pcs, None
  <2>4. Len(made) <= n
    BY <1>3 DEF n
  <2> QED BY <1>1, <1>3, <2>1, <2>2, <2>3, <2>4, TaskSet
<1>21. CASE BuildNone(c) \/ Delay(c) \/ StartRecorder(c) \/ StartFails(c) \/ BootStart(c)
  BY <1>7, <1>21 DEF BuildNone, Delay, StartRecorder, StartFails, BootStart, Kept
<1>30. CASE Register(c)
  <2>1. Goto(c, "starting") /\ Kept /\ task[c].pc = "register"
    BY <1>30 DEF Register, Kept
  <2>2. Shape([task[c] EXCEPT !.pc = "starting"])
    BY <1>3, <2>1 DEF Shape, TaskType, Inside, Guards
  <2> QED BY <1>6, <2>1, <2>2 DEF Pcs
<1>31. CASE BootRegister(c)
  <2>1. Goto(c, "boot") /\ Kept /\ task[c].pc = "bootreg"
    BY <1>31 DEF BootRegister, Kept
  <2>2. Shape([task[c] EXCEPT !.pc = "boot"])
    BY <1>3, <2>1 DEF Shape, TaskType, Inside, Guards
  <2> QED BY <1>6, <2>1, <2>2 DEF Pcs
<1>22. ASSUME NEW i \in 1..setup.cams, Adds(c, i)
       PROVE  TaskOK'
  <2>0. PICK f \in Forms : AddConfig(c, i, f)
    BY <1>22 DEF Adds
  <2> DEFINE x == Camera(i, f)
             t == [Idle EXCEPT !.pc = "load", !.op = "add", !.id = i, !.cam = x]
  <2>1. task' = [task EXCEPT ![c] = t] /\ Kept /\ made' = made
    BY <2>0 DEF AddConfig, Kept
  <2>2. i \in Cams /\ i \in 0..NumCams /\ x \in Cameras /\ x.id = i
    BY <1>1, CameraFacts
  <2> HIDE DEF x
  <2>3. t \in TaskType(Len(made)) /\ Shape(t)
    BY <1>4, <2>2 DEF Idle, Shape, TaskType, Inside, Guards, Pcs, Starts, OpNames
  <2> HIDE DEF t
  <2> QED BY <1>5, <2>1, <2>3 DEF Fits
<1>32. ASSUME NEW i \in 1..setup.cams,
              AddPending(c, i) \/ AddUnsaved(c, i) \/ Alters(c, i) \/ UpdateUnsaved(c, i)
       PROVE  TaskOK'
  BY <1>8, <1>32 DEF AddPending, AddUnsaved, Alters, UpdateForm, UpdateUnsaved, Kept
<1>23. ASSUME NEW i \in 1..setup.cams, Publish(c, i)
       PROVE  TaskOK'
  <2> DEFINE x == Camera(i, "plain")
  <2>1. task' = task /\ UNCHANGED locks /\ (made' = made \/ made' = Append(made, x))
    BY <1>23 DEF Publish
  <2>2. Len(made') \in Nat /\ Len(made) <= Len(made')
    <3>1. x \in Cameras
      BY <1>1, CameraFacts
    <3> HIDE DEF x
    <3> QED BY <1>3, <2>1, <3>1
  <2>3. task' = [task EXCEPT ![c] = task[c]]
    BY <1>3, <2>1 DEF TaskOK
  <2>4. 0..Len(made) \subseteq 0..Len(made')
    BY <1>3, <2>2
  <2>5. task[c] \in TaskType(Len(made'))
    BY <1>3, <2>4 DEF TaskType
  <2> QED BY <1>1, <1>3, <2>1, <2>2, <2>3, <2>5, TaskSet
<1>24. ASSUME NEW i \in 1..setup.cams, RemoveRead(c, i)
       PROVE  TaskOK'
  <2> DEFINE t == [Idle EXCEPT !.pc = "remove", !.op = "remove", !.id = i, !.rec = rec[i], !.hub = hub[i]]
  <2>1. task' = [task EXCEPT ![c] = t] /\ Kept /\ made' = made
    BY <1>24 DEF RemoveRead, Kept
  <2>2. i \in Cams /\ i \in 0..NumCams /\ rec[i] \in 0..Len(made) /\ hub[i] \in 0..Len(made)
    BY <1>1 DEF Base, RecOK
  <2>3. t \in TaskType(Len(made)) /\ Shape(t)
    BY <1>4, <2>2 DEF Idle, Shape, TaskType, Inside, Guards, Pcs, Starts, OpNames
  <2> HIDE DEF t
  <2> QED BY <1>5, <2>1, <2>3 DEF Fits
<1>25. ASSUME NEW i \in 1..setup.cams, Updates(c, i)
       PROVE  TaskOK'
  <2>1. /\ i \in Cams /\ i \in 0..NumCams /\ ops < setup.calls /\ ops' = ops + 1
        /\ cfg' = cfg /\ conf' = conf /\ Kept /\ made' = made
    BY <1>1, <1>25 DEF Updates, UpdateConfig, Begin, snap, Kept
  <2>2. PICK f \in Forms, k \in IndexOf(i) :
          /\ mem' = [mem EXCEPT ![cfg.arr][k] = [Content(k) EXCEPT !.gen = @ + 1, !.form = f]]
          /\ task' = [task EXCEPT ![c] = [Idle EXCEPT !.pc = "read", !.op = "update", !.id = i,
                                           !.cam = [Content(k) EXCEPT !.gen = @ + 1, !.form = f]]]
    BY <1>25 DEF Updates, UpdateConfig
  <2> DEFINE g == Content(k).gen + 1
             new == [id |-> i, gen |-> g, form |-> f]
             t == [Idle EXCEPT !.pc = "read", !.op = "update", !.id = i, !.cam = new]
  <2>3. [Content(k) EXCEPT !.gen = @ + 1, !.form = f] = new /\ g \in Nat /\ g <= Content(k).gen + 1
    <3>1. setup \in Setups /\ SliceOK
      BY <1>1 DEF Base, SnapOK
    <3>2. [Content(k) EXCEPT !.gen = @ + 1, !.form = f] = new /\ Content(k).gen \in Nat
      BY <2>1, <3>1, Changed
    <3> QED BY <3>2
  <2>4. mem' = [mem EXCEPT ![cfg.arr][k] = new] /\ task' = [task EXCEPT ![c] = t]
    BY <2>2, <2>3
  <2> HIDE DEF g
  <2>5. new \in Cameras /\ new.id = i
    BY <1>1, <2>1, <2>3, <2>4, SliceUpdated DEF Base, SnapOK
  <2> HIDE DEF new
  <2>6. t \in TaskType(Len(made)) /\ Shape(t)
    BY <1>4, <2>1, <2>5 DEF Idle, Shape, TaskType, Inside, Guards, Pcs, Starts, OpNames
  <2> HIDE DEF t
  <2> QED BY <1>5, <2>1, <2>4, <2>6 DEF Fits
<1>26. ASSUME NEW i \in 1..setup.cams, ProtocolOff(c, i)
       PROVE  TaskOK'
  <2> DEFINE t == [Idle EXCEPT !.pc = "take", !.op = "protocol", !.id = i, !.rec = rec[i]]
  <2>1. task' = [task EXCEPT ![c] = t] /\ Kept /\ made' = made
    BY <1>26 DEF ProtocolOff, Kept
  <2>2. i \in Cams /\ i \in 0..NumCams /\ rec[i] \in 0..Len(made)
    BY <1>1 DEF Base, RecOK
  <2>3. t \in TaskType(Len(made)) /\ Shape(t)
    BY <1>4, <2>2 DEF Idle, Shape, TaskType, Inside, Guards, Pcs, Starts, OpNames
  <2> HIDE DEF t
  <2> QED BY <1>5, <2>1, <2>3 DEF Fits
<1>27. ASSUME NEW i \in 1..setup.cams, CallStop(c, i)
       PROVE  TaskOK'
  <2> DEFINE t == [Idle EXCEPT !.pc = "load", !.op = "stop", !.id = i]
  <2>1. task' = [task EXCEPT ![c] = t] /\ Kept /\ made' = made
    BY <1>27 DEF CallStop, Kept
  <2>2. i \in Cams /\ i \in 0..NumCams
    BY <1>1
  <2>3. t \in TaskType(Len(made)) /\ Shape(t)
    BY <1>4, <2>2 DEF Idle, Shape, TaskType, Inside, Guards, Pcs, Starts, OpNames
  <2> HIDE DEF t
  <2> QED BY <1>5, <2>1, <2>3 DEF Fits
<1>28. ASSUME NEW i \in 1..setup.cams, NEW op \in {"start", "restart"}, Call(c, op, i)
       PROVE  TaskOK'
  <2> DEFINE t == [Idle EXCEPT !.pc = "load", !.op = op, !.id = i, !.cam = At(conf[i])]
  <2>1. task' = [task EXCEPT ![c] = t] /\ Kept /\ made' = made /\ i \in Keyed
    BY <1>28 DEF Call, Kept
  <2>2. i \in Cams /\ i \in 0..NumCams /\ At(conf[i]) \in Cameras /\ At(conf[i]).id \in Cams
    BY <1>1, <2>1, SMTT(40) DEF Base, SliceOK, At
  <2>3. t \in TaskType(Len(made)) /\ Shape(t)
    BY <1>4, <2>2 DEF Idle, Shape, TaskType, Inside, Guards, Pcs, Starts, OpNames
  <2> HIDE DEF t
  <2> QED BY <1>5, <2>1, <2>3 DEF Fits
<1>29. ASSUME NEW i \in 1..setup.cams, BootBuild(c, i)
       PROVE  TaskOK'
  <2> DEFINE n == Len(made) + 1
             x == First(i)
             t == [Idle EXCEPT !.pc = "bootreg", !.op = "boot", !.id = i, !.rec = n]
  <2>1. task' = [task EXCEPT ![c] = t] /\ made' = Append(made, x) /\ UNCHANGED locks
    BY <1>29 DEF BootBuild
  <2>2. i \in Cams /\ i \in 0..NumCams /\ x \in Cameras
    BY <1>1, CameraFacts
  <2> HIDE DEF x
  <2>3. Len(made') = n /\ n \in Nat /\ n # 0 /\ n \in 0..n /\ 0..Len(made) \subseteq 0..n /\ Len(made) <= n
    BY <1>3, <2>1, <2>2
  <2> HIDE DEF n
  <2>4. t \in TaskType(n) /\ Shape(t)
    BY <1>4, <2>2, <2>3 DEF Idle, Shape, TaskType, Inside, Guards, Pcs, Starts, OpNames, None
  <2> HIDE DEF t
  <2> QED BY <1>1, <1>3, <2>1, <2>3, <2>4, TaskSet
<1> QED BY <1>2, <1>9, <1>10, <1>11, <1>12, <1>13, <1>14, <1>15, <1>16, <1>17, <1>18, <1>19, <1>20,
           <1>21, <1>22, <1>23, <1>24, <1>25, <1>26, <1>27, <1>28, <1>29, <1>30, <1>31, <1>32

-----------------------------------------------------------------------------
(* What is registered *)

\* The next recorder or hub made.
LEMMA OneMore ==
    ASSUME made \in Seq(Cameras), NEW x \in Cameras, made' = Append(made, x)
    PROVE  /\ Len(made) \in Nat /\ made' \in Seq(Cameras) /\ Len(made') = Len(made) + 1
           /\ 0..Len(made) \subseteq 0..Len(made') /\ DOMAIN made \subseteq DOMAIN made'
           /\ DOMAIN made' = 1..Len(made') /\ DOMAIN made = 1..Len(made)
           /\ Len(made) + 1 \in 0..Len(made')
           /\ made'[Len(made) + 1] = x /\ \A n \in DOMAIN made : made'[n] = made[n]
OBVIOUS

\* Nothing is unmade.
LEMMA MadeStep ==
    ASSUME Base, Next
    PROVE  /\ made' \in Seq(Cameras) /\ DOMAIN made \subseteq DOMAIN made' /\ Len(made') \in Nat
           /\ 0..Len(made) \subseteq 0..Len(made') /\ DOMAIN made' = 1..Len(made')
           /\ \A n \in DOMAIN made : made'[n] = made[n]
           /\ made' = made \/ \E x \in Cameras : made' = Append(made, x)
<1>1. 1..setup.cams \subseteq Cams /\ made \in Seq(Cameras)
  BY SetupFacts DEF Base, RecOK
<1>2. \A i \in 1..setup.cams : Camera(i, "plain") \in Cameras /\ First(i) \in Cameras
  BY <1>1, CameraFacts
<1>3. PICK c \in Clients :
        \/ RemoveConfig(c) \/ RemoveNone(c) \/ RemoveUnsaved(c) \/ RemoveDrop(c) \/ UpdateRead(c)
        \/ TakeOut(c) \/ StopOld(c) \/ UpdateCheck(c) \/ LoadMutex(c) \/ Lock(c) \/ Guard(c) \/ Halt(c)
        \/ Build(c) \/ BuildNone(c) \/ Register(c) \/ Delay(c) \/ StartRecorder(c) \/ StartFails(c) \/ BootRegister(c) \/ BootStart(c)
        \/ \E i \in 1..setup.cams :
              \/ Adds(c, i) \/ AddPending(c, i) \/ AddUnsaved(c, i) \/ RemoveRead(c, i)
              \/ Updates(c, i) \/ Alters(c, i) \/ UpdateUnsaved(c, i)
              \/ ProtocolOff(c, i) \/ CallStop(c, i) \/ BootBuild(c, i) \/ Publish(c, i)
              \/ \E op \in {"start", "restart"} : Call(c, op, i)
  BY DEF Next, Move, Guard, Adds, Updates, Alters
<1>4. made' = made \/ \E x \in Cameras : made' = Append(made, x)
  <2>1. CASE \/ RemoveConfig(c) \/ RemoveNone(c) \/ RemoveUnsaved(c) \/ RemoveDrop(c) \/ UpdateRead(c)
             \/ TakeOut(c) \/ StopOld(c) \/ UpdateCheck(c) \/ LoadMutex(c) \/ Lock(c) \/ Guard(c) \/ Halt(c)
             \/ BuildNone(c) \/ Register(c) \/ Delay(c) \/ StartRecorder(c) \/ StartFails(c)
             \/ BootRegister(c) \/ BootStart(c)
    BY <2>1 DEF RemoveConfig, RemoveNone, RemoveUnsaved, RemoveDrop, UpdateRead, TakeOut, StopOld, UpdateCheck,
                LoadMutex, Lock, Guard, Pass, Answer, Replace, Halt, BuildNone, Register, Delay, StartRecorder,
                StartFails, BootRegister, BootStart
  <2>2. CASE Build(c)
    BY <2>2, InHand DEF Build
  <2>3. ASSUME NEW i \in 1..setup.cams,
              \/ Adds(c, i) \/ AddPending(c, i) \/ AddUnsaved(c, i) \/ RemoveRead(c, i)
              \/ Updates(c, i) \/ Alters(c, i) \/ UpdateUnsaved(c, i)
              \/ ProtocolOff(c, i) \/ CallStop(c, i) \/ BootBuild(c, i) \/ Publish(c, i)
              \/ \E op \in {"start", "restart"} : Call(c, op, i)
        PROVE  made' = made \/ made' = Append(made, Camera(i, "plain")) \/ made' = Append(made, First(i))
    BY <2>3 DEF Adds, AddConfig, AddPending, AddUnsaved, RemoveRead, Updates, UpdateConfig, Alters, UpdateForm,
                UpdateUnsaved, ProtocolOff, CallStop, BootBuild, Publish, Call
  <2> QED BY <1>2, <1>3, <2>1, <2>2, <2>3
<1>5. CASE made' = made
  BY <1>1, <1>5
<1>6. ASSUME NEW x \in Cameras, made' = Append(made, x)
      PROVE  /\ made' \in Seq(Cameras) /\ DOMAIN made \subseteq DOMAIN made' /\ Len(made') \in Nat
             /\ 0..Len(made) \subseteq 0..Len(made') /\ DOMAIN made' = 1..Len(made')
             /\ \A n \in DOMAIN made : made'[n] = made[n]
  BY <1>1, <1>6
<1> QED BY <1>4, <1>5, <1>6

\* The registers of a camera are set one place at a time, to what was made.
LEMMA Registers ==
    ASSUME Base, Next
    PROVE  rec' \in [Cams -> 0..Len(made')] /\ hub' \in [Cams -> 0..Len(made')] /\ pushing' \in [Cams -> 0..Len(made')]
<1>1. setup \in Setups /\ 1..setup.cams \subseteq Cams
  BY SetupFacts DEF Base
<1>2. PICK c \in Clients :
        \/ RemoveConfig(c) \/ RemoveNone(c) \/ RemoveUnsaved(c) \/ RemoveDrop(c) \/ UpdateRead(c)
        \/ TakeOut(c) \/ StopOld(c) \/ UpdateCheck(c) \/ LoadMutex(c) \/ Lock(c) \/ Guard(c) \/ Halt(c)
        \/ Build(c) \/ BuildNone(c) \/ Register(c) \/ Delay(c) \/ StartRecorder(c) \/ StartFails(c) \/ BootRegister(c) \/ BootStart(c)
        \/ \E i \in 1..setup.cams :
              \/ Adds(c, i) \/ AddPending(c, i) \/ AddUnsaved(c, i) \/ RemoveRead(c, i)
              \/ Updates(c, i) \/ Alters(c, i) \/ UpdateUnsaved(c, i)
              \/ ProtocolOff(c, i) \/ CallStop(c, i) \/ BootBuild(c, i) \/ Publish(c, i)
              \/ \E op \in {"start", "restart"} : Call(c, op, i)
  BY DEF Next, Move, Guard, Adds, Updates, Alters
<1> DEFINE N == 0..Len(made')
           Put(f, g) == g = f \/ \E i \in Cams, x \in N : g = [f EXCEPT ![i] = x]
<1>3. /\ Shape(task[c]) /\ task[c].rec \in N /\ task[c].hub \in N /\ None \in N
      /\ task[c].pc # "idle" => task[c].id \in Cams
      /\ rec \in [Cams -> N] /\ hub \in [Cams -> N] /\ pushing \in [Cams -> N]
  BY InHand, MadeStep DEF Base, RecOK, None
<1>4. \A x : made' = Append(made, x) => Len(made) + 1 \in N
  <2> SUFFICES ASSUME NEW x, made' = Append(made, x)
               PROVE  Len(made) + 1 \in N
    OBVIOUS
  <2>1. made \in Seq(Cameras)
    BY InHand
  <2>2. Len(made') = Len(made) + 1 /\ Len(made) \in Nat
    BY <2>1
  <2> QED BY <2>2
<1>5. \A f \in [Cams -> N] : \A g : Put(f, g) => g \in [Cams -> N]
  OBVIOUS
<1> HIDE DEF N
<1>6. Put(rec, rec') /\ Put(hub, hub') /\ Put(pushing, pushing')
  <2>1. CASE RemoveConfig(c) \/ RemoveUnsaved(c)
    BY <1>3, <2>1 DEF RemoveConfig, RemoveUnsaved
  <2>2. CASE \/ RemoveNone(c) \/ RemoveDrop(c) \/ UpdateRead(c)
             \/ StopOld(c) \/ UpdateCheck(c) \/ LoadMutex(c) \/ Lock(c) \/ Halt(c)
             \/ BuildNone(c) \/ Delay(c) \/ StartRecorder(c) \/ BootStart(c)
    BY <2>2 DEF RemoveNone, RemoveDrop, UpdateRead, StopOld, UpdateCheck,
                LoadMutex, Lock, Halt, BuildNone, Delay, StartRecorder, BootStart, snap
  <2>3. CASE TakeOut(c)
    BY <1>3, <2>3 DEF TakeOut
  <2>4. CASE Guard(c)
    <3>1. task[c].id \in Cams
      BY <1>3, <2>4 DEF Guard, Pass, Answer, Replace
    <3>2. /\ rec' = rec \/ rec' = [rec EXCEPT ![task[c].id] = None]
          /\ hub' = hub \/ hub' = [hub EXCEPT ![task[c].id] = None]
          /\ pushing' = pushing
      BY <2>4 DEF Guard, Pass, Answer, Replace, snap
    <3> QED BY <1>3, <3>1, <3>2
  <2>5. CASE StartFails(c)
    <3>1. task[c].cam.id \in Cams
      BY <1>3, <2>5 DEF StartFails, Shape
    <3> QED BY <1>3, <2>5, <3>1 DEF StartFails
  <2>6. CASE Build(c)
    <3>1. task[c].cam.id \in Cams
      BY <1>3, <2>6 DEF Build, Shape
    <3>2. Len(made) + 1 \in N /\ pushing' = pushing
      BY <1>4, <2>6 DEF Build
    <3> QED BY <2>6, <3>1, <3>2 DEF Build
  <2>7. ASSUME NEW i \in 1..setup.cams,
               \/ Adds(c, i) \/ AddPending(c, i) \/ AddUnsaved(c, i) \/ RemoveRead(c, i)
               \/ Updates(c, i) \/ Alters(c, i) \/ UpdateUnsaved(c, i)
               \/ ProtocolOff(c, i) \/ CallStop(c, i) \/ \E op \in {"start", "restart"} : Call(c, op, i)
        PROVE  Put(rec, rec') /\ Put(hub, hub') /\ Put(pushing, pushing')
    BY <2>7 DEF Adds, AddConfig, AddPending, AddUnsaved, RemoveRead, Updates, UpdateConfig, Alters, UpdateForm,
                UpdateUnsaved, ProtocolOff, CallStop, Call, snap
  <2>10. CASE Register(c)
    <3>1. task[c].cam.id \in Cams /\ task[c].rec \in N /\ hub' = hub /\ pushing' = pushing
      BY <1>3, <2>10 DEF Register, Shape
    <3> QED BY <2>10, <3>1 DEF Register
  <2>11. CASE BootRegister(c)
    <3>1. task[c].id \in Cams /\ task[c].rec \in N /\ hub' = hub /\ pushing' = pushing
      BY <1>3, <2>11 DEF BootRegister
    <3> QED BY <2>11, <3>1 DEF BootRegister
  <2>8. ASSUME NEW i \in 1..setup.cams, BootBuild(c, i)
        PROVE  Put(rec, rec') /\ Put(hub, hub') /\ Put(pushing, pushing')
    <3>1. Len(made) + 1 \in N /\ pushing' = pushing /\ i \in Cams
      BY <1>1, <1>4, <2>8 DEF BootBuild
    <3> QED BY <2>8, <3>1 DEF BootBuild
  <2>9. ASSUME NEW i \in 1..setup.cams, Publish(c, i)
        PROVE  Put(rec, rec') /\ Put(hub, hub') /\ Put(pushing, pushing')
    <3>1. i \in Cams /\ hub[i] \in N /\ rec' = rec
      BY <1>1, <1>3, <2>9 DEF Publish
    <3>2. CASE hub[i] # None
      BY <2>9, <3>1, <3>2 DEF Publish
    <3>3. CASE hub[i] = None
      <4>1. Len(made) + 1 \in N
        BY <1>4, <2>9, <3>3 DEF Publish
      <4> QED BY <2>9, <3>1, <3>3, <4>1 DEF Publish
    <3> QED BY <3>2, <3>3
  <2> HIDE DEF Put
  <2> QED BY <1>2, <2>1, <2>2, <2>3, <2>4, <2>5, <2>6, <2>7, <2>8, <2>9, <2>10, <2>11
<1>7. rec' \in [Cams -> N] /\ hub' \in [Cams -> N] /\ pushing' \in [Cams -> N]
  <2> HIDE DEF Put
  <2> QED BY <1>3, <1>5, <1>6
<1> QED BY <1>7 DEF N

LEMMA RecStep ==
    ASSUME Base, Next
    PROVE  RecOK'
<1>1. setup \in Setups /\ 1..setup.cams \subseteq Cams
  BY SetupFacts DEF Base
<1>2. PICK c \in Clients :
        \/ RemoveConfig(c) \/ RemoveNone(c) \/ RemoveUnsaved(c) \/ RemoveDrop(c) \/ UpdateRead(c)
        \/ TakeOut(c) \/ StopOld(c) \/ UpdateCheck(c) \/ LoadMutex(c) \/ Lock(c) \/ Guard(c) \/ Halt(c)
        \/ Build(c) \/ BuildNone(c) \/ Register(c) \/ Delay(c) \/ StartRecorder(c) \/ StartFails(c) \/ BootRegister(c) \/ BootStart(c)
        \/ \E i \in 1..setup.cams :
              \/ Adds(c, i) \/ AddPending(c, i) \/ AddUnsaved(c, i) \/ RemoveRead(c, i)
              \/ Updates(c, i) \/ Alters(c, i) \/ UpdateUnsaved(c, i)
              \/ ProtocolOff(c, i) \/ CallStop(c, i) \/ BootBuild(c, i) \/ Publish(c, i)
              \/ \E op \in {"start", "restart"} : Call(c, op, i)
  BY DEF Next, Move, Guard, Adds, Updates, Alters
<1>3. /\ Shape(task[c]) /\ DOMAIN made = 1..Len(made) /\ task[c].rec \in 0..Len(made) /\ RecOK
      /\ task[c].pc # "idle" => task[c].id \in Cams
  BY InHand DEF Base
<1> DEFINE Frame ==
      /\ running' \subseteq running \cup DOMAIN made
      /\ failed' \subseteq failed \cup Cams /\ booted' \subseteq booted \cup Cams /\ wanted' \subseteq wanted \cup Cams
      /\ fails' = fails \/ fails' = fails + 1
      /\ saves' = saves \/ saves' = saves + 1
<1>4. Frame
  <2>1. CASE \/ RemoveConfig(c) \/ RemoveNone(c) \/ RemoveUnsaved(c) \/ RemoveDrop(c) \/ UpdateRead(c)
             \/ TakeOut(c) \/ StopOld(c) \/ UpdateCheck(c) \/ LoadMutex(c) \/ Lock(c) \/ Halt(c) \/ Build(c)
             \/ BuildNone(c) \/ Register(c) \/ Delay(c) \/ BootRegister(c)
    BY <2>1 DEF RemoveConfig, RemoveNone, RemoveUnsaved, RemoveDrop, UpdateRead, TakeOut, StopOld, UpdateCheck,
                LoadMutex, Lock, Halt, Build, BuildNone, Register, Delay, BootRegister, counts, SaveFails, snap
  <2>2. CASE Guard(c)
    BY <2>2 DEF Guard, Pass, Answer, Replace, counts, snap
  <2>3. CASE StartRecorder(c) \/ BootStart(c)
    <3>1. task[c].rec \in DOMAIN made
      BY <1>3, <2>3 DEF StartRecorder, BootStart, Shape, None
    <3> QED BY <2>3, <3>1 DEF StartRecorder, BootStart, snap, counts
  <2>4. CASE StartFails(c)
    <3>1. task[c].cam.id \in Cams
      BY <1>3, <2>4 DEF StartFails, Shape
    <3> QED BY <2>4, <3>1 DEF StartFails
  <2>5. ASSUME NEW i \in 1..setup.cams,
               \/ Adds(c, i) \/ AddPending(c, i) \/ AddUnsaved(c, i) \/ RemoveRead(c, i)
               \/ Updates(c, i) \/ Alters(c, i) \/ UpdateUnsaved(c, i)
               \/ ProtocolOff(c, i) \/ CallStop(c, i) \/ BootBuild(c, i) \/ Publish(c, i)
               \/ \E op \in {"start", "restart"} : Call(c, op, i)
        PROVE  Frame
    <3>1. i \in Cams
      BY <1>1
    <3> QED BY <2>5, <3>1 DEF Adds, AddConfig, AddPending, AddUnsaved, RemoveRead, Updates, UpdateConfig, Alters,
                 UpdateForm, UpdateUnsaved, ProtocolOff, CallStop, BootBuild, Publish, Call, SaveFails, snap
  <2> HIDE DEF Frame
  <2> QED BY <1>2, <2>1, <2>2, <2>3, <2>4, <2>5
<1>5. fails' \in Nat /\ saves' \in Nat
  BY <1>3, <1>4 DEF RecOK
<1>6. made' \in Seq(Cameras) /\ DOMAIN made \subseteq DOMAIN made'
  BY MadeStep
<1>7. running' \subseteq DOMAIN made'
  BY <1>3, <1>4, <1>6 DEF RecOK
<1>8. failed' \subseteq Cams /\ booted' \subseteq Cams /\ wanted' \subseteq Cams
  BY <1>3, <1>4 DEF RecOK
<1> QED BY <1>5, <1>6, <1>7, <1>8, Registers DEF RecOK

\* Base holds at the start and is kept.
LEMMA BaseStep ==
    ASSUME Base, Next
    PROVE  Base'
<1>1. setup' \in Setups
  BY DEF Base, Next
<1> QED BY <1>1, SnapStep, TaskStep, RecStep DEF Base, SnapOK

-----------------------------------------------------------------------------
(* The start *)

\* The cameras up at the start are the first m, all that a recorder is made for or none.
LEMMA AtStart ==
    ASSUME Init
    PROVE  \E m \in 0..setup.built :
              /\ "boot" \notin Ops => m = setup.built
              /\ rec = [i \in Cams |-> IF i \in 1..m THEN i ELSE None] /\ hub = rec
              /\ made = [n \in 1..m |-> First(n)]
              /\ running = 1..m /\ booted = 1..m
<1> DEFINE m == NumUp
<1>1. setup \in Setups /\ setup.built \in Nat /\ Cams \subseteq Nat \ {0}
  BY SetupFacts DEF Init, Cams
<1>2. m \in 0..setup.built /\ m \in Nat
  BY <1>1 DEF NumUp
<1>3. \A i \in Cams : i <= m <=> i \in 1..m
  BY <1>1, <1>2
<1>4. /\ rec = [i \in Cams |-> IF i <= m THEN i ELSE None] /\ hub = rec
      /\ made = [n \in 1..m |-> First(n)]
      /\ running = 1..m /\ booted = 1..m
  BY DEF Init
<1>5. "boot" \notin Ops => m = setup.built
  BY DEF NumUp
<1> HIDE DEF m
<1>6. [i \in Cams |-> IF i <= m THEN i ELSE None] = [i \in Cams |-> IF i \in 1..m THEN i ELSE None]
  BY <1>3
<1> QED BY <1>2, <1>4, <1>5, <1>6

LEMMA BaseInit ==
    ASSUME Init
    PROVE  Base
<1>1. /\ setup \in Setups /\ NumBooted \in Nat /\ NumBooted > 0 /\ NumBooted \in Cams /\ Cams = 1..NumCams
      /\ NumCams \in Nat /\ MaxOps \in Nat /\ setup.calls \in Nat /\ 1..NumBooted \subseteq Cams
  BY SetupFacts DEF Init
<1>2. \A i \in Cams : First(i) \in Cameras /\ First(i).gen = 0 /\ First(i).id = i
  BY CameraFacts
<1> DEFINE first == [i \in 1..NumBooted |-> First(i)]
<1>3. first \in Seq(Cameras) /\ Len(first) = NumBooted /\ DOMAIN first = 1..NumBooted
  BY <1>1, <1>2
<1>4. /\ mem = <<first>> /\ cfg = [arr |-> 1, len |-> NumBooted]
      /\ conf = [i \in Cams |-> IF i <= NumBooted THEN <<1, i>> ELSE <<>>] /\ ops = 0
  BY DEF Init
<1>5. /\ mem \in Seq(Seq(Cameras)) /\ DOMAIN mem = {1} /\ mem[1] = first
  BY <1>3, <1>4
<1>6. \A k \in 1..NumBooted : first[k].gen = 0 /\ first[k].id = k
  BY <1>1, <1>2
<1> HIDE DEF first
<1>7. conf \in [Cams -> Seq(Nat)]
  <2>1. \A i \in Cams : i \in Nat
    BY <1>1
  <2>2. \A i \in Cams : <<1, i>> \in Seq(Nat)
    BY <2>1
  <2> QED BY <1>4, <2>2
<1>8. \A i \in Cams : i <= NumBooted <=> i \in 1..NumBooted
  BY <1>1
<1>9. Keyed = 1..NumBooted
  <2>1. \A i \in Cams : conf[i] # <<>> <=> i <= NumBooted
    BY <1>4
  <2> QED BY <1>1, <1>8, <2>1 DEF Keyed
<1>10. \A i \in Keyed : conf[i] = <<1, i>>
  BY <1>1, <1>4, <1>8, <1>9
<1>11. \A a \in DOMAIN mem : Len(mem[a]) > 0 /\ \A k \in DOMAIN mem[a] : mem[a][k].gen <= ops
  BY <1>1, <1>3, <1>4, <1>5, <1>6
<1>12. \A i \in Keyed : /\ conf[i][1] \in DOMAIN mem /\ conf[i][2] \in DOMAIN mem[conf[i][1]]
                        /\ At(conf[i]).id \in Cams
  <2> SUFFICES ASSUME NEW i \in Keyed
               PROVE  /\ conf[i][1] \in DOMAIN mem /\ conf[i][2] \in DOMAIN mem[conf[i][1]]
                      /\ At(conf[i]).id \in Cams
    OBVIOUS
  <2>1. conf[i][1] = 1 /\ conf[i][2] = i /\ i \in 1..NumBooted
    BY <1>9, <1>10
  <2> QED BY <1>1, <1>3, <1>5, <1>6, <2>1 DEF At
<1>13. SliceOK
  <2>1. cfg \in [arr : Nat, len : Nat] /\ cfg.arr \in DOMAIN mem /\ cfg.len <= Len(mem[cfg.arr]) /\ ops \in 0..setup.calls
    BY <1>1, <1>3, <1>4, <1>5
  <2> QED BY <1>5, <1>7, <1>11, <1>12, <2>1 DEF SliceOK
<1>14. Slots = 1..NumBooted /\ \A k \in Slots : Content(k).id = k
  BY <1>4, <1>5, <1>6 DEF Slots, Content
<1>15. SnapshotIsConfig
  BY <1>9, <1>14 DEF SnapshotIsConfig, Configured
<1>16. TaskOK
  <2>1. task = [c \in Clients |-> Idle] /\ entry = [i \in Cams |-> None] /\ mutexes = [i \in Cams |-> 0]
    BY DEF Init
  <2>2. Len(made) \in Nat
    BY <1>1, AtStart, SetupFacts
  <2> QED BY <2>1, <2>2, NewTask DEF TaskOK, None
<1>17. RecOK
  <2>1. PICK m \in 0..setup.built :
              /\ rec = [i \in Cams |-> IF i \in 1..m THEN i ELSE None] /\ hub = rec
              /\ made = [n \in 1..m |-> First(n)]
              /\ running = 1..m /\ booted = 1..m
    BY AtStart
  <2>2. m \in Nat /\ 1..m \subseteq Cams
    BY <1>1, SetupFacts
  <2>3. made \in Seq(Cameras) /\ Len(made) = m /\ DOMAIN made = 1..m
    BY <1>2, <2>1, <2>2
  <2>4. \A i \in Cams : (IF i \in 1..m THEN i ELSE None) \in 0..m
    BY <2>2 DEF None
  <2>5. rec \in [Cams -> 0..Len(made)] /\ hub \in [Cams -> 0..Len(made)]
    BY <2>1, <2>3, <2>4
  <2>6. failed = {} /\ wanted = 1..NumBooted /\ pushing = [i \in Cams |-> None] /\ fails = 0 /\ saves = 0
    BY DEF Init
  <2>7. pushing \in [Cams -> 0..Len(made)]
    BY <2>2, <2>3, <2>6 DEF None
  <2> QED BY <1>1, <2>1, <2>2, <2>3, <2>5, <2>6, <2>7 DEF RecOK
<1> QED BY <1>1, <1>13, <1>15, <1>16, <1>17 DEF Base

LEMMA GuardInit ==
    ASSUME Init
    PROVE  GuardInv
<1> SUFFICES ASSUME Guarding
             PROVE  SameCamera /\ OneMutex /\ OneInside /\ Reached /\ HandsOn /\ Serving
  BY DEF GuardInv
<1>1. \A c \in Clients : task[c].pc = "idle"
  BY DEF Init, Idle
<1>2. /\ NumBooted \in Nat /\ 1..NumBooted \subseteq Cams /\ Cams = 1..NumCams /\ NumCams \in Nat
      /\ setup.built \in Nat /\ 1..setup.built \subseteq 1..NumBooted
  BY SetupFacts DEF Init, Cams
<1>3. PICK m \in 0..setup.built :
          /\ "boot" \notin Ops => m = setup.built
          /\ rec = [i \in Cams |-> IF i \in 1..m THEN i ELSE None] /\ hub = rec
          /\ made = [n \in 1..m |-> First(n)]
          /\ running = 1..m /\ booted = 1..m
  BY AtStart
<1>4. m = setup.built /\ 1..m \subseteq Cams
  BY <1>2, <1>3 DEF Guarding
<1>0. \A i \in 1..NumBooted : First(i).id = i /\ (~(i <= setup.built) => First(i).form = "bare")
  BY <1>2, CameraFacts
<1>5. \A i \in Keyed : At(conf[i]) = First(i) /\ i \in 1..NumBooted
  <2> SUFFICES ASSUME NEW i \in Keyed
               PROVE  At(conf[i]) = First(i) /\ i \in 1..NumBooted
    OBVIOUS
  <2>1. conf[i] = <<1, i>> /\ i \in 1..NumBooted
    BY <1>2 DEF Init, Keyed
  <2>2. mem = <<[k \in 1..NumBooted |-> First(k)]>>
    BY DEF Init
  <2> QED BY <2>1, <2>2 DEF At
<1>6. OwnConfig
  BY <1>0, <1>5 DEF OwnConfig
<1>7. Reached
  <2>1. \A n \in 1..m : made[n] = First(n) /\ rec[n] = n /\ First(n).id = n
    BY <1>0, <1>2, <1>3, <1>4
  <2> QED BY <1>3, <2>1 DEF Reached, RecorderOf
<1>8. Serving
  <2> SUFFICES ASSUME NEW i \in wanted \cap Keyed
               PROVE  rec[i] # None \/ At(conf[i]).form = "bare"
    BY DEF Serving
  <2>1. i \in 1..NumBooted /\ i \in Cams
    BY <1>2, <1>5
  <2>2. CASE i <= setup.built
    <3>1. rec[i] = i /\ i # 0
      BY <1>2, <1>3, <1>4, <2>1, <2>2
    <3> QED BY <3>1 DEF None
  <2>3. CASE ~(i <= setup.built)
    BY <1>0, <1>5, <2>1, <2>3
  <2> QED BY <2>2, <2>3
<1> QED BY <1>1, <1>6, <1>7, <1>8 DEF SameCamera, OneMutex, OneInside, HandsOn, Inside

LEMMA AloneInit ==
    ASSUME Init
    PROVE  AloneInv
<1> SUFFICES ASSUME Alone
             PROVE  OneSlot /\ \A c \in Clients : AloneAt(task[c])
  BY DEF AloneInv
<1>1. /\ Cams = 1..NumCams /\ NumCams \in Nat /\ NumBooted = 1 /\ 1 \in Cams
      /\ setup.built \in {0, 1}
  BY SetupFacts, SMTT(40) DEF Init, Alone
<1>2. PICK m \in 0..setup.built :
          /\ "boot" \notin Ops => m = setup.built
          /\ rec = [i \in Cams |-> IF i \in 1..m THEN i ELSE None] /\ hub = rec
          /\ made = [n \in 1..m |-> First(n)]
          /\ running = 1..m /\ booted = 1..m
  BY AtStart
<1>3. m = setup.built
  BY <1>1, <1>2 DEF Alone
<1>4. /\ mem = <<[k \in 1..1 |-> First(k)]>> /\ cfg = [arr |-> 1, len |-> 1]
      /\ conf = [i \in Cams |-> IF i <= 1 THEN <<1, i>> ELSE <<>>] /\ failed = {}
      /\ task = [c \in Clients |-> Idle]
  BY <1>1 DEF Init
<1>5. First(1).id = 1 /\ First(1).gen = 0 /\ (~(1 <= setup.built) => First(1).form = "bare")
  BY <1>1, CameraFacts
<1>6. Current = First(1) /\ Len(mem[1]) = 1 /\ Present
  BY <1>4 DEF Current, Present
<1>7. Keyed \subseteq {1} /\ conf[1] = <<1, 1>>
  <2>1. \A i \in Cams : i <= 1 => i = 1
    BY <1>1
  <2>2. Keyed \subseteq {1}
    BY <1>4, <2>1 DEF Keyed
  <2> QED BY <1>1, <1>4, <2>2
<1>8. OneSlot /\ Runs(rec[1]) /\ Rests
  <2>1. CASE setup.built = 0
    <3>1. running = {} /\ DOMAIN made = {}
      BY <1>2, <1>3, <2>1
    <3>2. Current.form = "bare"
      BY <1>5, <1>6, <2>1
    <3> QED BY <1>4, <1>5, <1>6, <1>7, <3>1, <3>2 DEF OneSlot, Runs, Rests
  <2>2. CASE setup.built = 1
    <3>1. made = [n \in {1} |-> First(n)] /\ running = {1} /\ rec[1] = 1
      BY <1>1, <1>2, <1>3, <2>2
    <3>2. DOMAIN made = {1} /\ made[1] = First(1)
      BY <3>1
    <3> QED BY <1>4, <1>5, <1>6, <1>7, <3>1, <3>2 DEF OneSlot, Runs, Rests, RecorderOf, None
  <2> QED BY <1>1, <2>1, <2>2
<1>9. AloneAt(Idle)
  BY <1>8 DEF AloneAt, Idle
<1> QED BY <1>4, <1>8, <1>9

-----------------------------------------------------------------------------
(* Callers guarded by the cameras' mutexes *)

\* What such a caller's task does: it is begun, finds its mutex, locks it, goes on inside, ends.
GuardMove(c) ==
    /\ UNCHANGED <<mem, cfg, conf>>
    /\ \/ /\ \/ \E i \in 1..setup.cams, op \in {"start", "restart"} : Call(c, op, i)
             \/ \E i \in 1..setup.cams : CallStop(c, i)
          /\ task[c].pc = "idle" /\ task'[c].pc = "load" /\ task'[c].op \in Calls
          /\ (task'[c].op # "stop" => task'[c].cam = At(conf[task'[c].id]) /\ task'[c].cam.id = task'[c].id)
          /\ entry' = entry
       \/ /\ LoadMutex(c) \/ Lock(c) \/ Guard(c) \/ Halt(c) \/ Build(c) \/ Register(c)
          /\ task[c].pc # "idle" /\ task'[c].pc \in Guards
          /\ task'[c].op = task[c].op /\ task'[c].id = task[c].id /\ task'[c].cam = task[c].cam
          /\ \/ /\ task[c].pc = "load" /\ task'[c].pc = "lock"
                /\ task'[c].mu = entry'[task[c].id] /\ task'[c].mu # None
                /\ \A i \in Cams : entry'[i] = entry[i] \/ (i = task[c].id /\ entry[i] = None)
             \/ /\ Lock(c) /\ task[c].pc = "lock" /\ task'[c].pc = "locked"
                /\ task'[c].mu = task[c].mu /\ entry' = entry
             \/ /\ task[c].pc \in Inside /\ task'[c].pc \in Inside
                /\ task'[c].mu = task[c].mu /\ entry' = entry
       \/ /\ Guard(c) \/ Halt(c) \/ BuildNone(c) \/ Delay(c) \/ StartRecorder(c) \/ StartFails(c)
          /\ task[c].pc \in Inside /\ task'[c] = Idle /\ entry' = entry

LEMMA GuardMoves ==
    ASSUME Base, Next, Guarding, SameCamera
    PROVE  \E c \in Clients : GuardMove(c) /\ \A d \in Clients \ {c} : task'[d] = task[d]
<1>1. Ops \subseteq Calls /\ 1..setup.cams \subseteq Cams
  BY SetupFacts DEF Guarding, Calls, Base
<1>2. PICK c \in Clients :
        \/ RemoveConfig(c) \/ RemoveNone(c) \/ RemoveUnsaved(c) \/ RemoveDrop(c) \/ UpdateRead(c)
        \/ TakeOut(c) \/ StopOld(c) \/ UpdateCheck(c) \/ LoadMutex(c) \/ Lock(c) \/ Guard(c) \/ Halt(c)
        \/ Build(c) \/ BuildNone(c) \/ Register(c) \/ Delay(c) \/ StartRecorder(c) \/ StartFails(c) \/ BootRegister(c) \/ BootStart(c)
        \/ \E i \in 1..setup.cams :
              \/ Adds(c, i) \/ AddPending(c, i) \/ AddUnsaved(c, i) \/ RemoveRead(c, i)
              \/ Updates(c, i) \/ Alters(c, i) \/ UpdateUnsaved(c, i)
              \/ ProtocolOff(c, i) \/ CallStop(c, i) \/ BootBuild(c, i) \/ Publish(c, i)
              \/ \E op \in {"start", "restart"} : Call(c, op, i)
  BY DEF Next, Move, Guard, Adds, Updates, Alters
<1>3. /\ task[c] \in TaskType(Len(made)) /\ Shape(task[c])
      /\ task[c].pc # "idle" => task[c].id \in Cams
      /\ task[c].pc # "idle" => /\ task[c].pc \in Guards /\ task[c].op \in Calls
  BY InHand DEF SameCamera
<1>4. DOMAIN task = Clients /\ entry \in [Cams -> Nat] /\ mutexes \in [Cams -> Nat]
  BY DEF Base, TaskOK
<1>5. CASE LoadMutex(c)
  <2>1. task[c].pc = "load" /\ task[c].id \in Cams /\ Guarded(c) = task[c].id
    <3>1. task[c].pc = "load"
      BY <1>5 DEF LoadMutex
    <3>2. task[c].op \in {"start", "restart", "stop"} /\ task[c].id \in Cams
      BY <1>3, <3>1 DEF Calls
    <3> QED BY <3>1, <3>2 DEF Guarded
  <2>2. /\ task' = [task EXCEPT ![c].pc = "lock", ![c].mu = entry'[task[c].id]]
        /\ UNCHANGED <<mem, cfg, conf>>
    BY <1>5, <2>1 DEF LoadMutex, snap, slice
  <2>3. /\ entry'[task[c].id] # None
        /\ \A i \in Cams : entry'[i] = entry[i] \/ (i = task[c].id /\ entry[i] = None)
    <3>1. CASE entry[task[c].id] = None
      <4>1. entry' = [entry EXCEPT ![task[c].id] = mutexes[task[c].id] + 1]
        BY <1>5, <2>1, <3>1 DEF LoadMutex
      <4>2. mutexes[task[c].id] \in Nat
        BY <1>4, <2>1
      <4> QED BY <1>4, <2>1, <3>1, <4>1, <4>2 DEF None
    <3>2. CASE entry[task[c].id] # None
      <4>1. entry' = entry
        BY <1>5, <2>1, <3>2 DEF LoadMutex, locks
      <4> QED BY <3>2, <4>1
    <3> QED BY <3>1, <3>2
  <2>4. \A d \in Clients \ {c} : task'[d] = task[d]
    BY <1>4, <2>2
  <2>5. /\ task'[c].pc = "lock" /\ task'[c].mu = entry'[task[c].id]
        /\ task'[c].op = task[c].op /\ task'[c].id = task[c].id /\ task'[c].cam = task[c].cam
    BY <1>3, <1>4, <2>2 DEF TaskType
  <2>6. GuardMove(c)
    BY <1>5, <2>1, <2>2, <2>3, <2>5 DEF GuardMove, Guards
  <2> QED BY <2>4, <2>6
<1>6. CASE Lock(c)
  <2>1. /\ task' = [task EXCEPT ![c].pc = "locked"] /\ task[c].pc = "lock"
        /\ UNCHANGED <<mem, cfg, conf>> /\ entry' = entry
    BY <1>6 DEF Lock, Goto, snap, slice, locks
  <2>2. \A d \in Clients \ {c} : task'[d] = task[d]
    BY <1>4, <2>1
  <2>3. /\ task'[c].pc = "locked" /\ task'[c].mu = task[c].mu
        /\ task'[c].op = task[c].op /\ task'[c].id = task[c].id /\ task'[c].cam = task[c].cam
    BY <1>3, <1>4, <2>1 DEF TaskType
  <2>4. GuardMove(c)
    BY <1>6, <2>1, <2>3 DEF GuardMove, Guards, Inside
  <2> QED BY <2>2, <2>4
<1>7. CASE Guard(c) \/ Halt(c) \/ Build(c) \/ Register(c)
  <2>1. /\ task[c].pc \in Inside \ {"starting"} /\ UNCHANGED <<mem, cfg, conf>> /\ entry' = entry
        /\ \/ Done(c) /\ (Guard(c) \/ Halt(c))
           \/ \E p \in Inside : \E r : task' = [task EXCEPT ![c].pc = p, ![c].rec = r]
           \/ \E p \in Inside : task' = [task EXCEPT ![c].pc = p]
    <3>1. CASE Guard(c)
      BY <3>1 DEF Guard, Pass, Answer, Replace, Inside, snap, slice, locks, Goto
    <3>2. CASE Halt(c)
      BY <3>2 DEF Halt, Inside, snap, slice, locks, Goto
    <3>3. CASE Build(c)
      BY <3>3 DEF Build, Inside, snap, slice, locks
    <3>4. CASE Register(c)
      BY <3>4 DEF Register, Inside, snap, slice, locks, Goto
    <3> QED BY <1>7, <3>1, <3>2, <3>3, <3>4
  <2>2. \A d \in Clients \ {c} : task'[d] = task[d]
    BY <1>4, <2>1 DEF Done
  <2>3. CASE Done(c) /\ (Guard(c) \/ Halt(c))
    <3>1. task'[c] = Idle
      BY <1>4, <2>3 DEF Done
    <3>2. GuardMove(c)
      BY <1>7, <2>1, <2>3, <3>1 DEF GuardMove
    <3> QED BY <2>2, <3>2
  <2>4. CASE \/ \E p \in Inside : \E r : task' = [task EXCEPT ![c].pc = p, ![c].rec = r]
             \/ \E p \in Inside : task' = [task EXCEPT ![c].pc = p]
    <3>1. /\ task'[c].pc \in Inside /\ task'[c].mu = task[c].mu
          /\ task'[c].op = task[c].op /\ task'[c].id = task[c].id /\ task'[c].cam = task[c].cam
      <4>1. task[c] = [pc |-> task[c].pc, op |-> task[c].op, id |-> task[c].id, cam |-> task[c].cam,
                       rec |-> task[c].rec, hub |-> task[c].hub, mu |-> task[c].mu]
        BY <1>3 DEF TaskType
      <4>2. ASSUME NEW p \in Inside, NEW r, task' = [task EXCEPT ![c].pc = p, ![c].rec = r]
            PROVE  /\ task'[c].pc = p /\ task'[c].mu = task[c].mu
                   /\ task'[c].op = task[c].op /\ task'[c].id = task[c].id /\ task'[c].cam = task[c].cam
        BY <1>4, <4>1, <4>2
      <4>3. ASSUME NEW p \in Inside, task' = [task EXCEPT ![c].pc = p]
            PROVE  /\ task'[c].pc = p /\ task'[c].mu = task[c].mu
                   /\ task'[c].op = task[c].op /\ task'[c].id = task[c].id /\ task'[c].cam = task[c].cam
        BY <1>4, <4>1, <4>3
      <4> QED BY <2>4, <4>2, <4>3
    <3>2. task[c].pc # "idle" /\ task[c].pc \in Inside /\ task'[c].pc \in Guards
      BY <2>1, <3>1 DEF Inside, Guards
    <3>3. GuardMove(c)
      BY <1>7, <2>1, <3>1, <3>2 DEF GuardMove
    <3> QED BY <2>2, <3>3
  <2> QED BY <2>1, <2>3, <2>4
<1>8. CASE BuildNone(c) \/ Delay(c) \/ StartRecorder(c) \/ StartFails(c)
  <2>1. task[c].pc \in Inside /\ UNCHANGED <<mem, cfg, conf>> /\ entry' = entry /\ Done(c)
    BY <1>8 DEF BuildNone, Delay, StartRecorder, StartFails, Inside, snap, slice, locks
  <2>2. task'[c] = Idle /\ \A d \in Clients \ {c} : task'[d] = task[d]
    BY <1>4, <2>1 DEF Done
  <2> QED BY <1>8, <2>1, <2>2 DEF GuardMove
<1>9. ASSUME NEW i \in 1..setup.cams, NEW op \in {"start", "restart"}, Call(c, op, i)
      PROVE  GuardMove(c) /\ \A d \in Clients \ {c} : task'[d] = task[d]
  <2>1. /\ task' = [task EXCEPT ![c] = [Idle EXCEPT !.pc = "load", !.op = op, !.id = i, !.cam = At(conf[i])]]
        /\ task[c].pc = "idle" /\ i \in Keyed /\ UNCHANGED <<mem, cfg, conf>> /\ entry' = entry
    BY <1>9 DEF Call, Begin, snap, slice, locks
  <2>2. task'[c].pc = "load" /\ task'[c].op = op /\ task'[c].id = i /\ task'[c].cam = At(conf[i])
    BY <1>4, <2>1 DEF Idle
  <2>3. At(conf[i]).id = i
    BY <2>1 DEF SameCamera, OwnConfig
  <2> QED BY <1>4, <1>9, <2>1, <2>2, <2>3 DEF GuardMove, Calls
<1>10. ASSUME NEW i \in 1..setup.cams, CallStop(c, i)
       PROVE  GuardMove(c) /\ \A d \in Clients \ {c} : task'[d] = task[d]
  <2>1. /\ task' = [task EXCEPT ![c] = [Idle EXCEPT !.pc = "load", !.op = "stop", !.id = i]]
        /\ task[c].pc = "idle" /\ UNCHANGED <<mem, cfg, conf>> /\ entry' = entry
    BY <1>10 DEF CallStop, Begin, snap, slice, locks
  <2>2. task'[c].pc = "load" /\ task'[c].op = "stop"
    BY <1>4, <2>1 DEF Idle
  <2> QED BY <1>4, <1>10, <2>1, <2>2 DEF GuardMove, Calls
<1>11. CASE \/ RemoveConfig(c) \/ RemoveNone(c) \/ RemoveUnsaved(c) \/ RemoveDrop(c) \/ UpdateRead(c)
            \/ TakeOut(c) \/ StopOld(c) \/ UpdateCheck(c) \/ BootRegister(c) \/ BootStart(c)
  BY <1>3, <1>11 DEF RemoveConfig, RemoveNone, RemoveUnsaved, RemoveDrop, UpdateRead, TakeOut, StopOld, UpdateCheck,
                     BootRegister, BootStart, Guards, Inside
<1>12. ASSUME NEW i \in 1..setup.cams,
              \/ Adds(c, i) \/ AddPending(c, i) \/ AddUnsaved(c, i) \/ RemoveRead(c, i)
              \/ Updates(c, i) \/ Alters(c, i) \/ UpdateUnsaved(c, i)
              \/ ProtocolOff(c, i) \/ BootBuild(c, i) \/ Publish(c, i)
       PROVE  FALSE
  BY <1>1, <1>12 DEF Adds, AddConfig, AddPending, AddUnsaved, RemoveRead, Updates, UpdateConfig, Alters, UpdateForm,
                     UpdateUnsaved, ProtocolOff, BootBuild, Publish, Begin, Calls
<1> QED BY <1>2, <1>5, <1>6, <1>7, <1>8, <1>9, <1>10, <1>11, <1>12

\* The mutex of a camera is one, and one client is inside.
LEMMA GuardTasks ==
    ASSUME Base, Next, Guarding, SameCamera, OneMutex, OneInside
    PROVE  SameCamera' /\ OneMutex' /\ OneInside'
<1>1. PICK c \in Clients : GuardMove(c) /\ \A d \in Clients \ {c} : task'[d] = task[d]
  BY GuardMoves
<1>2. Clients' = Clients /\ mem' = mem /\ conf' = conf
  BY <1>1 DEF Next, Clients, GuardMove
<1>3. Idle.pc = "idle" /\ "idle" \notin Guards /\ "idle" \notin Inside /\ "lock" \notin Inside /\ "load" \notin Inside
      /\ "load" \in Guards /\ Inside \subseteq Guards
  BY DEF Idle, Guards, Inside
<1>4. \A d \in Clients : task[d].pc # "idle" => task[d].id \in Cams
  BY InHand
<1>5. SameCamera'
  <2>1. OwnConfig'
    BY <1>2 DEF SameCamera, OwnConfig, Keyed, At
  <2>2. \A d \in Clients : task'[d].pc # "idle" =>
            /\ task'[d].pc \in Guards /\ task'[d].op \in Calls
            /\ task'[d].op # "stop" => task'[d].cam = At(conf[task'[d].id]) /\ task'[d].cam.id = task'[d].id
    <3> SUFFICES ASSUME NEW d \in Clients, task'[d].pc # "idle"
                 PROVE  /\ task'[d].pc \in Guards /\ task'[d].op \in Calls
                        /\ task'[d].op # "stop" => task'[d].cam = At(conf[task'[d].id]) /\ task'[d].cam.id = task'[d].id
      OBVIOUS
    <3>1. CASE d # c
      BY <1>1, <3>1 DEF SameCamera
    <3>2. CASE d = c
      BY <1>1, <1>3, <3>2 DEF SameCamera, GuardMove
    <3> QED BY <3>1, <3>2
  <2> QED BY <1>2, <2>1, <2>2 DEF SameCamera, At
<1>6. OneMutex'
  <2> SUFFICES ASSUME NEW d \in Clients, task'[d].pc \in {"lock"} \cup Inside
               PROVE  task'[d].mu = entry'[task'[d].id] /\ task'[d].mu # None
    BY <1>2 DEF OneMutex
  <2>1. CASE d = c
    BY <1>1, <1>3, <2>1 DEF OneMutex, GuardMove
  <2>2. CASE d # c
    <3>1. task'[d] = task[d] /\ task[d].mu = entry[task[d].id] /\ task[d].mu # None /\ task[d].id \in Cams
      BY <1>1, <1>3, <1>4, <2>2 DEF OneMutex
    <3>2. \A i \in Cams : entry[i] # None => entry'[i] = entry[i]
      BY <1>1 DEF GuardMove
    <3> QED BY <3>1, <3>2
  <2> QED BY <2>1, <2>2
<1>7. OneInside'
  <2>1. ASSUME NEW d \in Clients, d # c, task[d].pc \in Inside, task'[c].pc \in Inside, task[d].id = task'[c].id
        PROVE  FALSE
    <3>1. CASE task[c].pc \in Inside
      <4>1. task'[c].id = task[c].id
        BY <1>1, <1>3, <2>1, <3>1 DEF GuardMove
      <4> QED BY <2>1, <3>1, <4>1 DEF OneInside
    <3>2. CASE task[c].pc \notin Inside
      <4>1. Lock(c) /\ task[c].pc = "lock" /\ task'[c].id = task[c].id
        BY <1>1, <1>3, <2>1, <3>2 DEF GuardMove
      <4>2. task[c].mu = entry[task[c].id] /\ task[d].mu = entry[task[d].id]
        BY <2>1, <4>1 DEF OneMutex
      <4>3. task[c].op \in Calls /\ task[d].op \in Calls
        BY <1>3, <2>1, <4>1 DEF SameCamera
      <4>4. Guarded(c) = task[c].id /\ Guarded(d) = task[d].id
        BY <4>3 DEF Guarded, Calls
      <4> QED BY <2>1, <4>1, <4>2, <4>4 DEF Lock, Holds
    <3> QED BY <3>1, <3>2
  <2>2. ASSUME NEW d \in Clients, NEW e \in Clients, d # e, d # c,
               task'[d].pc \in Inside, task'[e].pc \in Inside, task'[d].id = task'[e].id
        PROVE  FALSE
    <3>1. CASE e = c
      BY <1>1, <2>1, <2>2, <3>1
    <3>2. CASE e # c
      BY <1>1, <2>2, <3>2 DEF OneInside
    <3> QED BY <3>1, <3>2
  <2> QED BY <1>2, <2>2 DEF OneInside
<1> QED BY <1>5, <1>6, <1>7

\* What runs is registered or about to be halted, and what a client took out or put in is its own.
LEMMA GuardRecs ==
    ASSUME Base, Next, Guarding, SameCamera, OneInside, Reached, HandsOn
    PROVE  Reached' /\ HandsOn'
<1>1. PICK c \in Clients : GuardMove(c) /\ \A d \in Clients \ {c} : task'[d] = task[d]
  BY GuardMoves
<1> DEFINE i == task[c].id
<1>2. /\ Clients' = Clients /\ task \in [Clients -> TaskType(Len(made))]
      /\ \A d \in Clients : task[d].pc # "idle" => task[d].id \in Cams
      /\ \A d \in Clients : task[d].rec \in 0..Len(made)
      /\ made \in Seq(Cameras) /\ Len(made) \in Nat /\ DOMAIN made = 1..Len(made) /\ running \subseteq DOMAIN made
      /\ DOMAIN rec = Cams
  BY InHand DEF Next, Clients, Base, TaskOK, RecOK
<1>3. /\ Idle.pc = "idle" /\ "idle" \notin Inside /\ "load" \notin Inside /\ "lock" \notin Inside
      /\ {"locked", "halt", "build", "register", "starting"} = Inside
  BY DEF Idle, Inside
\* another client inside is at another camera
<1>4. task[c].pc \in Inside => \A d \in Clients \ {c} : task[d].pc \in Inside => task[d].id # i
  BY DEF OneInside
<1>5. \A n \in DOMAIN made : made'[n] = made[n]
  BY MadeStep
<1>6. task[c].pc # "idle" => task[c].op \in Calls /\ (task[c].op # "stop" => task[c].cam.id = i)
  BY DEF SameCamera
\* the clients that do not move
<1>7. ASSUME \A d \in Clients \ {c} : task[d].pc \in Inside => rec'[task[d].id] = rec[task[d].id],
             \A d \in Clients \ {c} : task[d].pc \in {"register", "starting"} => task[d].rec \notin running',
             /\ task'[c].pc \in {"halt", "build", "register"} => rec'[task'[c].id] = None
             /\ task'[c].pc = "starting" => rec'[task'[c].id] = task'[c].rec
             /\ task'[c].pc \in {"register", "starting"} =>
                   /\ task'[c].rec # None /\ made'[task'[c].rec].id = task'[c].id
                   /\ task'[c].rec \notin running'
      PROVE  HandsOn'
  <2> SUFFICES ASSUME NEW d \in Clients
               PROVE  /\ task'[d].pc \in {"halt", "build", "register"} => rec'[task'[d].id] = None
                      /\ task'[d].pc = "starting" => rec'[task'[d].id] = task'[d].rec
                      /\ task'[d].pc \in {"register", "starting"} =>
                            /\ task'[d].rec # None /\ made'[task'[d].rec].id = task'[d].id
                            /\ task'[d].rec \notin running'
    BY <1>2 DEF HandsOn, RecorderOf
  <2>1. CASE d = c
    BY <1>7, <2>1
  <2>2. CASE d # c
    <3>1. task'[d] = task[d]
      BY <1>1, <2>2
    <3>2. task[d].pc \in {"register", "starting"} => task[d].rec \in DOMAIN made
      BY <1>2 DEF HandsOn, None
    <3>3. task[d].pc \in {"halt", "build", "register", "starting"} => task[d].pc \in Inside
      BY <1>3
    <3> QED BY <1>5, <1>7, <2>2, <3>1, <3>2, <3>3 DEF HandsOn, RecorderOf
  <2> QED BY <2>1, <2>2
<1>8. ASSUME \A n \in running' : made'[n] = made[n] /\ (n \in running \/ rec'[made[n].id] = n),
             \A n \in running \cap running' :
                \/ rec'[made[n].id] = n
                \/ task'[c].pc = "halt" /\ task'[c].id = made[n].id /\ task'[c].rec = n
                \/ \E d \in Clients \ {c} : task[d].pc = "halt" /\ task[d].id = made[n].id /\ task[d].rec = n
      PROVE  Reached'
  <2> SUFFICES ASSUME NEW n \in running'
               PROVE  rec'[made'[n].id] = n
                      \/ \E d \in Clients : task'[d].pc = "halt" /\ task'[d].id = made'[n].id /\ task'[d].rec = n
    BY <1>2 DEF Reached, Halting, RecorderOf
  <2>1. made'[n] = made[n]
    BY <1>8
  <2>2. CASE n \notin running
    BY <1>8, <2>1, <2>2
  <2>3. CASE n \in running
    BY <1>1, <1>8, <2>1, <2>3
  <2> QED BY <2>2, <2>3
<1>9. \A n \in running : rec[made[n].id] = n
         \/ \E d \in Clients : task[d].pc = "halt" /\ task[d].id = made[n].id /\ task[d].rec = n
  BY DEF Reached, Halting, RecorderOf
\* nothing is registered or run
<1>10. CASE task'[c].pc \in {"load", "lock", "locked", "idle"} /\ task[c].pc # "halt" /\ rec' = rec /\ running' = running
  <2>1. HandsOn'
    BY <1>7, <1>10 DEF HandsOn
  <2>2. Reached'
    <3>1. \A n \in running' : made'[n] = made[n] /\ n \in running
      BY <1>2, <1>5, <1>10
    <3>2. \A n \in running \cap running' :
                \/ rec'[made[n].id] = n
                \/ \E d \in Clients \ {c} : task[d].pc = "halt" /\ task[d].id = made[n].id /\ task[d].rec = n
      BY <1>9, <1>10
    <3> QED BY <1>8, <3>1, <3>2
  <2> QED BY <2>1, <2>2
<1>11. CASE LoadMutex(c) \/ Lock(c)
  <2>1. /\ task'[c].pc \in {"load", "lock", "locked", "idle"} /\ task[c].pc # "halt" /\ rec' = rec /\ running' = running
    <3>1. rec' = rec /\ running' = running /\ task[c].pc \in {"load", "lock"}
      BY <1>11 DEF LoadMutex, Lock, snap
    <3>2. CASE LoadMutex(c)
      <4>1. task'[c].pc = "lock"
        BY <1>2, <3>2 DEF LoadMutex, TaskType
      <4> QED BY <3>1, <4>1
    <3>3. CASE Lock(c)
      <4>1. task'[c].pc = "locked"
        BY <1>2, <3>3 DEF Lock, Goto, TaskType
      <4> QED BY <3>1, <4>1
    <3> QED BY <1>11, <3>2, <3>3
  <2> QED BY <1>10, <2>1
<1>12. ASSUME NEW j \in 1..setup.cams, CallStop(c, j) \/ \E op \in {"start", "restart"} : Call(c, op, j)
       PROVE  Reached' /\ HandsOn'
  <2>1. /\ task'[c].pc \in {"load", "lock", "locked", "idle"} /\ task[c].pc # "halt" /\ rec' = rec /\ running' = running
    BY <1>2, <1>12 DEF CallStop, Call, Begin, Idle, snap
  <2> QED BY <1>10, <2>1
<1>13. CASE Guard(c)
  <2>1. task[c].pc = "locked" /\ i \in Cams /\ running' = running /\ made' = made /\ task[c].op \in Calls
    BY <1>2, <1>6, <1>13 DEF Guard, Pass, Answer, Replace
  <2>2. CASE Done(c) /\ UNCHANGED <<rec, hub>>
    <3>1. task'[c] = Idle
      BY <1>2, <2>2 DEF Done
    <3> QED BY <1>3, <1>10, <2>1, <2>2, <3>1
  <2>3. CASE /\ task' = [task EXCEPT ![c].pc = "halt", ![c].rec = rec[i]]
             /\ rec' = [rec EXCEPT ![i] = None]
    <3>1. task'[c].pc = "halt" /\ task'[c].rec = rec[i] /\ task'[c].id = i
      <4>1. task[c].pc = "locked" /\ task[c] \in TaskType(Len(made))
        BY <1>2, <2>1
      <4> QED BY <1>2, <2>3, <4>1 DEF TaskType
    <3>2. rec'[i] = None /\ \A j \in Cams \ {i} : rec'[j] = rec[j]
      BY <1>2, <2>1, <2>3
    <3>3. \A d \in Clients \ {c} : task[d].pc \in Inside => rec'[task[d].id] = rec[task[d].id]
      BY <1>2, <1>3, <1>4, <2>1, <3>2
    <3>4. HandsOn'
      BY <1>7, <2>1, <3>1, <3>2, <3>3 DEF HandsOn
    <3>5. \A n \in running : \/ rec'[made[n].id] = n
                             \/ task'[c].pc = "halt" /\ task'[c].id = made[n].id /\ task'[c].rec = n
                             \/ \E d \in Clients \ {c} : task[d].pc = "halt" /\ task[d].id = made[n].id /\ task[d].rec = n
      <4> SUFFICES ASSUME NEW n \in running
                   PROVE  \/ rec'[made[n].id] = n
                          \/ task'[c].pc = "halt" /\ task'[c].id = made[n].id /\ task'[c].rec = n
                          \/ \E d \in Clients \ {c} : task[d].pc = "halt" /\ task[d].id = made[n].id /\ task[d].rec = n
        OBVIOUS
      <4>1. CASE rec[made[n].id] = n /\ made[n].id = i
        BY <3>1, <4>1
      <4>2. CASE rec[made[n].id] = n /\ made[n].id # i
        <5>1. rec'[made[n].id] = rec[made[n].id]
          BY <1>2, <2>3, <4>2
        <5> QED BY <4>2, <5>1
      <4>3. CASE \E d \in Clients : task[d].pc = "halt" /\ task[d].id = made[n].id /\ task[d].rec = n
        BY <2>1, <4>3
      <4> QED BY <1>9, <4>1, <4>2, <4>3
    <3>6. Reached'
      BY <1>8, <2>1, <3>5
    <3> QED BY <3>4, <3>6
  <2> QED BY <1>13, <2>1, <2>2, <2>3 DEF Guard, Pass, Answer, Replace, snap, Calls
<1>14. CASE Halt(c)
  <2>1. task[c].pc = "halt" /\ running' = running \ {task[c].rec} /\ rec' = rec /\ made' = made /\ i \in Cams
    BY <1>2, <1>14 DEF Halt, snap
  <2>2. task'[c].pc = "idle" \/ (task'[c].pc = "build" /\ task'[c].id = i)
    BY <1>2, <1>3, <1>14 DEF Halt, Done, Goto, TaskType
  <2>3. HandsOn'
    BY <1>7, <2>1, <2>2 DEF HandsOn
  <2>4. \A n \in running \cap running' :
                \/ rec'[made[n].id] = n
                \/ \E d \in Clients \ {c} : task[d].pc = "halt" /\ task[d].id = made[n].id /\ task[d].rec = n
    BY <1>9, <2>1
  <2>5. Reached'
    BY <1>8, <2>1, <2>4
  <2> QED BY <2>3, <2>5
<1>15. CASE Build(c)
  <2> DEFINE n == Len(made) + 1
  <2>1. /\ task[c].pc = "build" /\ i \in Cams /\ running' = running /\ task[c].op # "stop"
    BY <1>2, <1>15, InHand DEF Build, Shape, Starts
  <2>2. task[c].cam.id = i /\ task[c].cam \in Cameras
    BY <1>6, <2>1, InHand
  <2>3. /\ made' = Append(made, task[c].cam) /\ rec' = rec
        /\ task' = [task EXCEPT ![c].pc = "register", ![c].rec = n]
    BY <1>15 DEF Build
  <2>4. n # None /\ n \notin DOMAIN made /\ made'[n].id = i
    <3>1. made'[n] = task[c].cam
      BY <1>2, <2>2, <2>3, OneMore
    <3>2. n # 0 /\ n \notin 1..Len(made)
      BY <1>2
    <3> QED BY <1>2, <2>2, <3>1, <3>2 DEF None
  <2> HIDE DEF n
  <2>5. task'[c].pc = "register" /\ task'[c].rec = n /\ task'[c].id = i
    <3>1. task[c] \in TaskType(Len(made))
      BY <1>2
    <3> QED BY <1>2, <2>3, <3>1 DEF TaskType
  <2>6. rec'[i] = None
    BY <2>1, <2>3 DEF HandsOn
  <2>7. \A d \in Clients \ {c} : task[d].pc \in {"register", "starting"} => task[d].rec \notin running'
    BY <2>1 DEF HandsOn
  <2>8. n \notin running'
    BY <1>2, <2>1, <2>4
  <2>9. HandsOn'
    BY <1>7, <2>3, <2>4, <2>5, <2>6, <2>7, <2>8
  <2>10. \A m \in running : \/ rec'[made[m].id] = m
                            \/ \E d \in Clients \ {c} : task[d].pc = "halt" /\ task[d].id = made[m].id /\ task[d].rec = m
    BY <1>9, <2>1, <2>3
  <2>11. \A m \in running' : made'[m] = made[m] /\ m \in running
    BY <1>2, <1>5, <2>1
  <2>12. Reached'
    BY <1>8, <2>10, <2>11
  <2> QED BY <2>9, <2>12
<1>18. CASE Register(c)
  <2> DEFINE r == task[c].rec
  <2>1. /\ task[c].pc = "register" /\ i \in Cams /\ running' = running /\ made' = made /\ task[c].op # "stop"
    BY <1>2, <1>18, InHand DEF Register, Shape, Starts
  <2>2. task[c].cam.id = i
    BY <1>6, <2>1
  <2>3. rec' = [rec EXCEPT ![i] = r] /\ Goto(c, "starting")
    BY <1>18, <2>2 DEF Register
  <2>4. rec[i] = None /\ r # None /\ made[r].id = i /\ r \notin running
    BY <2>1 DEF HandsOn, RecorderOf
  <2>5. task'[c].pc = "starting" /\ task'[c].rec = r /\ task'[c].id = i
    <3>1. task[c] \in TaskType(Len(made))
      BY <1>2
    <3> QED BY <1>2, <2>3, <3>1 DEF Goto, TaskType
  <2>6. rec'[i] = r /\ \A j \in Cams \ {i} : rec'[j] = rec[j]
    BY <1>2, <2>1, <2>3
  <2>7. \A d \in Clients \ {c} : task[d].pc \in Inside => rec'[task[d].id] = rec[task[d].id]
    BY <1>2, <1>3, <1>4, <2>1, <2>6
  <2>8. HandsOn'
    <3>1. \A d \in Clients \ {c} : task[d].pc \in {"register", "starting"} => task[d].rec \notin running'
      BY <2>1 DEF HandsOn
    <3> HIDE DEF r
    <3> QED BY <1>7, <2>1, <2>4, <2>5, <2>6, <2>7, <3>1
  <2>9. \A m \in running : \/ rec'[made[m].id] = m
                           \/ \E d \in Clients \ {c} : task[d].pc = "halt" /\ task[d].id = made[m].id /\ task[d].rec = m
    <3> SUFFICES ASSUME NEW m \in running
                 PROVE  \/ rec'[made[m].id] = m
                        \/ \E d \in Clients \ {c} : task[d].pc = "halt" /\ task[d].id = made[m].id /\ task[d].rec = m
      OBVIOUS
    <3>1. m # None
      BY <1>2 DEF None
    <3>2. CASE rec[made[m].id] = m
      <4>1. made[m].id # i
        BY <2>4, <3>1, <3>2
      <4>2. rec'[made[m].id] = rec[made[m].id]
        BY <1>2, <2>3, <4>1
      <4> QED BY <3>2, <4>2
    <3>3. CASE \E d \in Clients : task[d].pc = "halt" /\ task[d].id = made[m].id /\ task[d].rec = m
      BY <2>1, <3>3
    <3> QED BY <1>9, <3>2, <3>3
  <2>10. \A m \in running' : made'[m] = made[m] /\ m \in running
    BY <1>2, <1>5, <2>1
  <2>11. Reached'
    BY <1>8, <2>9, <2>10
  <2> QED BY <2>8, <2>11
<1>19. CASE BuildNone(c) \/ Delay(c)
  <2>1. task[c].pc \in {"build", "starting"} /\ Done(c) /\ rec' = rec /\ running' = running
    BY <1>19 DEF BuildNone, Delay, snap
  <2>2. task'[c].pc = "idle"
    BY <1>2, <1>3, <2>1 DEF Done
  <2> QED BY <1>10, <2>1, <2>2
<1>16. CASE StartRecorder(c)
  <2> DEFINE r == task[c].rec
  <2>1. /\ task[c].pc = "starting" /\ rec' = rec /\ made' = made /\ running' = running \cup {r} /\ Done(c)
    BY <1>16 DEF StartRecorder
  <2>2. rec[i] = r /\ r # None /\ made[r].id = i
    BY <2>1 DEF HandsOn, RecorderOf
  <2>3. task'[c].pc = "idle"
    BY <1>2, <1>3, <2>1 DEF Done
  <2>4. \A d \in Clients \ {c} : task[d].pc \in {"register", "starting"} => task[d].rec \notin running'
    <3> SUFFICES ASSUME NEW d \in Clients \ {c}, task[d].pc \in {"register", "starting"}
                 PROVE  task[d].rec \notin running \cup {r}
      BY <2>1
    <3>1. task[d].rec \notin running /\ made[task[d].rec].id = task[d].id
      BY DEF HandsOn, RecorderOf
    <3>2. task[d].id # i
      BY <1>3, <1>4, <2>1
    <3> QED BY <2>2, <3>1, <3>2
  <2>5. HandsOn'
    BY <1>7, <2>1, <2>3, <2>4
  <2>6. \A n \in running \cap running' :
                \/ rec'[made[n].id] = n
                \/ \E d \in Clients \ {c} : task[d].pc = "halt" /\ task[d].id = made[n].id /\ task[d].rec = n
    BY <1>9, <2>1
  <2>7. Reached'
    BY <1>8, <2>1, <2>2, <2>6
  <2> QED BY <2>5, <2>7
<1>17. CASE StartFails(c)
  <2> DEFINE r == task[c].rec
  <2>1. /\ task[c].pc = "starting" /\ made' = made /\ running' = running /\ Done(c) /\ i \in Cams
        /\ rec' = [rec EXCEPT ![task[c].cam.id] = None]
    BY <1>2, <1>17 DEF StartFails
  <2>2. task[c].cam.id = i
    BY <1>6, <2>1, InHand DEF Shape, Starts
  <2>3. rec[i] = r /\ r \notin running
    BY <2>1 DEF HandsOn
  <2>4. task'[c].pc = "idle"
    BY <1>2, <1>3, <2>1 DEF Done
  <2>5. \A j \in Cams \ {i} : rec'[j] = rec[j]
    BY <1>2, <2>1, <2>2
  <2>6. \A d \in Clients \ {c} : task[d].pc \in Inside => rec'[task[d].id] = rec[task[d].id]
    BY <1>2, <1>3, <1>4, <2>1, <2>5
  <2>7. HandsOn'
    BY <1>7, <2>1, <2>4, <2>6 DEF HandsOn
  <2>8. \A n \in running : \/ rec'[made[n].id] = n
                           \/ \E d \in Clients \ {c} : task[d].pc = "halt" /\ task[d].id = made[n].id /\ task[d].rec = n
    <3> SUFFICES ASSUME NEW n \in running
                 PROVE  \/ rec'[made[n].id] = n
                        \/ \E d \in Clients \ {c} : task[d].pc = "halt" /\ task[d].id = made[n].id /\ task[d].rec = n
      OBVIOUS
    <3>1. CASE rec[made[n].id] = n
      <4>1. made[n].id # i
        BY <2>3, <3>1
      <4>2. rec'[made[n].id] = rec[made[n].id]
        BY <1>2, <2>1, <2>2, <4>1
      <4> QED BY <3>1, <4>2
    <3>2. CASE \E d \in Clients : task[d].pc = "halt" /\ task[d].id = made[n].id /\ task[d].rec = n
      BY <2>1, <3>2
    <3> QED BY <1>9, <3>1, <3>2
  <2>9. Reached'
    BY <1>8, <2>1, <2>8
  <2> QED BY <2>7, <2>9
<1> QED BY <1>1, <1>11, <1>12, <1>13, <1>14, <1>15, <1>16, <1>17, <1>18, <1>19 DEF GuardMove

\* Who was asked to run does, has failed, or is being seen to.
LEMMA GuardServes ==
    ASSUME Base, Next, Guarding, SameCamera, HandsOn, Serving
    PROVE  Serving'
<1>1. PICK c \in Clients : GuardMove(c) /\ \A d \in Clients \ {c} : task'[d] = task[d]
  BY GuardMoves
<1> DEFINE i == task[c].id
<1>2. /\ Clients' = Clients /\ task \in [Clients -> TaskType(Len(made))] /\ Keyed' = Keyed
      /\ task[c].pc # "idle" => i \in Cams
      /\ running \subseteq DOMAIN made /\ DOMAIN made = 1..Len(made) /\ Len(made) \in Nat
      /\ DOMAIN rec = Cams /\ \A j \in Keyed : At(conf[j])' = At(conf[j])
  BY <1>1, InHand DEF Next, Clients, Base, TaskOK, RecOK, GuardMove, Keyed, At
<1>3. task[c].pc # "idle" =>
        task[c].op \in Calls /\ (task[c].op # "stop" => task[c].cam = At(conf[i]) /\ task[c].cam.id = i)
  BY DEF SameCamera
<1>4. Idle.pc = "idle"
  BY DEF Idle
\* A camera is served as long as whoever sees to it goes on.
<1>5. ASSUME \A j \in Keyed : j \in wanted' =>
                \/ rec'[j] # None \/ j \in failed'
                \/ task'[c].pc # "idle" /\ task'[c].op # "stop" /\ task'[c].id = j
                \/ /\ j \in wanted /\ (rec[j] # None => rec'[j] # None) /\ (j \in failed => j \in failed')
                   /\ task[c].pc # "idle" /\ task[c].op # "stop" /\ i = j => At(conf[j]).form = "bare"
      PROVE  Serving'
  <2> SUFFICES ASSUME NEW j \in Keyed, j \in wanted'
               PROVE  rec'[j] # None \/ j \in failed' \/ At(conf[j]).form = "bare"
                      \/ \E d \in Clients : task'[d].pc # "idle" /\ task'[d].op # "stop" /\ task'[d].id = j
    BY <1>2 DEF Serving, Underway
  <2>1. CASE j \in wanted /\ \E d \in Clients \ {c} : task[d].pc # "idle" /\ task[d].op # "stop" /\ task[d].id = j
    BY <1>1, <2>1
  <2>2. CASE ~(j \in wanted /\ \E d \in Clients \ {c} : task[d].pc # "idle" /\ task[d].op # "stop" /\ task[d].id = j)
    <3>1. j \in wanted => rec[j] # None \/ j \in failed \/ At(conf[j]).form = "bare"
                          \/ (task[c].pc # "idle" /\ task[c].op # "stop" /\ i = j)
      BY <2>2 DEF Serving, Underway
    <3> QED BY <1>5, <3>1
  <2> QED BY <2>1, <2>2
<1>6. ASSUME task'[c].pc # "idle", task'[c].op = task[c].op, task'[c].id = i,
             wanted' = wanted, rec' = rec, failed' = failed
      PROVE  Serving'
  BY <1>5, <1>6
<1>7. ASSUME NEW j \in 1..setup.cams, NEW op \in {"start", "restart"}, Call(c, op, j)
      PROVE  Serving'
  <2>1. /\ task'[c].pc # "idle" /\ task'[c].op # "stop" /\ task'[c].id = j /\ task[c].pc = "idle"
        /\ wanted' = wanted \cup {j} /\ rec' = rec /\ failed' = failed
    BY <1>2, <1>7 DEF Call, Begin, Idle, snap
  <2> QED BY <1>5, <2>1
<1>8. ASSUME NEW j \in 1..setup.cams, CallStop(c, j)
      PROVE  Serving'
  <2>1. task[c].pc = "idle" /\ wanted' = wanted /\ rec' = rec /\ failed' = failed
    BY <1>8 DEF CallStop, Begin, snap
  <2> QED BY <1>5, <2>1
<1>9. CASE LoadMutex(c) \/ Lock(c)
  <2>1. wanted' = wanted /\ rec' = rec /\ failed' = failed /\ task[c].pc \in {"load", "lock"}
    BY <1>9 DEF LoadMutex, Lock, snap
  <2>2. task'[c].pc # "idle" /\ task'[c].op = task[c].op /\ task'[c].id = i
    BY <1>2, <1>9, <2>1 DEF LoadMutex, Lock, Goto, TaskType
  <2> QED BY <1>6, <2>1, <2>2
<1>10. CASE Guard(c)
  <2>1. task[c].pc = "locked" /\ i \in Cams /\ failed' = failed /\ task[c].op \in Calls
    BY <1>2, <1>3, <1>10 DEF Guard, Pass, Answer, Replace, snap
  <2>2. wanted' = IF task[c].op = "stop" /\ rec[i] # None THEN wanted \ {i} ELSE wanted
    BY <1>10, <2>1 DEF Guard, Pass, Answer, Replace, Calls
  <2>3. CASE /\ Done(c) /\ rec' = rec
             /\ (task[c].op = "start" /\ rec[i] \in running) \/ (task[c].op = "stop" /\ rec[i] = None)
    <3>1. wanted' = wanted
      BY <2>2, <2>3
    <3>2. task[c].op # "stop" => rec[i] # None
      BY <1>2, <2>3 DEF None
    <3> QED BY <1>5, <2>1, <2>3, <3>1, <3>2
  <2>4. CASE /\ task' = [task EXCEPT ![c].pc = "halt", ![c].rec = rec[i]]
             /\ rec' = [rec EXCEPT ![i] = None]
             /\ ~(task[c].op = "stop" /\ rec[i] = None)
    <3>1. task'[c].pc = "halt" /\ task'[c].op = task[c].op /\ task'[c].id = i
      <4>1. task[c] \in TaskType(Len(made))
        BY <1>2
      <4> QED BY <1>2, <2>4, <4>1 DEF TaskType
    <3>2. \A j \in Cams : j # i => rec'[j] = rec[j]
      BY <1>2, <2>4
    <3>3. task[c].op = "stop" => wanted' = wanted \ {i}
      BY <2>2, <2>4
    <3>4. task[c].op # "stop" => wanted' = wanted
      BY <2>2
    <3>5. Keyed \subseteq Cams
      BY DEF Keyed
    <3>6. CASE task[c].op = "stop"
      BY <1>5, <2>1, <3>2, <3>3, <3>5, <3>6
    <3>7. CASE task[c].op # "stop"
      BY <1>5, <2>1, <3>1, <3>2, <3>4, <3>5, <3>7
    <3> QED BY <3>6, <3>7
  <2> QED BY <1>10, <2>1, <2>3, <2>4 DEF Guard, Pass, Answer, Replace, snap, Calls
<1>11. CASE Halt(c)
  <2>1. task[c].pc = "halt" /\ wanted' = wanted /\ rec' = rec /\ failed' = failed
    BY <1>11 DEF Halt, snap
  <2>2. CASE task[c].op = "stop"
    BY <1>5, <2>1, <2>2
  <2>3. CASE task[c].op # "stop"
    <3>1. task'[c].pc # "idle" /\ task'[c].op = task[c].op /\ task'[c].id = i
      BY <1>2, <1>11, <2>3 DEF Halt, Goto, TaskType
    <3> QED BY <1>6, <2>1, <3>1
  <2> QED BY <2>2, <2>3
<1>12. CASE Build(c)
  <2>1. task[c].pc = "build" /\ wanted' = wanted /\ failed' = failed /\ rec' = rec
    BY <1>12 DEF Build
  <2>2. task'[c].pc = "register" /\ task'[c].op = task[c].op /\ task'[c].id = i
    BY <1>2, <1>12 DEF Build, TaskType
  <2> QED BY <1>6, <2>1, <2>2
<1>15. CASE Register(c)
  <2>1. task[c].pc = "register" /\ wanted' = wanted /\ failed' = failed /\ i \in Cams
    BY <1>2, <1>15 DEF Register
  <2>2. task[c].op # "stop" /\ task[c].cam.id = i
    BY <1>3, <2>1, InHand DEF Shape, Starts
  <2>3. rec' = [rec EXCEPT ![i] = task[c].rec] /\ task[c].rec # None
    BY <1>15, <2>1, <2>2 DEF Register, HandsOn
  <2>4. task'[c].pc = "starting" /\ task'[c].op = task[c].op /\ task'[c].id = i
    BY <1>2, <1>15 DEF Register, Goto, TaskType
  <2>5. \A j \in Cams : rec[j] # None => rec'[j] # None
    BY <1>2, <2>3
  <2>6. Keyed \subseteq Cams
    BY DEF Keyed
  <2> QED BY <1>5, <2>1, <2>2, <2>4, <2>5, <2>6
<1>16. CASE BuildNone(c)
  <2>1. task[c].pc = "build" /\ wanted' = wanted /\ rec' = rec /\ failed' = failed /\ task[c].cam.form = "bare"
    BY <1>16 DEF BuildNone, snap
  <2>2. task[c].op # "stop" => At(conf[i]).form = "bare"
    BY <1>3, <2>1
  <2> QED BY <1>5, <2>1, <2>2
<1>17. CASE Delay(c)
  <2>1. task[c].pc = "starting" /\ wanted' = wanted /\ rec' = rec /\ failed' = failed
    BY <1>17 DEF Delay, snap
  <2>2. rec[i] # None
    BY <2>1 DEF HandsOn
  <2> QED BY <1>5, <2>1, <2>2
<1>13. CASE StartRecorder(c)
  <2>1. /\ task[c].pc = "starting" /\ wanted' = wanted /\ rec' = rec /\ failed' = failed \ {task[c].cam.id}
    BY <1>13 DEF StartRecorder
  <2>2. task[c].op # "stop" /\ task[c].cam.id = i
    BY <1>3, <2>1, InHand DEF Shape, Starts
  <2>3. rec[i] # None
    BY <2>1 DEF HandsOn
  <2> QED BY <1>5, <2>1, <2>2, <2>3
<1>14. CASE StartFails(c)
  <2>1. /\ task[c].pc = "starting" /\ wanted' = wanted /\ failed' = failed \cup {task[c].cam.id}
        /\ rec' = [rec EXCEPT ![task[c].cam.id] = None]
    BY <1>14 DEF StartFails
  <2>2. task[c].op # "stop" /\ task[c].cam.id = i /\ i \in Cams
    BY <1>2, <1>3, <2>1, InHand DEF Shape, Starts
  <2>3. \A j \in Cams : j # i => rec'[j] = rec[j]
    BY <1>2, <2>1, <2>2
  <2>4. Keyed \subseteq Cams
    BY DEF Keyed
  <2> QED BY <1>5, <2>1, <2>2, <2>3, <2>4
<1> QED BY <1>1, <1>7, <1>8, <1>9, <1>10, <1>11, <1>12, <1>13, <1>14, <1>15, <1>16, <1>17 DEF GuardMove

LEMMA GuardStep ==
    ASSUME Base, GuardInv, Next
    PROVE  GuardInv'
<1> SUFFICES ASSUME Guarding
             PROVE  SameCamera' /\ OneMutex' /\ OneInside' /\ Reached' /\ HandsOn' /\ Serving'
  BY DEF GuardInv, Guarding, Ops, Next
<1> QED BY GuardTasks, GuardRecs, GuardServes DEF GuardInv

-----------------------------------------------------------------------------
(* One caller, on one camera *)

LEMMA AloneFacts ==
    ASSUME Base, Alone, AloneInv, NEW c \in Clients
    PROVE  /\ \A d \in Clients : d = c
           /\ \A i \in 1..setup.cams : i = 1
           /\ OneSlot /\ AloneAt(task[c]) /\ 1 \in Cams
           /\ cfg = [arr |-> 1, len |-> cfg.len] /\ cfg.len \in 0..1 /\ Slots = 1..cfg.len
           /\ Present <=> 1 \in Configured
           /\ Present => IndexOf(1) = {1} /\ Content(1) = Current
           /\ Present <=> 1 \in Keyed
           /\ Keyed \subseteq {1} /\ (~Present => Keyed = {} /\ cfg.len = 0)
           /\ mem \in Seq(Seq(Cameras)) /\ 1 \in DOMAIN mem /\ mem[1] \in Seq(Cameras)
           /\ DOMAIN mem[1] = {1} /\ Len(mem[1]) = 1 /\ Current \in Cameras
           /\ running \subseteq DOMAIN made /\ None \notin running
           /\ DOMAIN made = 1..Len(made) /\ Len(made) \in Nat /\ made \in Seq(Cameras)
           /\ DOMAIN task = Clients /\ DOMAIN rec = Cams /\ DOMAIN conf = Cams
<1>1. \A d \in Clients : d = c
  BY OneClient DEF Base
<1>2. 1 \in Cams /\ \A i \in 1..setup.cams : i = 1
  BY SetupFacts DEF Base, Alone
<1>3. OneSlot /\ AloneAt(task[c])
  BY DEF AloneInv
<1>4. /\ cfg.arr = 1 /\ cfg.len \in 0..1 /\ Len(mem[1]) = 1 /\ Current.id = 1
      /\ conf[1] = IF Present THEN <<1, 1>> ELSE <<>>
      /\ Keyed \subseteq {1}
  BY <1>3 DEF OneSlot
<1>5. cfg = [arr |-> 1, len |-> cfg.len] /\ Slots = 1..cfg.len
  BY <1>4 DEF Slots, Base, SliceOK
<1>6. mem \in Seq(Seq(Cameras)) /\ 1 \in DOMAIN mem /\ DOMAIN conf = Cams
  BY <1>4 DEF Base, SliceOK
<1>7. mem[1] \in Seq(Cameras)
  BY <1>6
<1>8. DOMAIN mem[1] = {1} /\ Current \in Cameras
  BY <1>4, <1>7 DEF Current
<1>9. Content(1) = Current
  BY <1>4 DEF Content, Current
<1>10. /\ running \subseteq DOMAIN made /\ None \notin running
       /\ DOMAIN made = 1..Len(made) /\ Len(made) \in Nat /\ made \in Seq(Cameras)
       /\ DOMAIN task = Clients /\ DOMAIN rec = Cams /\ DOMAIN conf = Cams
  BY <1>6, InHand DEF Base, TaskOK, RecOK, None
<1>11. CASE Present
  <2>1. Slots = {1}
    BY <1>5, <1>11 DEF Present
  <2>2. IndexOf(1) = {1} /\ 1 \in Configured
    BY <1>4, <1>9, <2>1 DEF IndexOf, Configured
  <2>3. 1 \in Keyed
    BY <2>2 DEF Base, SnapshotIsConfig
  <2> QED BY <1>1, <1>2, <1>3, <1>4, <1>5, <1>6, <1>7, <1>8, <1>9, <1>11, <2>2, <2>3, <1>10
<1>12. CASE ~Present
  <2>1. cfg.len = 0 /\ Slots = {}
    BY <1>4, <1>5, <1>12 DEF Present
  <2>2. Configured = {}
    BY <2>1 DEF Configured
  <2>3. Keyed = {}
    BY <2>2 DEF Base, SnapshotIsConfig
  <2> QED BY <1>1, <1>2, <1>3, <1>4, <1>5, <1>6, <1>7, <1>8, <1>9, <1>12, <2>1, <2>2, <2>3, <1>10
<1> QED BY <1>11, <1>12

\* The slice's one place.
LEMMA SlotKept ==
    ASSUME Base, OneSlot, Next, UNCHANGED <<mem, cfg, conf>>, failed' \subseteq {1},
           made' = made \/ \E x : x.id = 1 /\ made' = Append(made, x)
    PROVE  OneSlot' /\ (Present' <=> Present) /\ Current' = Current /\ Keyed' = Keyed
<1>1. (Present' <=> Present) /\ Current' = Current /\ Keyed' = Keyed
  BY DEF Present, Current, Keyed
<1>2. \A n \in DOMAIN made' : made'[n].id = 1
  <2>1. CASE made' = made
    BY <2>1 DEF OneSlot, RecorderOf
  <2>2. ASSUME NEW x, x.id = 1, made' = Append(made, x)
        PROVE  \A n \in DOMAIN made' : made'[n].id = 1
    <3>1. made \in Seq(Cameras)
      BY DEF Base, RecOK
    <3>2. \A n \in DOMAIN made' : (n \in DOMAIN made /\ made'[n] = made[n]) \/ made'[n] = x
      BY <2>2, <3>1
    <3> QED BY <2>2, <3>2 DEF OneSlot, RecorderOf
  <2> QED BY <2>1, <2>2
<1> QED BY <1>1, <1>2 DEF OneSlot, RecorderOf

\* The calls that change the configuration or look a camera up in it.
LEMMA AloneCalls ==
    ASSUME Base, Alone, AloneInv, Next, NEW c \in Clients,
           \/ Adds(c, 1) \/ AddPending(c, 1) \/ AddUnsaved(c, 1) \/ RemoveRead(c, 1)
           \/ Updates(c, 1) \/ Alters(c, 1) \/ UpdateUnsaved(c, 1)
           \/ ProtocolOff(c, 1) \/ CallStop(c, 1) \/ BootBuild(c, 1) \/ Publish(c, 1)
           \/ \E op \in {"start", "restart"} : Call(c, op, 1)
    PROVE  OneSlot' /\ AloneAt(task[c])'
<1>1. /\ OneSlot /\ AloneAt(task[c]) /\ 1 \in Cams
      /\ cfg = [arr |-> 1, len |-> cfg.len] /\ cfg.len \in 0..1
      /\ Present <=> 1 \in Configured
      /\ Present => IndexOf(1) = {1} /\ Content(1) = Current
      /\ Present <=> 1 \in Keyed
      /\ Keyed \subseteq {1} /\ (~Present => Keyed = {} /\ cfg.len = 0)
      /\ mem \in Seq(Seq(Cameras)) /\ 1 \in DOMAIN mem /\ mem[1] \in Seq(Cameras)
      /\ DOMAIN mem[1] = {1} /\ Len(mem[1]) = 1 /\ Current \in Cameras
      /\ running \subseteq DOMAIN made /\ None \notin running
      /\ DOMAIN made = 1..Len(made) /\ Len(made) \in Nat /\ made \in Seq(Cameras)
      /\ DOMAIN task = Clients /\ DOMAIN rec = Cams /\ DOMAIN conf = Cams
  BY AloneFacts
<1>2. task[c].pc = "idle" /\ Runs(rec[1]) /\ Rests /\ failed \subseteq {1}
  <2>1. task[c].pc = "idle"
    BY DEF Adds, AddConfig, AddPending, AddUnsaved, RemoveRead, Updates, UpdateConfig, Alters, UpdateForm,
           UpdateUnsaved, ProtocolOff, CallStop, BootBuild, Publish, Call, Begin
  <2> QED BY <1>1, <2>1 DEF AloneAt, OneSlot
\* the camera in the one place is set
<1>3. ASSUME NEW x, x.id = 1, mem' = [mem EXCEPT ![1][1] = x]
      PROVE  Current' = x /\ Len(mem'[1]) = 1
  BY <1>1, <1>3 DEF Current
\* a camera is put in the one place
<1>0. ASSUME NEW x, x.id = 1, Append1(x), 1 \notin Configured, conf' = [conf EXCEPT ![1] = <<cfg'.arr, cfg'.len>>],
             made' = made, failed' = failed
      PROVE  OneSlot' /\ Current' = x /\ Present' /\ Keyed' \subseteq {1} /\ running = {}
  <2>1. ~Present /\ cfg.len = 0 /\ cfg.arr = 1 /\ cfg.len + 1 = 1
    BY <1>0, <1>1 DEF OneSlot
  <2>2. mem' = [mem EXCEPT ![1][1] = x] /\ cfg' = [arr |-> 1, len |-> 1]
    <3>1. Len(mem[cfg.arr]) = 1 /\ cfg.len + 1 <= Len(mem[cfg.arr])
      <4>1. Len(mem[1]) = 1
        BY <1>1
      <4> QED BY <2>1, <4>1
    <3>2. mem' = [mem EXCEPT ![cfg.arr][cfg.len + 1] = x] /\ cfg' = [cfg EXCEPT !.len = cfg.len + 1]
      BY <1>0, <3>1 DEF Append1
    <3>3. cfg = [arr |-> 1, len |-> 0]
      BY <1>1, <2>1 DEF OneSlot
    <3> QED BY <2>1, <3>2, <3>3
  <2>3. Current' = x /\ Len(mem'[1]) = 1 /\ Present'
    BY <1>0, <1>3, <2>2 DEF Present
  <2>4. conf' = [conf EXCEPT ![1] = <<1, 1>>]
    BY <1>0, <2>2
  <2>5. Keyed' \subseteq {1} /\ conf'[1] = <<1, 1>>
    BY <1>1, <2>4 DEF Keyed
  <2>6. OneSlot'
    BY <1>0, <1>1, <1>2, <2>2, <2>3, <2>4, <2>5 DEF OneSlot, RecorderOf
  <2>7. running = {}
    BY <1>2, <2>1 DEF Runs
  <2> QED BY <2>3, <2>5, <2>6, <2>7
<1>4. ASSUME Adds(c, 1)
      PROVE  OneSlot' /\ AloneAt(task[c])'
  <2>1. PICK f \in Forms : AddConfig(c, 1, f)
    BY <1>4 DEF Adds
  <2> DEFINE x == Camera(1, f)
  <2>2. x.id = 1
    BY <1>1, CameraFacts
  <2> HIDE DEF x
  <2>3. /\ Append1(x) /\ 1 \notin Configured /\ conf' = [conf EXCEPT ![1] = <<cfg'.arr, cfg'.len>>]
        /\ made' = made /\ failed' = failed /\ running' = running
        /\ task' = [task EXCEPT ![c] = [Idle EXCEPT !.pc = "load", !.op = "add", !.id = 1, !.cam = x]]
    BY <2>1 DEF AddConfig, x
  <2>4. OneSlot' /\ Current' = x /\ Present' /\ running = {}
    BY <1>0, <2>2, <2>3
  <2>5. task'[c] = [Idle EXCEPT !.pc = "load", !.op = "add", !.id = 1, !.cam = x]
    BY <1>1, <2>3
  <2>6. task'[c].pc = "load" /\ task'[c].op = "add" /\ task'[c].id = 1 /\ task'[c].cam = x
    BY <2>5 DEF Idle
  <2> QED BY <2>3, <2>4, <2>6 DEF AloneAt
<1>13. ASSUME AddPending(c, 1)
       PROVE  OneSlot' /\ AloneAt(task[c])'
  <2> DEFINE x == Camera(1, "plain")
  <2>1. x.id = 1
    BY <1>1, CameraFacts
  <2> HIDE DEF x
  <2>2. /\ Append1(x) /\ 1 \notin Configured /\ conf' = [conf EXCEPT ![1] = <<cfg'.arr, cfg'.len>>]
        /\ made' = made /\ failed' = failed /\ running' = running /\ rec' = rec /\ task' = task
        /\ wanted' = wanted \ {1}
    BY <1>13 DEF AddPending, x
  <2>3. OneSlot' /\ Keyed' \subseteq {1} /\ running = {}
    BY <1>0, <2>1, <2>2
  <2>4. Runs(rec[1])' /\ Rests'
    BY <2>2, <2>3 DEF Runs, Rests
  <2> QED BY <1>2, <2>2, <2>3, <2>4 DEF AloneAt
<1>5. ASSUME AddUnsaved(c, 1)
      PROVE  OneSlot' /\ AloneAt(task[c])'
  <2> DEFINE x == Camera(1, "plain")
  <2>0. x.id = 1
    BY <1>1, CameraFacts
  <2>1. 1 \notin Configured /\ ~Present /\ cfg.len = 0 /\ Keyed = {}
    BY <1>1, <1>5 DEF AddUnsaved
  <2>2. mem' = [mem EXCEPT ![1][1] = x] /\ cfg' = cfg
    <3>1. cfg.arr = 1 /\ cfg.len + 1 = 1
      BY <1>1, <2>1 DEF OneSlot
    <3> QED BY <1>1, <1>5, <3>1 DEF AddUnsaved
  <2> HIDE DEF x
  <2>3. Current' = x /\ Len(mem'[1]) = 1 /\ ~Present'
    BY <1>3, <2>0, <2>1, <2>2 DEF Present
  <2>4. conf' = conf /\ made' = made /\ failed' = failed /\ running' = running /\ task' = task /\ rec' = rec
    BY <1>5 DEF AddUnsaved, snap
  <2>5. Keyed' = Keyed
    BY <2>4 DEF Keyed
  <2>6. OneSlot'
    BY <1>1, <2>0, <2>1, <2>2, <2>3, <2>4, <2>5 DEF OneSlot, RecorderOf
  <2>7. running = {}
    BY <1>2, <2>1 DEF Runs
  <2>8. Runs(rec[1])' /\ Rests'
    BY <2>1, <2>4, <2>5, <2>7 DEF Runs, Rests
  <2> QED BY <1>2, <2>4, <2>6, <2>8 DEF AloneAt
\* the camera in the one place is changed
<1>14. ASSUME NEW x, x.id = 1, Present, mem' = [mem EXCEPT ![1][1] = x], cfg' = cfg, UNCHANGED snap, made' = made
       PROVE  OneSlot' /\ Current' = x /\ Present' /\ Keyed' = Keyed
  <2>1. Current' = x /\ Len(mem'[1]) = 1 /\ Present'
    BY <1>3, <1>14 DEF Present
  <2>2. conf' = conf /\ failed' = failed /\ Keyed' = Keyed
    BY <1>14 DEF snap, Keyed
  <2> QED BY <1>1, <1>14, <2>1, <2>2 DEF OneSlot, RecorderOf
<1>15. ASSUME 1 \in Configured
       PROVE  Present /\ IndexOf(1) = {1} /\ Content(1) = Current /\ cfg.arr = 1
  BY <1>1, <1>15 DEF OneSlot
<1>6. ASSUME Updates(c, 1)
      PROVE  OneSlot' /\ AloneAt(task[c])'
  <2>0. PICK f \in Forms : UpdateConfig(c, 1, f)
    BY <1>6 DEF Updates
  <2>1. Present /\ IndexOf(1) = {1} /\ Content(1) = Current /\ cfg.arr = 1
    BY <1>15, <2>0 DEF UpdateConfig
  <2> DEFINE x == [Current EXCEPT !.gen = @ + 1, !.form = f]
  <2>2. /\ mem' = [mem EXCEPT ![1][1] = x] /\ cfg' = cfg /\ UNCHANGED snap /\ made' = made /\ running' = running
        /\ task' = [task EXCEPT ![c] = [Idle EXCEPT !.pc = "read", !.op = "update", !.id = 1, !.cam = x]]
    BY <2>0, <2>1 DEF UpdateConfig
  <2>3. x.id = 1
    BY <1>1 DEF OneSlot, Cameras
  <2> HIDE DEF x
  <2>4. OneSlot' /\ Current' = x /\ Present' /\ rec' = rec
    BY <1>14, <2>1, <2>2, <2>3 DEF snap
  <2>5. task'[c] = [Idle EXCEPT !.pc = "read", !.op = "update", !.id = 1, !.cam = x]
    BY <1>1, <2>2
  <2>6. task'[c].pc = "read" /\ task'[c].op = "update" /\ task'[c].id = 1 /\ task'[c].cam = x
    BY <2>5 DEF Idle
  <2>7. running \subseteq {rec[1]}
    BY <1>2 DEF Runs
  <2> QED BY <2>2, <2>4, <2>6, <2>7 DEF AloneAt
<1>16. ASSUME Alters(c, 1)
       PROVE  OneSlot' /\ AloneAt(task[c])'
  <2>0. PICK f \in Forms : UpdateForm(c, 1, f)
    BY <1>16 DEF Alters
  <2>1. Present /\ IndexOf(1) = {1} /\ Content(1) = Current /\ cfg.arr = 1
    BY <1>15, <2>0 DEF UpdateForm
  <2> DEFINE x == [Current EXCEPT !.form = f]
  <2>2. /\ mem' = [mem EXCEPT ![1][1] = x] /\ cfg' = cfg /\ UNCHANGED snap /\ made' = made /\ running' = running
        /\ task' = task /\ wanted' = wanted /\ Current.form # "bare"
    BY <2>0, <2>1 DEF UpdateForm
  <2>3. x.id = 1 /\ x.gen = Current.gen
    BY <1>1 DEF OneSlot, Cameras
  <2> HIDE DEF x
  <2>4. OneSlot' /\ Current' = x /\ Present' /\ Keyed' = Keyed /\ rec' = rec /\ failed' = failed
    BY <1>14, <2>1, <2>2, <2>3 DEF snap
  <2>5. Runs(rec[1])' /\ Rests'
    BY <1>2, <2>1, <2>2, <2>3, <2>4 DEF Runs, Rests
  <2> QED BY <1>2, <2>2, <2>4, <2>5 DEF AloneAt
<1>17. ASSUME UpdateUnsaved(c, 1)
       PROVE  OneSlot' /\ AloneAt(task[c])'
  <2>1. /\ UNCHANGED <<mem, cfg, conf>> /\ made' = made /\ failed' = failed /\ running' = running /\ rec' = rec
        /\ wanted' = wanted /\ task' = task
    BY <1>17 DEF UpdateUnsaved, slice, snap
  <2>2. OneSlot' /\ (Present' <=> Present) /\ Current' = Current /\ Keyed' = Keyed
    BY <1>1, <1>2, <2>1, SlotKept
  <2>3. Runs(rec[1])' /\ Rests'
    BY <1>2, <2>1, <2>2 DEF Runs, Rests
  <2> QED BY <1>2, <2>1, <2>2, <2>3 DEF AloneAt
<1>7. ASSUME RemoveRead(c, 1)
      PROVE  OneSlot' /\ AloneAt(task[c])'
  <2>1. /\ UNCHANGED <<mem, cfg, conf>> /\ made' = made /\ failed' = failed /\ running' = running /\ rec' = rec
        /\ wanted' = wanted /\ saves' = saves
    BY <1>7 DEF RemoveRead, slice, snap
  <2>2. OneSlot' /\ (Present' <=> Present) /\ Current' = Current /\ Keyed' = Keyed
    BY <1>1, <1>2, <2>1, SlotKept
  <2>3. task'[c].pc = "remove" /\ task'[c].op = "remove" /\ task'[c].id = 1 /\ task'[c].rec = rec[1]
    BY <1>1, <1>7 DEF RemoveRead, Idle
  <2>4. Runs(rec[1])' /\ Rests'
    BY <1>2, <2>1, <2>2 DEF Runs, Rests
  <2> QED BY <2>1, <2>2, <2>3, <2>4 DEF AloneAt, Starts
<1>8. ASSUME ProtocolOff(c, 1)
      PROVE  OneSlot' /\ AloneAt(task[c])'
  <2>1. /\ UNCHANGED <<mem, cfg, conf>> /\ made' = made /\ failed' = failed /\ running' = running /\ rec' = rec
        /\ wanted' = wanted \ {1}
    BY <1>8 DEF ProtocolOff, slice, snap
  <2>2. OneSlot'
    BY <1>1, <1>2, <2>1, SlotKept
  <2>3. task'[c].pc = "take" /\ task'[c].op = "protocol" /\ task'[c].id = 1 /\ task'[c].rec = rec[1]
    BY <1>1, <1>8 DEF ProtocolOff, Idle
  <2>4. running \subseteq {rec[1]}
    BY <1>2 DEF Runs
  <2> QED BY <2>1, <2>2, <2>3, <2>4 DEF AloneAt, Starts
<1>9. ASSUME CallStop(c, 1)
      PROVE  OneSlot' /\ AloneAt(task[c])'
  <2>1. /\ UNCHANGED <<mem, cfg, conf>> /\ made' = made /\ failed' = failed /\ running' = running /\ rec' = rec
        /\ wanted' = wanted /\ saves' = saves
    BY <1>9 DEF CallStop, slice, snap
  <2>2. OneSlot' /\ (Present' <=> Present) /\ Current' = Current /\ Keyed' = Keyed
    BY <1>1, <1>2, <2>1, SlotKept
  <2>3. task'[c].pc = "load" /\ task'[c].op = "stop" /\ task'[c].id = 1
    BY <1>1, <1>9 DEF CallStop, Idle
  <2>4. Runs(rec[1])' /\ Rests'
    BY <1>2, <2>1, <2>2 DEF Runs, Rests
  <2> QED BY <2>2, <2>3, <2>4 DEF AloneAt, Starts
<1>10. ASSUME NEW op \in {"start", "restart"}, Call(c, op, 1)
       PROVE  OneSlot' /\ AloneAt(task[c])'
  <2>1. /\ UNCHANGED <<mem, cfg, conf>> /\ made' = made /\ failed' = failed /\ running' = running /\ rec' = rec
        /\ 1 \in Keyed
    BY <1>10 DEF Call, slice, snap
  <2>2. OneSlot' /\ (Present' <=> Present) /\ Current' = Current /\ Keyed' = Keyed
    BY <1>1, <1>2, <2>1, SlotKept
  <2>3. Present /\ At(conf[1]) = Current
    <3>1. Present /\ conf[1] = <<1, 1>>
      BY <1>1, <2>1 DEF OneSlot
    <3> QED BY <3>1 DEF At, Current
  <2>4. task'[c].pc = "load" /\ task'[c].op = op /\ task'[c].id = 1 /\ task'[c].cam = Current
    BY <1>1, <1>10, <2>3 DEF Call, Idle
  <2>5. Runs(rec[1])'
    BY <1>2, <2>1, <2>2 DEF Runs
  <2> QED BY <2>2, <2>3, <2>4, <2>5 DEF AloneAt
<1>11. ASSUME Publish(c, 1)
       PROVE  OneSlot' /\ AloneAt(task[c])'
  <2> DEFINE x == Camera(1, "plain")
  <2>1. /\ UNCHANGED <<mem, cfg, conf>> /\ failed' = failed /\ running' = running /\ rec' = rec
        /\ wanted' = wanted /\ saves' = saves /\ task' = task
        /\ made' = made \/ made' = Append(made, x)
    BY <1>11 DEF Publish, slice, snap
  <2>0. x.id = 1
    BY <1>1, CameraFacts
  <2> HIDE DEF x
  <2>2. OneSlot' /\ (Present' <=> Present) /\ Current' = Current /\ Keyed' = Keyed
    BY <1>1, <1>2, <2>0, <2>1, SlotKept
  <2>3. Runs(rec[1])' /\ Rests'
    <3>1. running # {} => made'[rec[1]] = made[rec[1]]
      BY <1>1, <1>2, MadeStep DEF Runs
    <3> QED BY <1>2, <2>1, <2>2, <3>1 DEF Runs, Rests
  <2> QED BY <1>2, <2>1, <2>2, <2>3 DEF AloneAt
<1>12. ~BootBuild(c, 1)
  BY DEF BootBuild, Begin, Alone
<1> QED BY <1>4, <1>5, <1>6, <1>7, <1>8, <1>9, <1>10, <1>11, <1>12, <1>13, <1>16, <1>17

\* What is under way.
LEMMA AloneMoves ==
    ASSUME Base, Alone, AloneInv, Next, NEW c \in Clients,
           \/ RemoveConfig(c) \/ RemoveNone(c) \/ RemoveUnsaved(c) \/ RemoveDrop(c) \/ UpdateRead(c)
           \/ TakeOut(c) \/ StopOld(c) \/ UpdateCheck(c) \/ LoadMutex(c) \/ Lock(c) \/ Guard(c) \/ Halt(c)
           \/ Build(c) \/ BuildNone(c) \/ Register(c) \/ Delay(c) \/ StartRecorder(c) \/ StartFails(c) \/ BootRegister(c) \/ BootStart(c)
    PROVE  OneSlot' /\ AloneAt(task[c])'
<1> DEFINE t == task[c]
<1>1. /\ OneSlot /\ AloneAt(t) /\ 1 \in Cams
      /\ cfg = [arr |-> 1, len |-> cfg.len] /\ cfg.len \in 0..1
      /\ Present <=> 1 \in Configured
      /\ Present => IndexOf(1) = {1} /\ Content(1) = Current
      /\ Present <=> 1 \in Keyed
      /\ Keyed \subseteq {1} /\ (~Present => Keyed = {} /\ cfg.len = 0)
      /\ mem \in Seq(Seq(Cameras)) /\ 1 \in DOMAIN mem /\ mem[1] \in Seq(Cameras)
      /\ DOMAIN mem[1] = {1} /\ Len(mem[1]) = 1 /\ Current \in Cameras
      /\ running \subseteq DOMAIN made /\ None \notin running
      /\ DOMAIN made = 1..Len(made) /\ Len(made) \in Nat /\ made \in Seq(Cameras)
      /\ DOMAIN task = Clients /\ DOMAIN rec = Cams /\ DOMAIN conf = Cams
  BY AloneFacts
<1>2. /\ t = [pc |-> t.pc, op |-> t.op, id |-> t.id, cam |-> t.cam, rec |-> t.rec, hub |-> t.hub, mu |-> t.mu]
      /\ Shape(t)
  BY InHand DEF TaskType
<1>3. t.pc # "idle" /\ t.id = 1
  <2>1. t.pc # "idle"
    BY DEF RemoveConfig, RemoveNone, RemoveUnsaved, RemoveDrop, UpdateRead, TakeOut, StopOld, UpdateCheck, LoadMutex,
           Lock, Guard, Pass, Answer, Replace, Halt, Build, BuildNone, Register, Delay, StartRecorder, StartFails,
           BootRegister, BootStart, Inside
  <2> QED BY <1>1, <2>1 DEF AloneAt
<1>4. failed \subseteq {1} /\ Current.id = 1 /\ cfg.arr = 1
  BY <1>1 DEF OneSlot
<1>5. t.op \in Starts => Present /\ t.cam = Current /\ t.cam.id = 1
  BY <1>1, <1>3, <1>4 DEF AloneAt
<1>6. Idle.pc = "idle"
  BY DEF Idle
\* A task that ends leaves the camera at rest.
<1>7. ASSUME Done(c), Runs(rec[1])', Rests'
      PROVE  AloneAt(task[c])'
  <2>1. task'[c] = Idle
    BY <1>1, <1>7 DEF Done
  <2> QED BY <1>6, <1>7, <2>1 DEF AloneAt
\* A task that goes on.
<1>8. \A p : Goto(c, p) => /\ task'[c].pc = p /\ task'[c].op = t.op /\ task'[c].id = 1 /\ task'[c].cam = t.cam
                            /\ task'[c].rec = t.rec
  <2> SUFFICES ASSUME NEW p, Goto(c, p)
               PROVE  /\ task'[c].pc = p /\ task'[c].op = t.op /\ task'[c].id = 1 /\ task'[c].cam = t.cam
                      /\ task'[c].rec = t.rec
    OBVIOUS
  <2> HIDE DEF t
  <2>1. task' = [task EXCEPT ![c] = [t EXCEPT !.pc = p]]
    BY DEF Goto, t
  <2>2. task'[c] = [t EXCEPT !.pc = p]
    BY <1>1, <2>1
  <2> QED BY <1>2, <1>3, <2>2
<1> HIDE DEF t
<1>9. CASE RemoveConfig(c)
  <2>1. t.pc = "remove" /\ t.op = "remove" /\ Present /\ IndexOf(1) = {1}
    BY <1>1, <1>2, <1>3, <1>9 DEF RemoveConfig, Shape, t
  <2>2. Cut(1)
    BY <1>3, <1>9, <2>1 DEF RemoveConfig, t
  <2>3. cfg.len = 1
    BY <2>1 DEF Present
  <2>4. cfg' = [arr |-> 1, len |-> 0]
    BY <1>1, <2>2, <2>3 DEF Cut
  <2>5. mem' = [mem EXCEPT ![1] = [i \in {1} |-> IF i \in 1..0 THEN mem[1][i + 1] ELSE mem[1][i]]]
    BY <1>1, <1>4, <2>2, <2>3 DEF Cut
  <2>6. mem'[1] = [i \in {1} |-> mem[1][1]]
    <3>1. mem'[1] = [i \in {1} |-> IF i \in 1..0 THEN mem[1][i + 1] ELSE mem[1][i]]
      BY <1>1, <2>5
    <3>2. 1..0 = {}
      OBVIOUS
    <3> QED BY <3>1, <3>2
  <2>7. Current' = Current /\ Len(mem'[1]) = 1 /\ ~Present'
    BY <2>4, <2>6 DEF Current, Present
  <2>8. conf' = [conf EXCEPT ![1] = <<>>] /\ rec' = [rec EXCEPT ![1] = None] /\ failed' = failed \ {1}
        /\ made' = made /\ running' = running /\ Goto(c, "drop")
    BY <1>3, <1>9 DEF RemoveConfig, t
  <2>9. Keyed' = {} /\ conf'[1] = <<>> /\ rec'[1] = None
    BY <1>1, <2>8 DEF Keyed
  <2>10. OneSlot'
    BY <1>1, <1>4, <2>4, <2>7, <2>8, <2>9 DEF OneSlot, RecorderOf
  <2>11. running \subseteq {t.rec}
    BY <1>1, <2>1 DEF AloneAt, Runs
  <2>12. task'[c].pc = "drop" /\ task'[c].op = "remove" /\ task'[c].id = 1 /\ task'[c].rec = t.rec
    BY <1>8, <2>1, <2>8
  <2> QED BY <2>7, <2>8, <2>9, <2>10, <2>11, <2>12 DEF AloneAt, Starts
<1>10. CASE RemoveUnsaved(c)
  <2>1. t.pc = "remove" /\ Present /\ IndexOf(1) = {1} /\ t.rec = rec[1] /\ Keyed = {1}
    BY <1>1, <1>3, <1>10 DEF RemoveUnsaved, AloneAt, t
  <2>2. UNCHANGED slice /\ conf' = [conf EXCEPT ![1] = <<1, CHOOSE k \in IndexOf(1) : TRUE>>]
    BY <1>1, <1>3, <1>10, <1>4 DEF RemoveUnsaved, t
  <2>3. (CHOOSE k \in IndexOf(1) : TRUE) = 1
    BY <2>1
  <2>4. mem' = mem /\ cfg' = cfg /\ conf' = [conf EXCEPT ![1] = <<1, 1>>]
    BY <2>2, <2>3 DEF slice
  <2>5. /\ rec' = [rec EXCEPT ![1] = t.rec] /\ failed' = failed \ {1} /\ made' = made /\ running' = running /\ Done(c)
        /\ wanted' = IF t.rec = None THEN wanted \ (failed \cap {1}) ELSE wanted
    BY <1>3, <1>10 DEF RemoveUnsaved, t
  <2>6. rec'[1] = rec[1] /\ Runs(rec[1]) /\ Rests
    BY <1>1, <2>1, <2>5 DEF AloneAt
  <2>7. Keyed' \subseteq {1} /\ conf'[1] = <<1, 1>>
    BY <1>1, <2>4 DEF Keyed
  <2>8. Present' /\ Current' = Current
    BY <2>1, <2>4 DEF Present, Current
  <2>9. OneSlot'
    BY <1>1, <1>4, <2>4, <2>5, <2>7, <2>8 DEF OneSlot, RecorderOf
  <2>10. Runs(rec[1])'
    BY <2>1, <2>5, <2>6, <2>8 DEF Runs
  <2>11. Rests'
    <3>1. CASE rec[1] # None
      BY <2>6, <3>1 DEF Rests
    <3>2. CASE rec[1] = None /\ 1 \in failed
      BY <2>1, <2>5, <2>7, <3>2 DEF Rests
    <3>3. CASE rec[1] = None /\ 1 \notin failed
      BY <2>1, <2>5, <2>6, <2>7, <2>8, <3>3 DEF Rests
    <3> QED BY <3>1, <3>2, <3>3
  <2> QED BY <1>7, <2>5, <2>9, <2>10, <2>11
<1>11. CASE RemoveNone(c)
  <2>1. /\ UNCHANGED <<mem, cfg, conf>> /\ made' = made /\ failed' = failed /\ running' = running /\ rec' = rec
        /\ wanted' = wanted /\ saves' = saves /\ Done(c) /\ t.pc = "remove"
    BY <1>11 DEF RemoveNone, slice, snap, counts, t
  <2>2. OneSlot' /\ (Present' <=> Present) /\ Current' = Current /\ Keyed' = Keyed
    BY <1>1, <1>4, <2>1, SlotKept
  <2>3. Runs(rec[1])' /\ Rests'
    BY <1>1, <2>1, <2>2 DEF AloneAt, Runs, Rests
  <2> QED BY <1>7, <2>1, <2>2, <2>3
<1>12. CASE RemoveDrop(c)
  <2>1. /\ UNCHANGED <<mem, cfg, conf>> /\ made' = made /\ failed' = failed /\ running' = running /\ rec' = rec
        /\ Goto(c, "oldstop") /\ t.pc = "drop" /\ t.op = "remove"
    BY <1>2, <1>12 DEF RemoveDrop, slice, snap, t, Shape
  <2>2. OneSlot' /\ (Present' <=> Present)
    BY <1>1, <1>4, <2>1, SlotKept
  <2>3. task'[c].pc = "oldstop" /\ task'[c].op = "remove" /\ task'[c].id = 1 /\ task'[c].rec = t.rec
    BY <1>8, <2>1
  <2> QED BY <1>1, <2>1, <2>2, <2>3 DEF AloneAt, Starts
<1>13. CASE UpdateRead(c)
  <2>1. /\ UNCHANGED <<mem, cfg, conf>> /\ made' = made /\ failed' = failed /\ running' = running /\ rec' = rec
        /\ t.pc = "read" /\ t.op = "update"
    BY <1>2, <1>13 DEF UpdateRead, slice, snap, t, Shape
  <2>2. OneSlot' /\ (Present' <=> Present) /\ Current' = Current
    BY <1>1, <1>4, <2>1, SlotKept
  <2>3. task'[c] = [t EXCEPT !.rec = rec[1], !.pc = IF rec[1] = None THEN "check" ELSE "take"]
    BY <1>1, <1>3, <1>13 DEF UpdateRead, t
  <2>4. /\ task'[c].pc = IF rec[1] = None THEN "check" ELSE "take"
        /\ task'[c].op = "update" /\ task'[c].id = 1 /\ task'[c].rec = rec[1] /\ task'[c].cam = t.cam
    BY <1>2, <1>3, <2>1, <2>3
  <2>5. running \subseteq {rec[1]}
    BY <1>1, <2>1 DEF AloneAt
  <2>6. Present /\ t.cam = Current
    BY <1>5, <2>1 DEF Starts
  <2>7. CASE rec[1] = None
    BY <1>1, <2>1, <2>2, <2>4, <2>5, <2>6, <2>7 DEF AloneAt
  <2>8. CASE rec[1] # None
    BY <2>1, <2>2, <2>4, <2>5, <2>6, <2>8 DEF AloneAt
  <2> QED BY <2>7, <2>8
<1>14. CASE TakeOut(c)
  <2>1. /\ UNCHANGED <<mem, cfg, conf>> /\ made' = made /\ failed' = failed /\ running' = running
        /\ rec' = [rec EXCEPT ![1] = None] /\ wanted' = wanted
        /\ Goto(c, "oldstop") /\ t.pc = "take" /\ t.op \in {"update", "protocol"}
    BY <1>2, <1>3, <1>14 DEF TakeOut, slice, snap, t, Shape
  <2>2. OneSlot' /\ (Present' <=> Present) /\ Current' = Current
    BY <1>1, <1>4, <2>1, SlotKept
  <2>3. task'[c].pc = "oldstop" /\ task'[c].op = t.op /\ task'[c].id = 1 /\ task'[c].rec = t.rec /\ task'[c].cam = t.cam
    BY <1>8, <2>1
  <2>4. rec'[1] = None /\ running \subseteq {t.rec}
    BY <1>1, <2>1 DEF AloneAt
  <2>5. t.op = "update" => Present /\ t.cam = Current
    BY <1>5 DEF Starts
  <2>6. t.op = "protocol" => 1 \notin wanted
    BY <1>1, <2>1 DEF AloneAt
  <2> QED BY <2>1, <2>2, <2>3, <2>4, <2>5, <2>6 DEF AloneAt, Starts
<1>15. CASE StopOld(c)
  <2>1. /\ UNCHANGED <<mem, cfg, conf>> /\ made' = made /\ failed' = failed /\ running' = running \ {t.rec}
        /\ rec' = rec /\ wanted' = wanted /\ saves' = saves /\ t.pc = "oldstop" /\ t.op \in {"update", "protocol", "remove"}
    BY <1>2, <1>15 DEF StopOld, slice, snap, counts, t, Shape
  <2>2. OneSlot' /\ (Present' <=> Present) /\ Current' = Current /\ Keyed' = Keyed
    BY <1>1, <1>4, <2>1, SlotKept
  <2>3. running' = {}
    BY <1>1, <2>1 DEF AloneAt
  <2>4. CASE t.op = "update"
    <3>1. Goto(c, "check")
      BY <1>15, <2>4 DEF StopOld, t
    <3>2. task'[c].pc = "check" /\ task'[c].op = "update" /\ task'[c].id = 1 /\ task'[c].cam = t.cam
      BY <1>8, <2>4, <3>1
    <3>3. Present /\ t.cam = Current
      BY <1>5, <2>4 DEF Starts
    <3> QED BY <2>2, <2>3, <3>2, <3>3 DEF AloneAt
  <2>5. CASE t.op # "update"
    <3>1. Done(c)
      BY <1>15, <2>5 DEF StopOld, t
    <3>2. wanted \cap Keyed = {}
      BY <1>1, <2>1, <2>5 DEF AloneAt
    <3>3. Runs(rec[1])' /\ Rests'
      BY <2>1, <2>2, <2>3, <3>2 DEF Runs, Rests
    <3> QED BY <1>7, <2>2, <3>1, <3>3
  <2> QED BY <2>4, <2>5
<1>16. CASE UpdateCheck(c)
  <2>1. /\ UNCHANGED <<mem, cfg, conf>> /\ made' = made /\ failed' = failed /\ running' = running
        /\ rec' = rec /\ wanted' = wanted /\ saves' = saves /\ t.pc = "check" /\ t.op = "update"
    BY <1>2, <1>16 DEF UpdateCheck, slice, snap, counts, t, Shape
  <2>2. OneSlot' /\ (Present' <=> Present) /\ Current' = Current /\ Keyed' = Keyed
    BY <1>1, <1>4, <2>1, SlotKept
  <2>3. running = {}
    BY <1>1, <2>1 DEF AloneAt
  <2>4. CASE rec[1] = None
    <3>1. Goto(c, "load")
      BY <1>3, <1>16, <2>4 DEF UpdateCheck, t
    <3>2. task'[c].pc = "load" /\ task'[c].op = "update" /\ task'[c].id = 1 /\ task'[c].cam = t.cam
      BY <1>8, <2>1, <3>1
    <3>3. Present /\ t.cam = Current
      BY <1>5, <2>1 DEF Starts
    <3> QED BY <2>1, <2>2, <2>3, <3>2, <3>3 DEF AloneAt
  <2>5. CASE rec[1] # None
    <3>1. Done(c)
      BY <1>3, <1>16, <2>5 DEF UpdateCheck, t
    <3>2. Runs(rec[1])' /\ Rests'
      BY <2>1, <2>2, <2>3, <2>5 DEF Runs, Rests
    <3> QED BY <1>7, <2>2, <3>1, <3>2
  <2> QED BY <2>4, <2>5
<1>17. CASE LoadMutex(c) \/ Lock(c)
  <2>1. /\ UNCHANGED <<mem, cfg, conf>> /\ made' = made /\ failed' = failed /\ running' = running
        /\ rec' = rec /\ wanted' = wanted /\ saves' = saves /\ t.pc \in {"load", "lock"}
    BY <1>17 DEF LoadMutex, Lock, slice, snap, counts, t
  <2>2. OneSlot' /\ (Present' <=> Present) /\ Current' = Current /\ Keyed' = Keyed
    BY <1>1, <1>4, <2>1, SlotKept
  <2>3. task'[c].pc \in {"lock", "locked"} /\ task'[c].op = t.op /\ task'[c].id = 1 /\ task'[c].cam = t.cam
    <3>1. CASE LoadMutex(c)
      <4>1. \E m : task' = [task EXCEPT ![c].pc = "lock", ![c].mu = m]
        BY <3>1 DEF LoadMutex
      <4>2. \E m : task'[c] = [t EXCEPT !.pc = "lock", !.mu = m]
        BY <1>1, <4>1 DEF t
      <4> QED BY <1>2, <1>3, <4>2
    <3>2. CASE Lock(c)
      <4>1. Goto(c, "locked")
        BY <3>2 DEF Lock
      <4> QED BY <1>8, <4>1
    <3> QED BY <1>17, <3>1, <3>2
  <2>4. /\ t.op \in Starts => Present /\ t.cam = Current
        /\ IF t.op \in {"add", "update"} THEN running = {} ELSE Runs(rec[1])
        /\ t.op = "stop" => Rests
    BY <1>1, <1>5, <2>1 DEF AloneAt
  <2>5. (Runs(rec[1]) => Runs(rec[1])') /\ (Rests => Rests')
    BY <2>1, <2>2 DEF Runs, Rests
  <2> QED BY <2>1, <2>2, <2>3, <2>4, <2>5 DEF AloneAt
<1>18. CASE Guard(c)
  <2>1. /\ UNCHANGED <<mem, cfg, conf>> /\ made' = made /\ failed' = failed /\ running' = running
        /\ t.pc = "locked" /\ t.op \in Starts \cup {"stop"}
    BY <1>2, <1>18 DEF Guard, Pass, Answer, Replace, slice, snap, t, Shape, Guards, Inside
  <2>2. OneSlot' /\ (Present' <=> Present) /\ Current' = Current /\ Keyed' = Keyed
    BY <1>1, <1>4, <2>1, SlotKept
  <2>3. CASE Pass(c)
    <3>1. Goto(c, "build") /\ t.op \in {"add", "update"}
      BY <2>3 DEF Pass, t
    <3>2. task'[c].pc = "build" /\ task'[c].op = t.op /\ task'[c].id = 1 /\ task'[c].cam = t.cam
      BY <1>8, <3>1
    <3>3. Present /\ t.cam = Current /\ running = {}
      BY <1>1, <1>5, <2>1, <3>1 DEF AloneAt, Starts
    <3> QED BY <2>1, <2>2, <3>1, <3>2, <3>3 DEF AloneAt
  <2>4. CASE Answer(c)
    <3>1. /\ Done(c) /\ rec' = rec /\ wanted' = wanted
          /\ (t.op = "start" /\ rec[1] \in running) \/ (t.op = "stop" /\ rec[1] = None)
      BY <1>3, <2>4 DEF Answer, snap, t
    <3>2. Runs(rec[1]) /\ (rec[1] # None \/ Rests)
      BY <1>1, <2>1, <3>1 DEF AloneAt
    <3>3. Runs(rec[1])' /\ Rests'
      BY <2>1, <2>2, <3>1, <3>2 DEF Runs, Rests
    <3> QED BY <1>7, <2>2, <3>1, <3>3
  <2>5. CASE Replace(c)
    <3>1. /\ task' = [task EXCEPT ![c].pc = "halt", ![c].rec = rec[1]]
          /\ rec' = [rec EXCEPT ![1] = None] /\ t.op \notin {"add", "update"}
          /\ t.op = "stop" => wanted' = wanted \ {1}
      BY <1>3, <2>5 DEF Replace, t
    <3>2. task'[c] = [t EXCEPT !.pc = "halt", !.rec = rec[1]]
      BY <1>1, <3>1 DEF t
    <3>3. task'[c].pc = "halt" /\ task'[c].op = t.op /\ task'[c].id = 1 /\ task'[c].cam = t.cam /\ task'[c].rec = rec[1]
      BY <1>2, <1>3, <3>2
    <3>4. rec'[1] = None /\ running \subseteq {rec[1]}
      BY <1>1, <2>1, <3>1 DEF AloneAt, Runs
    <3>5. t.op = "stop" => 1 \notin wanted'
      BY <3>1
    <3> QED BY <1>5, <2>1, <2>2, <3>3, <3>4, <3>5 DEF AloneAt
  <2> QED BY <1>18, <2>3, <2>4, <2>5 DEF Guard
<1>19. CASE Halt(c)
  <2>1. /\ UNCHANGED <<mem, cfg, conf>> /\ made' = made /\ failed' = failed /\ running' = running \ {t.rec}
        /\ rec' = rec /\ wanted' = wanted /\ saves' = saves /\ t.pc = "halt"
    BY <1>19 DEF Halt, slice, snap, counts, t
  <2>2. OneSlot' /\ (Present' <=> Present) /\ Current' = Current /\ Keyed' = Keyed
    BY <1>1, <1>4, <2>1, SlotKept
  <2>3. running' = {}
    BY <1>1, <2>1 DEF AloneAt
  <2>4. CASE t.op = "stop"
    <3>1. Done(c)
      BY <1>19, <2>4 DEF Halt, t
    <3>2. wanted \cap Keyed = {}
      BY <1>1, <2>1, <2>4 DEF AloneAt
    <3>3. Runs(rec[1])' /\ Rests'
      BY <2>1, <2>2, <2>3, <3>2 DEF Runs, Rests
    <3> QED BY <1>7, <2>2, <3>1, <3>3
  <2>5. CASE t.op # "stop"
    <3>1. Goto(c, "build")
      BY <1>19, <2>5 DEF Halt, t
    <3>2. task'[c].pc = "build" /\ task'[c].op = t.op /\ task'[c].id = 1 /\ task'[c].cam = t.cam
      BY <1>8, <3>1
    <3> QED BY <1>5, <2>2, <2>3, <3>2 DEF AloneAt
  <2> QED BY <2>4, <2>5
<1>20. CASE Build(c)
  <2> DEFINE n == Len(made) + 1
  <2>1. t.pc = "build" /\ t.op \in Starts /\ running' = running /\ failed' = failed /\ UNCHANGED <<mem, cfg, conf>>
    BY <1>2, <1>20 DEF Build, Shape, slice, t
  <2>2. Present /\ t.cam = Current /\ t.cam.id = 1
    BY <1>5, <2>1
  <2>3. made' = Append(made, t.cam) /\ task' = [task EXCEPT ![c].pc = "register", ![c].rec = n]
    BY <1>20 DEF Build, t
  <2>4. n # None /\ made'[n] = Current
    BY <1>1, <2>2, <2>3 DEF None
  <2> HIDE DEF n
  <2>5. OneSlot' /\ (Present' <=> Present) /\ Current' = Current
    BY <1>1, <1>4, <2>1, <2>2, <2>3, SlotKept
  <2>6. task'[c] = [t EXCEPT !.pc = "register", !.rec = n]
    BY <1>1, <2>3 DEF t
  <2>7. task'[c].pc = "register" /\ task'[c].op = t.op /\ task'[c].id = 1 /\ task'[c].cam = t.cam /\ task'[c].rec = n
    BY <1>2, <1>3, <2>6
  <2>8. running = {}
    BY <1>1, <2>1 DEF AloneAt
  <2> QED BY <2>1, <2>2, <2>4, <2>5, <2>7, <2>8 DEF AloneAt
<1>24. CASE BuildNone(c)
  <2>1. /\ UNCHANGED <<mem, cfg, conf>> /\ made' = made /\ failed' = failed /\ running' = running /\ rec' = rec
        /\ Done(c) /\ t.pc = "build" /\ t.op \in Starts /\ t.cam.form = "bare"
    BY <1>2, <1>24 DEF BuildNone, Shape, slice, snap, t
  <2>2. OneSlot' /\ (Present' <=> Present) /\ Current' = Current /\ Keyed' = Keyed
    BY <1>1, <1>4, <2>1, SlotKept
  <2>3. running = {} /\ Current.form = "bare"
    BY <1>1, <1>5, <2>1 DEF AloneAt
  <2>4. Runs(rec[1])' /\ Rests'
    BY <2>1, <2>2, <2>3 DEF Runs, Rests
  <2> QED BY <1>7, <2>1, <2>2, <2>4
<1>25. CASE Register(c)
  <2>1. /\ t.pc = "register" /\ t.op \in Starts /\ running' = running /\ failed' = failed
        /\ UNCHANGED <<mem, cfg, conf>> /\ made' = made /\ Goto(c, "starting")
        /\ rec' = [rec EXCEPT ![t.cam.id] = t.rec]
    BY <1>2, <1>25 DEF Register, Shape, slice, t
  <2>2. OneSlot' /\ (Present' <=> Present) /\ Current' = Current
    BY <1>1, <1>4, <2>1, SlotKept
  <2>3. Present /\ t.cam = Current /\ running = {} /\ t.rec # None /\ made[t.rec] = Current /\ rec'[1] = t.rec
    BY <1>1, <1>5, <2>1 DEF AloneAt
  <2>4. /\ task'[c].pc = "starting" /\ task'[c].op = t.op /\ task'[c].id = 1 /\ task'[c].cam = t.cam
        /\ task'[c].rec = t.rec
    BY <1>8, <2>1
  <2> QED BY <2>1, <2>2, <2>3, <2>4 DEF AloneAt
<1>26. CASE Delay(c)
  <2>1. /\ UNCHANGED <<mem, cfg, conf>> /\ made' = made /\ failed' = failed /\ running' = running /\ rec' = rec
        /\ Done(c) /\ t.pc = "starting"
    BY <1>26 DEF Delay, slice, snap, t
  <2>2. OneSlot' /\ (Present' <=> Present) /\ Current' = Current
    BY <1>1, <1>4, <2>1, SlotKept
  <2>3. running = {} /\ rec[1] # None
    BY <1>1, <2>1 DEF AloneAt
  <2>4. Runs(rec[1])' /\ Rests'
    BY <2>1, <2>3 DEF Runs, Rests
  <2> QED BY <1>7, <2>1, <2>2, <2>4
<1>21. CASE StartRecorder(c)
  <2>1. /\ t.pc = "starting" /\ t.op \in Starts /\ running' = running \cup {t.rec} /\ failed' = failed \ {t.cam.id}
        /\ UNCHANGED <<mem, cfg, conf>> /\ made' = made /\ rec' = rec /\ Done(c)
    BY <1>2, <1>21 DEF StartRecorder, Shape, slice, t
  <2>2. OneSlot' /\ (Present' <=> Present) /\ Current' = Current
    BY <1>1, <1>4, <2>1, SlotKept
  <2>3. running = {} /\ t.rec = rec[1] /\ t.rec # None /\ made[t.rec] = Current /\ Present
    BY <1>1, <1>5, <2>1 DEF AloneAt
  <2>4. Runs(rec[1])' /\ Rests'
    BY <2>1, <2>2, <2>3 DEF Runs, Rests
  <2> QED BY <1>7, <2>1, <2>2, <2>4
<1>22. CASE StartFails(c)
  <2>1. /\ t.pc = "starting" /\ t.op \in Starts /\ running' = running /\ failed' = failed \cup {t.cam.id}
        /\ UNCHANGED <<mem, cfg, conf>> /\ made' = made /\ Done(c)
    BY <1>2, <1>22 DEF StartFails, Shape, slice, t
  <2>2. failed' = failed \cup {1}
    BY <1>5, <2>1
  <2>3. OneSlot' /\ (Present' <=> Present) /\ Current' = Current
    BY <1>1, <1>4, <2>1, <2>2, SlotKept
  <2>4. running = {}
    BY <1>1, <2>1 DEF AloneAt
  <2>5. Runs(rec[1])' /\ Rests'
    BY <2>1, <2>2, <2>4 DEF Runs, Rests
  <2> QED BY <1>7, <2>1, <2>3, <2>5
<1>23. ~BootStart(c) /\ ~BootRegister(c)
  BY <1>1 DEF BootStart, BootRegister, AloneAt, t
<1> QED BY <1>9, <1>10, <1>11, <1>12, <1>13, <1>14, <1>15, <1>16, <1>17, <1>18, <1>19, <1>20, <1>21, <1>22, <1>23,
           <1>24, <1>25, <1>26

LEMMA AloneStep ==
    ASSUME Base, AloneInv, Next
    PROVE  AloneInv'
<1> SUFFICES ASSUME Alone
             PROVE  OneSlot' /\ \A d \in Clients : AloneAt(task[d])'
  BY DEF AloneInv, Alone, Clients, Ops, Next
<1>1. PICK c \in Clients :
        \/ RemoveConfig(c) \/ RemoveNone(c) \/ RemoveUnsaved(c) \/ RemoveDrop(c) \/ UpdateRead(c)
        \/ TakeOut(c) \/ StopOld(c) \/ UpdateCheck(c) \/ LoadMutex(c) \/ Lock(c) \/ Guard(c) \/ Halt(c)
        \/ Build(c) \/ BuildNone(c) \/ Register(c) \/ Delay(c) \/ StartRecorder(c) \/ StartFails(c) \/ BootRegister(c) \/ BootStart(c)
        \/ \E i \in 1..setup.cams :
              \/ Adds(c, i) \/ AddPending(c, i) \/ AddUnsaved(c, i) \/ RemoveRead(c, i)
              \/ Updates(c, i) \/ Alters(c, i) \/ UpdateUnsaved(c, i)
              \/ ProtocolOff(c, i) \/ CallStop(c, i) \/ BootBuild(c, i) \/ Publish(c, i)
              \/ \E op \in {"start", "restart"} : Call(c, op, i)
  BY DEF Next, Move, Guard, Adds, Updates, Alters
<1>2. \A d \in Clients : d = c
  BY OneClient DEF Base
<1>3. \A i \in 1..setup.cams : i = 1
  BY AloneFacts
<1>4. OneSlot' /\ AloneAt(task[c])'
  <2>1. CASE \/ RemoveConfig(c) \/ RemoveNone(c) \/ RemoveUnsaved(c) \/ RemoveDrop(c) \/ UpdateRead(c)
             \/ TakeOut(c) \/ StopOld(c) \/ UpdateCheck(c) \/ LoadMutex(c) \/ Lock(c) \/ Guard(c) \/ Halt(c)
             \/ Build(c) \/ BuildNone(c) \/ Register(c) \/ Delay(c) \/ StartRecorder(c) \/ StartFails(c) \/ BootRegister(c) \/ BootStart(c)
    BY <2>1, AloneMoves
  <2>2. ASSUME NEW i \in 1..setup.cams,
               \/ Adds(c, i) \/ AddPending(c, i) \/ AddUnsaved(c, i) \/ RemoveRead(c, i)
               \/ Updates(c, i) \/ Alters(c, i) \/ UpdateUnsaved(c, i)
               \/ ProtocolOff(c, i) \/ CallStop(c, i) \/ BootBuild(c, i) \/ Publish(c, i)
               \/ \E op \in {"start", "restart"} : Call(c, op, i)
        PROVE  OneSlot' /\ AloneAt(task[c])'
    BY <1>3, <2>2, AloneCalls
  <2> QED BY <1>1, <2>1, <2>2
<1> QED BY <1>2, <1>4

-----------------------------------------------------------------------------
(* The invariants *)

LEMMA Inductive == Spec => []IInv
<1>1. Init => IInv
  BY BaseInit, GuardInit, AloneInit DEF IInv
<1>2. IInv /\ [Next]_vars => IInv'
  <2>1. IInv /\ Next => IInv'
    BY BaseStep, GuardStep, AloneStep DEF IInv
  <2>2. IInv /\ UNCHANGED vars => IInv'
    <3> SUFFICES ASSUME IInv, UNCHANGED vars
                 PROVE  IInv'
      OBVIOUS
    <3>1. /\ setup' = setup /\ mem' = mem /\ cfg' = cfg /\ conf' = conf /\ rec' = rec /\ hub' = hub
          /\ failed' = failed /\ entry' = entry /\ mutexes' = mutexes /\ ops' = ops /\ fails' = fails
          /\ saves' = saves /\ made' = made /\ running' = running /\ task' = task /\ booted' = booted
          /\ pushing' = pushing /\ wanted' = wanted
      BY DEF vars, moving, slice, snap, locks, counts
    <3>2. Clients' = Clients /\ Keyed' = Keyed /\ Slots' = Slots /\ (Guarding' <=> Guarding) /\ (Alone' <=> Alone)
      BY <3>1 DEF Clients, Keyed, Slots, Guarding, Alone, Ops
    <3>3. SliceOK'
      BY <3>1, <3>2 DEF IInv, Base, SliceOK, At
    <3>4. SnapshotIsConfig'
      BY <3>1, <3>2 DEF IInv, Base, SnapshotIsConfig, Configured, Content
    <3>5. TaskOK' /\ RecOK'
      BY <3>1, <3>2 DEF IInv, Base, TaskOK, RecOK
    <3>6. GuardInv'
      BY <3>1, <3>2 DEF IInv, GuardInv, SameCamera, OwnConfig, At, OneMutex, OneInside, Reached, Halting, RecorderOf,
                        HandsOn, Serving, Underway
    <3>7. AloneInv'
      BY <3>1, <3>2 DEF IInv, AloneInv, OneSlot, Present, Current, RecorderOf, AloneAt, Runs, Rests
    <3> QED BY <3>1, <3>3, <3>4, <3>5, <3>6, <3>7 DEF IInv, Base
  <2> QED BY <2>1, <2>2
<1> QED BY <1>1, <1>2, PTL DEF Spec

LEMMA TypesHold ==
    ASSUME Base
    PROVE  TypeOK
<1>1. /\ \A a \in DOMAIN mem : mem[a] \in Seq(Cameras)
      /\ cfg.arr \in DOMAIN mem /\ cfg.len \in 0..Len(mem[cfg.arr])
  BY Arrays DEF Base
<1>2. \A i \in Keyed : conf[i][1] \in DOMAIN mem /\ conf[i][2] \in DOMAIN mem[conf[i][1]]
  BY DEF Base, SliceOK
<1>3. made \in Seq(Cameras) /\ running \subseteq DOMAIN made
  BY DEF Base, RecOK
<1>4. \A i \in Cams : {rec[i], hub[i], pushing[i]} \subseteq {None} \cup DOMAIN made
  <2>1. 0..Len(made) = {None} \cup DOMAIN made
    BY <1>3 DEF None
  <2> QED BY <2>1 DEF Base, RecOK
<1>5. {failed, booted, wanted} \subseteq SUBSET Cams
  BY DEF Base, RecOK
<1>6. \A i \in Cams : entry[i] \in 0..mutexes[i]
  <2> SUFFICES ASSUME NEW i \in Cams
               PROVE  entry[i] \in 0..mutexes[i]
    OBVIOUS
  <2>1. entry[i] \in Nat /\ mutexes[i] \in Nat /\ entry[i] <= mutexes[i]
    BY DEF Base, TaskOK
  <2> QED BY <2>1
<1>7. \A c \in Clients : task[c].op \in OpNames \cup {"none"} /\ task[c].cam \in Cameras
  BY InHand DEF TaskType
<1>8. setup \in Setups
  BY DEF Base
<1> QED BY <1>1, <1>2, <1>3, <1>4, <1>5, <1>6, <1>7, <1>8 DEF TypeOK

\* What the invariant says when one caller is at rest.
LEMMA AtRest ==
    ASSUME Base, Alone, AloneInv, Quiet
    PROVE  OneSlot /\ Runs(rec[1]) /\ Rests
<1>1. PICK c : c \in Clients
  BY FS_EmptySet DEF Alone
<1> QED BY <1>1 DEF AloneInv, AloneAt, Quiet

(***************************************************************************)
(* The maps of the manager agree, however many call it and whatever fails: *)
(* the snapshot has the cameras of the configuration, each once; under the *)
(* cameras' mutexes, and alone, what was asked to run is registered, known *)
(* to have failed, or a camera no recorder is made for; alone, what was    *)
(* removed is not recorded                                                 *)
(* (CameraManager.AddCamera, RemoveCamera, StartCamera, RestartRecorder).  *)
(***************************************************************************)
THEOREM CamerasAgree == Spec => []Inv
<1>1. IInv => Inv
  <2> SUFFICES ASSUME IInv
               PROVE  Inv
    OBVIOUS
  <2>1. TypeOK /\ SnapshotIsConfig
    BY TypesHold DEF IInv, Base
  <2>2. Served
    <3> SUFFICES ASSUME Guarding \/ Alone, Quiet, NEW i \in wanted \cap Keyed
                 PROVE  rec[i] # None \/ i \in failed \/ At(conf[i]).form = "bare"
      BY DEF Served
    <3>1. CASE Guarding
      <4>1. Serving
        BY <3>1 DEF IInv, GuardInv
      <4>2. ~Underway(i)
        BY DEF Underway, Quiet
      <4> QED BY <4>1, <4>2 DEF Serving
    <3>2. CASE Alone
      <4>1. OneSlot /\ Rests
        BY <3>2, AtRest DEF IInv
      <4>2. i = 1
        BY <4>1 DEF OneSlot
      <4>3. conf[1] = <<1, 1>>
        BY <4>1, <4>2 DEF OneSlot, Keyed
      <4>4. At(conf[i]) = Current
        BY <4>2, <4>3 DEF At, Current
      <4> QED BY <4>1, <4>2, <4>4 DEF Rests
    <3> QED BY <3>1, <3>2
  <2>3. RemovedStops
    <3> SUFFICES ASSUME Alone, Quiet, NEW n \in running
                 PROVE  RecorderOf(n) \in Configured
      BY DEF RemovedStops
    <3>1. OneSlot /\ Runs(rec[1])
      BY AtRest DEF IInv
    <3>2. Present /\ n \in DOMAIN made
      BY <3>1 DEF Runs, IInv, Base, RecOK
    <3>3. RecorderOf(n) = 1
      BY <3>1, <3>2 DEF OneSlot
    <3>4. PICK c : c \in Clients
      BY FS_EmptySet DEF Alone
    <3> QED BY <3>2, <3>3, <3>4, AloneFacts DEF IInv
  <2> QED BY <2>1, <2>2, <2>3 DEF Inv
<1> QED BY <1>1, Inductive, PTL

(***************************************************************************)
(* A camera is never recorded by two recorders at once: not by callers     *)
(* that hold its mutex (lifecycleMu), nor by one caller of all operations. *)
(***************************************************************************)
THEOREM OneRecorderEach == Spec => []OneRecorder
<1>1. IInv => OneRecorder
  <2> SUFFICES ASSUME IInv, Guarding \/ Alone, NEW m \in running, NEW n \in running, RecorderOf(m) = RecorderOf(n)
               PROVE  m = n
    BY DEF OneRecorder
  <2>1. CASE Guarding
    <3>1. Reached /\ HandsOn /\ OneInside
      BY <2>1 DEF IInv, GuardInv
    <3>2. m # None /\ n # None
      BY DEF IInv, Base, RecOK, None
    <3>3. rec[RecorderOf(m)] = m \/ Halting(m)
      BY <3>1 DEF Reached
    <3>4. rec[RecorderOf(n)] = n \/ Halting(n)
      BY <3>1 DEF Reached
    <3>5. Halting(m) => rec[RecorderOf(m)] = None
      BY <3>1 DEF Halting, HandsOn
    <3>6. Halting(n) => rec[RecorderOf(n)] = None
      BY <3>1 DEF Halting, HandsOn
    <3>7. CASE Halting(m) /\ Halting(n)
      <4>1. PICK c \in Clients : task[c].pc = "halt" /\ task[c].id = RecorderOf(m) /\ task[c].rec = m
        BY <3>7 DEF Halting
      <4>2. PICK d \in Clients : task[d].pc = "halt" /\ task[d].id = RecorderOf(n) /\ task[d].rec = n
        BY <3>7 DEF Halting
      <4>3. c = d
        BY <3>1, <4>1, <4>2 DEF OneInside, Inside
      <4> QED BY <4>1, <4>2, <4>3
    <3> QED BY <3>2, <3>3, <3>4, <3>5, <3>6, <3>7
  <2>2. CASE Alone
    <3>1. PICK c : c \in Clients
      BY <2>2, FS_EmptySet DEF Alone
    <3>2. AloneAt(task[c]) /\ task[c].pc \in Pcs /\ None \notin running
      BY <2>2, <3>1, AloneFacts, InHand DEF IInv, TaskType
    <3>3. \E r : running \subseteq {r}
      BY <3>2 DEF AloneAt, Runs, Pcs
    <3> QED BY <3>3
  <2> QED BY <2>1, <2>2
<1> QED BY <1>1, Inductive, PTL

(***************************************************************************)
(* When nothing is under way, a recorder that runs is the one registered   *)
(* for its camera, so that it can be stopped (CameraManager.recorders).    *)
(***************************************************************************)
THEOREM RunningReached == Spec => []RunningRegistered
<1>1. IInv => RunningRegistered
  <2> SUFFICES ASSUME IInv, Guarding \/ Alone, Quiet, NEW n \in running
               PROVE  rec[RecorderOf(n)] = n
    BY DEF RunningRegistered
  <2>1. CASE Guarding
    <3>1. Reached
      BY <2>1 DEF IInv, GuardInv
    <3>2. ~Halting(n)
      BY DEF Halting, Quiet
    <3> QED BY <3>1, <3>2 DEF Reached
  <2>2. CASE Alone
    <3>1. OneSlot /\ Runs(rec[1]) /\ n \in DOMAIN made
      BY <2>2, AtRest DEF IInv, Base, RecOK
    <3> QED BY <3>1 DEF OneSlot, Runs
  <2> QED BY <2>1, <2>2
<1> QED BY <1>1, Inductive, PTL

(***************************************************************************)
(* When nothing is under way, a recorder that runs was made after the last *)
(* change to its camera that recorders are restarted for, by one caller on *)
(* one camera (CameraManager.UpdateCamera).                                *)
(***************************************************************************)
THEOREM LatestUsed == Spec => []LatestConfig
<1>1. IInv => LatestConfig
  <2> SUFFICES ASSUME IInv, Alone, Quiet, NEW n \in running, NEW k \in Slots, RecorderOf(n) = Content(k).id
               PROVE  made[n].gen = Content(k).gen
    BY DEF LatestConfig
  <2>1. OneSlot /\ Runs(rec[1])
    BY AtRest DEF IInv
  <2>2. made[n].gen = Current.gen
    BY <2>1 DEF Runs
  <2>3. PICK c : c \in Clients
    BY FS_EmptySet DEF Alone
  <2>4. Slots = 1..cfg.len /\ cfg.len \in 0..1 /\ (Present => Content(1) = Current)
    BY <2>3, AloneFacts DEF IInv
  <2>5. k = 1
    BY <2>4
  <2>6. Present
    BY <2>1 DEF Runs
  <2> QED BY <2>2, <2>4, <2>5, <2>6
<1> QED BY <1>1, Inductive, PTL
=============================================================================
