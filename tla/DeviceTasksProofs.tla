--------------------------- MODULE DeviceTasksProofs ---------------------------
(***************************************************************************)
(* Proofs about the gateway's device management, for any devices, tasks,   *)
(* connections to the broker, changes, stalls and failures: a task that    *)
(* polls is the one that can be cancelled unless two config loops raced,   *)
(* the watchdog recycles nothing that is healthy, and a single watchdog is *)
(* never killed by a missing key.                                          *)
(***************************************************************************)
EXTENDS DeviceTasks, WellFoundedInduction, TLAPS

\* The table's tasks are tasks of their devices, so that no two devices share one.
TableInv ==
  \A d \in Devices : tasks[d] # NoTask =>
    poller[tasks[d]].st # "none" /\ poller[tasks[d]].dev = d

\* A config loop connects to a device that has no task, but for a race: reconcile looks
\* at device_tasks before it awaits connect() and not again after it.
ConnectInv ==
  \A k \in Runs : config[k].st = "connecting" =>
    /\ tasks[config[k].dev] = NoTask \/ config[k].dev \in raced
    /\ \A j \in Runs \ {k} :
         config[j].st = "connecting" /\ config[j].dev = config[k].dev => config[k].dev \in raced

\* The loops of a run start with the run.
UnstartedInv == \A k \in Runs : k > runs => config[k] = Off /\ watch[k] = Off

\* The only watchdog goes through keys that are all there: it removes a key only after
\* it is done with it, and nobody else removes one.
KeysInv ==
  runs = 1 => /\ watch[1] # Off
              /\ watch[1].st = "closing" => watch[1].keys \subseteq watched \ {watch[1].dev}

\* What a watchdog takes for stalled has had no round since.
Late(d) == d \in old \/ \E k \in Runs : watch[k].st = "closing" /\ d \in watch[k].late

LateInv ==
  \A d \in Devices : Late(d) /\ d \notin Slow =>
    \A n \in Tasks : poller[n].st = "on" => poller[n].dev # d

\* The inductive invariant: the safety properties, and what the loops remember across an
\* await that is still so after it.
DeviceInv ==
  /\ DeviceTypeOK
  /\ TableInv
  /\ PollersOwned
  /\ ConnectInv
  /\ UnstartedInv
  /\ KeysInv
  /\ LateInv
--------------------------------------------------------------------------------
(* Lemmas about the operators *)

LEMMA LeastNatural ==
  ASSUME NEW S \in SUBSET Nat, S # {}
  PROVE  \E n \in S : \A m \in S : n <= m
<1>1. \E x \in S : \A y \in S : ~(<<y, x>> \in OpToRel(<, Nat))
  BY NatLessThanWellFounded, WFMin
<1>2. \A x, y \in Nat : ~(<<y, x>> \in OpToRel(<, Nat)) => x <= y
  BY DEF OpToRel
<1> QED
  BY <1>1, <1>2

\* A new task gets a number that no living task has and the table does not know.
LEMMA NewTask ==
  ASSUME FreeTasks # {}, NEW n, n = CHOOSE i \in FreeTasks : \A j \in FreeTasks : i <= j
  PROVE  n \in Tasks /\ n # NoTask /\ ~Alive(n) /\ \A d \in Devices : tasks[d] # n
<1>1. FreeTasks \subseteq Nat
  BY DeviceAssumption DEF FreeTasks, Tasks
<1>2. n \in FreeTasks
  BY <1>1, LeastNatural
<1>3. n \in Tasks /\ ~Alive(n) /\ \A d \in Devices : tasks[d] # n
  BY <1>2 DEF FreeTasks
<1>4. \A i \in Tasks : i # NoTask
  BY DeviceAssumption DEF Tasks, NoTask
<1> QED
  BY <1>3, <1>4

ConfigStates ==
  {Off, Asleep} \cup [st : {"fetched"}, devs : SUBSET Devices]
    \cup [st : {"closing"}, gone : SUBSET Devices, todo : SUBSET Devices]
    \cup [st : {"connecting"}, dev : Devices, todo : SUBSET Devices]

WatchStates ==
  {Off, Asleep} \cup
    [st : {"closing"}, dev : Devices, keys : SUBSET Devices, late : SUBSET Devices]

PollerStates == {NoPoller} \cup [st : {"new", "on", "stuck", "dead"}, dev : Devices]

\* What the state of a loop or a task says of its fields.
LEMMA StatesAre ==
  /\ \A c \in ConfigStates :
       /\ c.st = "fetched" => c.devs \in SUBSET Devices
       /\ c.st = "closing" => c.gone \in SUBSET Devices /\ c.todo \in SUBSET Devices
       /\ c.st = "connecting" => c.dev \in Devices /\ c.todo \in SUBSET Devices
  /\ \A w \in WatchStates :
       w.st = "closing" => /\ w.dev \in Devices /\ w.keys \in SUBSET Devices
                           /\ w.late \in SUBSET Devices
                           /\ w \in [st : {"closing"}, dev : Devices, keys : SUBSET Devices,
                                     late : SUBSET Devices]
  /\ \A p \in PollerStates :
       p.st # "none" => p \in [st : {"new", "on", "stuck", "dead"}, dev : Devices]
BY DEF ConfigStates, WatchStates, PollerStates, Off, Asleep, NoPoller

LEMMA LoopTypes ==
  ASSUME DeviceTypeOK
  PROVE  /\ config \in [Runs -> ConfigStates] /\ watch \in [Runs -> WatchStates]
         /\ poller \in [Tasks -> PollerStates] /\ tasks \in [Devices -> {NoTask} \cup Tasks]
BY DEF DeviceTypeOK, ConfigStates, WatchStates, PollerStates

LEMMA DeviceInitInv == DeviceInit => DeviceInv
<1> SUFFICES ASSUME DeviceInit PROVE DeviceInv
  OBVIOUS
<1>1. DeviceTypeOK
  <2>1. assigned \subseteq Devices /\ raced \subseteq Devices /\ watched \subseteq Devices /\ old \subseteq watched
    BY DEF DeviceInit
  <2>2. runs \in 0..MaxRuns /\ run \in {NoRun, runs} /\ changes \in 0..MaxChanges
        /\ stalls \in 0..MaxStalls /\ failures \in 0..MaxFailures
    BY DeviceAssumption DEF DeviceInit, NoRun
  <2> QED
    BY <2>1, <2>2 DEF DeviceInit, DeviceTypeOK
<1>2. /\ \A d \in Devices : tasks[d] = NoTask
      /\ \A n \in Tasks : poller[n].st = "none"
      /\ \A k \in Runs : config[k] = Off /\ watch[k] = Off /\ config[k].st = "off" /\ watch[k].st = "off"
      /\ old = {} /\ runs = 0
  BY DEF DeviceInit, NoPoller, Off
<1> QED
  BY <1>1, <1>2 DEF DeviceInv, TableInv, PollersOwned, ConnectInv, UnstartedInv, KeysInv,
     LateInv, Late, Alive
--------------------------------------------------------------------------------
(* Passes of reconcile *)

\* A pass of reconcile up to its next await, in its three cases.
LEMMA GoOnStops ==
  ASSUME NEW k, NEW gone, NEW todo, NEW ts, NEW ps, GoOn(k, gone, todo, ts, ps)
  PROVE  \/ \E d \in gone :
              /\ ts[d] # NoTask
              /\ tasks' = [ts EXCEPT ![d] = NoTask]
              /\ poller' = [ps EXCEPT ![ts[d]] = NoPoller]
              /\ config' = [config EXCEPT ![k] = [st |-> "closing", gone |-> gone \ {d}, todo |-> todo]]
              /\ UNCHANGED <<watched, old, raced>>
         \/ \E d \in todo :
              /\ ts[d] = NoTask /\ tasks' = ts /\ poller' = ps /\ UNCHANGED <<watched, old>>
              /\ config' = [config EXCEPT ![k] = [st |-> "connecting", dev |-> d, todo |-> todo \ {d}]]
              /\ raced' = IF \E j \in Runs \ {k} : config[j].st = "connecting" /\ config[j].dev = d
                            THEN raced \cup {d} ELSE raced
         \/ /\ config' = [config EXCEPT ![k] = Asleep]
            /\ tasks' = ts /\ poller' = ps /\ UNCHANGED <<watched, old, raced>>
BY DEF GoOn, activity

\* Each of the steps of a config loop goes on from tables that are consistent.
Consistent(ts, ps) ==
  /\ ts \in [Devices -> {NoTask} \cup Tasks]
  /\ ps \in [Tasks -> PollerStates]
  /\ \A d \in Devices : ts[d] # NoTask => ps[ts[d]].st # "none" /\ ps[ts[d]].dev = d
  /\ \A n \in Tasks : ps[n].st \in {"new", "on", "stuck"} => ts[ps[n].dev] = n \/ ps[n].dev \in raced

LEMMA ConsistentNow == DeviceInv => Consistent(tasks, poller)
BY LoopTypes DEF DeviceInv, Consistent, TableInv, PollersOwned, Alive

\* The tables after a pass went on.
LEMMA GoOnTables ==
  ASSUME DeviceInv, NEW k \in Runs, NEW gone \in SUBSET Devices, NEW todo \in SUBSET Devices,
         NEW ts, NEW ps, Consistent(ts, ps), GoOn(k, gone, todo, ts, ps)
  PROVE  /\ Consistent(tasks, poller)'
         /\ config' \in [Runs -> ConfigStates]
         /\ raced \subseteq raced' /\ raced' \subseteq Devices
         /\ UNCHANGED <<watched, old>>
         /\ \A n \in Tasks : poller'[n] \in {ps[n], NoPoller}
         /\ \A d \in Devices : tasks'[d] \in {ts[d], NoTask}
<1>1. config \in [Runs -> ConfigStates] /\ raced \subseteq Devices
  BY LoopTypes DEF DeviceInv, DeviceTypeOK
<1>2. ASSUME NEW d \in gone, ts[d] # NoTask,
             tasks' = [ts EXCEPT ![d] = NoTask], poller' = [ps EXCEPT ![ts[d]] = NoPoller],
             config' = [config EXCEPT ![k] = [st |-> "closing", gone |-> gone \ {d}, todo |-> todo]],
             UNCHANGED <<watched, old, raced>>
      PROVE  /\ Consistent(tasks, poller)'
             /\ config' \in [Runs -> ConfigStates]
             /\ \A n \in Tasks : poller'[n] \in {ps[n], NoPoller}
             /\ \A e \in Devices : tasks'[e] \in {ts[e], NoTask}
  <2>1. ts[d] \in Tasks /\ ps[ts[d]].dev = d /\ d \in Devices
    BY <1>2 DEF Consistent
  <2>2. /\ tasks' \in [Devices -> {NoTask} \cup Tasks] /\ poller' \in [Tasks -> PollerStates]
        /\ poller'[ts[d]] = NoPoller /\ \A n \in Tasks : n # ts[d] => poller'[n] = ps[n]
        /\ tasks'[d] = NoTask /\ \A e \in Devices : e # d => tasks'[e] = ts[e]
    BY <1>2, <2>1 DEF Consistent, PollerStates
  <2>3. \A e \in Devices : tasks'[e] # NoTask => poller'[tasks'[e]].st # "none" /\ poller'[tasks'[e]].dev = e
    BY <2>1, <2>2 DEF Consistent
  <2>4. \A n \in Tasks : poller'[n].st \in {"new", "on", "stuck"} =>
                           tasks'[poller'[n].dev] = n \/ poller'[n].dev \in raced'
    <3> SUFFICES ASSUME NEW n \in Tasks, poller'[n].st \in {"new", "on", "stuck"}
                 PROVE  tasks'[poller'[n].dev] = n \/ poller'[n].dev \in raced'
      OBVIOUS
    <3>1. n # ts[d] /\ poller'[n] = ps[n]
      BY <2>2 DEF NoPoller
    <3>2. ps[n].dev \in Devices
      BY <3>1, StatesAre DEF Consistent
    <3> QED
      BY <1>2, <2>2, <3>1, <3>2 DEF Consistent
  <2>5. config' \in [Runs -> ConfigStates]
    BY <1>1, <1>2 DEF ConfigStates
  <2> QED
    BY <2>2, <2>3, <2>4, <2>5 DEF Consistent
<1>3. ASSUME tasks' = ts, poller' = ps, raced \subseteq raced' PROVE Consistent(tasks, poller)'
  BY <1>3 DEF Consistent
<1>4. ASSUME NEW d \in todo,
             config' = [config EXCEPT ![k] = [st |-> "connecting", dev |-> d, todo |-> todo \ {d}]]
      PROVE  config' \in [Runs -> ConfigStates]
  BY <1>1, <1>4 DEF ConfigStates
<1>5. ASSUME config' = [config EXCEPT ![k] = Asleep]
      PROVE  config' \in [Runs -> ConfigStates]
  BY <1>1, <1>5 DEF ConfigStates
<1> QED
  BY <1>1, <1>2, <1>3, <1>4, <1>5, GoOnStops
\* The parts of the type invariant, by the names of this module.
LEMMA TypesThen ==
  ASSUME assigned' \subseteq Devices, raced' \subseteq Devices,
         tasks' \in [Devices -> {NoTask} \cup Tasks], poller' \in [Tasks -> PollerStates],
         watched' \subseteq Devices, old' \subseteq watched',
         config' \in [Runs -> ConfigStates], watch' \in [Runs -> WatchStates],
         runs' \in 0..MaxRuns, run' \in {NoRun, runs'}, changes' \in 0..MaxChanges,
         stalls' \in 0..MaxStalls, failures' \in 0..MaxFailures
  PROVE  DeviceTypeOK'
BY DEF DeviceTypeOK, ConfigStates, WatchStates, PollerStates

LEMMA ConsistentThen ==
  ASSUME Consistent(tasks, poller)'
  PROVE  TableInv' /\ PollersOwned'
BY DEF Consistent, TableInv, PollersOwned, Alive

\* Every step of a config loop that ends a wait goes on from consistent tables: the new
\* task is its device's, and what it displaces belongs to a race.
LEMMA PassGoesOn ==
  ASSUME DeviceInv, NEW k \in Runs,
         Reconcile(k) \/ CloseReturns(k) \/ ConnectReturns(k) \/ ConnectFails(k)
  PROVE  /\ \E gone, todo \in SUBSET Devices :
              \E ts, ps :
                /\ Consistent(ts, ps) /\ GoOn(k, gone, todo, ts, ps)
                /\ \A n \in Tasks : ps[n] = poller[n] \/ ps[n].st = "new"
                /\ \A d \in Devices :
                     ts[d] = tasks[d] \/ (config[k].st = "connecting" /\ config[k].dev = d)
         /\ config[k] # Off
         /\ UNCHANGED <<assigned, watch, run, runs, changes, stalls>>
         /\ failures' \in 0..MaxFailures
<1>1. /\ config[k] \in ConfigStates /\ poller \in [Tasks -> PollerStates]
      /\ tasks \in [Devices -> {NoTask} \cup Tasks] /\ Consistent(tasks, poller)
  BY LoopTypes, ConsistentNow DEF DeviceInv
<1>2. failures \in 0..MaxFailures /\ MaxFailures \in Nat
  BY DeviceAssumption DEF DeviceInv, DeviceTypeOK
<1>3. CASE Reconcile(k)
  <2>1. config[k].devs \in SUBSET Devices /\ (Registered \ config[k].devs) \in SUBSET Devices
    BY <1>1, <1>3, StatesAre DEF Reconcile, Registered
  <2> QED
    BY <1>1, <1>2, <1>3, <2>1 DEF Reconcile, Off
<1>4. CASE CloseReturns(k)
  <2>1. config[k].gone \in SUBSET Devices /\ config[k].todo \in SUBSET Devices
    BY <1>1, <1>4, StatesAre DEF CloseReturns
  <2> QED
    BY <1>1, <1>2, <1>4, <2>1 DEF CloseReturns, Off
<1>5. CASE ConnectFails(k)
  <2>1. config[k].todo \in SUBSET Devices /\ {} \in SUBSET Devices
    BY <1>1, <1>5, StatesAre DEF ConnectFails
  <2>2. failures' \in 0..MaxFailures
    BY <1>2, <1>5 DEF ConnectFails, Failure
  <2> QED
    BY <1>1, <1>5, <2>1, <2>2 DEF ConnectFails, Off
<1>6. CASE ConnectReturns(k)
  <2> DEFINE d == config[k].dev
             n == CHOOSE i \in FreeTasks : \A j \in FreeTasks : i <= j
             ts == [tasks EXCEPT ![d] = n]
             ps == [poller EXCEPT ![n] = [st |-> "new", dev |-> d]]
  <2>1. d \in Devices /\ config[k].todo \in SUBSET Devices /\ {} \in SUBSET Devices
        /\ config[k].st = "connecting"
    BY <1>1, <1>6, StatesAre DEF ConnectReturns
  <2>2. n \in Tasks /\ n # NoTask /\ ~Alive(n) /\ \A e \in Devices : tasks[e] # n
    BY <1>6, NewTask DEF ConnectReturns
  <2>3. GoOn(k, {}, config[k].todo, ts, ps)
    BY <1>6 DEF ConnectReturns
  <2>4. tasks[d] = NoTask \/ d \in raced
    BY <2>1 DEF DeviceInv, ConnectInv
  <2> HIDE DEF n, d
  <2>5. /\ ts \in [Devices -> {NoTask} \cup Tasks] /\ ps \in [Tasks -> PollerStates]
        /\ ts[d] = n /\ \A e \in Devices : e # d => ts[e] = tasks[e]
        /\ ps[n] = [st |-> "new", dev |-> d] /\ \A m \in Tasks : m # n => ps[m] = poller[m]
    BY <1>1, <2>1, <2>2 DEF PollerStates
  <2>6. \A e \in Devices : ts[e] # NoTask => ps[ts[e]].st # "none" /\ ps[ts[e]].dev = e
    BY <1>1, <2>1, <2>2, <2>5 DEF Consistent
  <2>7. \A m \in Tasks : ps[m].st \in {"new", "on", "stuck"} =>
                           ts[ps[m].dev] = m \/ ps[m].dev \in raced
    <3> SUFFICES ASSUME NEW m \in Tasks, ps[m].st \in {"new", "on", "stuck"}, m # n
                 PROVE  ts[ps[m].dev] = m \/ ps[m].dev \in raced
      BY <2>5
    <3>1. ps[m] = poller[m] /\ poller[m].dev \in Devices /\ m # NoTask
      BY <1>1, <2>5, StatesAre, DeviceAssumption DEF Tasks, NoTask
    <3>2. tasks[poller[m].dev] = m \/ poller[m].dev \in raced
      BY <1>1, <3>1 DEF Consistent
    <3> QED
      BY <2>4, <2>5, <3>1, <3>2
  <2>8. Consistent(ts, ps)
    BY <2>5, <2>6, <2>7 DEF Consistent
  <2>9. /\ \A m \in Tasks : ps[m] = poller[m] \/ ps[m].st = "new"
        /\ \A e \in Devices : ts[e] = tasks[e] \/ (config[k].st = "connecting" /\ config[k].dev = e)
    BY <2>1, <2>5 DEF d
  <2>10. config[k] # Off /\ UNCHANGED <<assigned, watch, run, runs, changes, stalls, failures>>
    BY <1>6 DEF ConnectReturns, Off
  <2> HIDE DEF ts, ps
  <2> QED
    BY <1>2, <2>1, <2>3, <2>8, <2>9, <2>10
<1> QED
  BY <1>3, <1>4, <1>5, <1>6

LEMMA PassStep ==
  ASSUME DeviceInv, NEW k \in Runs,
         Reconcile(k) \/ CloseReturns(k) \/ ConnectReturns(k) \/ ConnectFails(k)
  PROVE  DeviceInv'
<1>0. PICK gone \in SUBSET Devices, todo \in SUBSET Devices :
       \E ts, ps :
         /\ Consistent(ts, ps) /\ GoOn(k, gone, todo, ts, ps)
         /\ \A n \in Tasks : ps[n] = poller[n] \/ ps[n].st = "new"
         /\ \A d \in Devices : ts[d] = tasks[d] \/ (config[k].st = "connecting" /\ config[k].dev = d)
  BY PassGoesOn
<1>1. PICK ts, ps :
        /\ Consistent(ts, ps) /\ GoOn(k, gone, todo, ts, ps)
        /\ \A n \in Tasks : ps[n] = poller[n] \/ ps[n].st = "new"
        /\ \A d \in Devices : ts[d] = tasks[d] \/ (config[k].st = "connecting" /\ config[k].dev = d)
  BY <1>0
<1>2. /\ config[k] # Off /\ failures' \in 0..MaxFailures
      /\ UNCHANGED <<assigned, watch, run, runs, changes, stalls>>
  BY PassGoesOn
<1>3. /\ Consistent(tasks, poller)'
      /\ config' \in [Runs -> ConfigStates]
      /\ raced \subseteq raced' /\ raced' \subseteq Devices
      /\ UNCHANGED <<watched, old>>
      /\ \A n \in Tasks : poller'[n] \in {ps[n], NoPoller}
      /\ \A d \in Devices : tasks'[d] \in {ts[d], NoTask}
  BY <1>1, GoOnTables
<1>4. DeviceTypeOK /\ config \in [Runs -> ConfigStates] /\ watch \in [Runs -> WatchStates]
  BY LoopTypes DEF DeviceInv
<1>5. DeviceTypeOK'
  <2>1. tasks' \in [Devices -> {NoTask} \cup Tasks] /\ poller' \in [Tasks -> PollerStates]
    BY <1>3 DEF Consistent
  <2>2. /\ assigned' \subseteq Devices /\ watched' \subseteq Devices /\ old' \subseteq watched'
        /\ runs' \in 0..MaxRuns /\ run' \in {NoRun, runs'} /\ changes' \in 0..MaxChanges
        /\ stalls' \in 0..MaxStalls
    BY <1>2, <1>3, <1>4 DEF DeviceTypeOK
  <2> QED
    BY <1>2, <1>3, <1>4, <2>1, <2>2, TypesThen
<1>6. \A j \in Runs : j # k => config'[j] = config[j]
  BY <1>1, <1>4, GoOnStops
<1>7. ConnectInv'
  <2>1. \A d \in Devices : tasks'[d] # NoTask =>
          tasks'[d] = tasks[d] \/ (config[k].st = "connecting" /\ config[k].dev = d)
    BY <1>1, <1>3
  <2>2. ASSUME NEW j \in Runs, j # k, config'[j].st = "connecting"
        PROVE  tasks'[config'[j].dev] = NoTask \/ config'[j].dev \in raced'
    <3>1. config'[j] = config[j] /\ config[j].dev \in Devices
      BY <1>4, <1>6, <2>2, StatesAre
    <3>2. tasks[config[j].dev] = NoTask \/ config[j].dev \in raced
      BY <2>2, <3>1 DEF DeviceInv, ConnectInv
    <3>3. config[k].st = "connecting" /\ config[k].dev = config[j].dev => config[j].dev \in raced
      BY <2>2, <3>1 DEF DeviceInv, ConnectInv
    <3> QED
      BY <1>3, <2>1, <3>1, <3>2, <3>3
  <2>3. ASSUME config'[k].st = "connecting"
        PROVE  /\ tasks'[config'[k].dev] = NoTask
               /\ \A j \in Runs \ {k} : config'[j].st = "connecting" /\ config'[j].dev = config'[k].dev
                                          => config'[k].dev \in raced'
    <3>1. PICK d \in todo :
            /\ ts[d] = NoTask /\ tasks' = ts
            /\ config' = [config EXCEPT ![k] = [st |-> "connecting", dev |-> d, todo |-> todo \ {d}]]
            /\ raced' = IF \E j \in Runs \ {k} : config[j].st = "connecting" /\ config[j].dev = d
                          THEN raced \cup {d} ELSE raced
      <4>1. config'[k].st # "connecting" \/ config'[k] # Asleep
        BY DEF Asleep
      <4>2. \A d : config' = [config EXCEPT ![k] = [st |-> "closing", gone |-> gone \ {d}, todo |-> todo]]
                     => config'[k].st # "connecting"
        BY <1>4
      <4>3. config' = [config EXCEPT ![k] = Asleep] => config'[k] = Asleep
        BY <1>4
      <4> QED
        BY <1>1, <2>3, <4>1, <4>2, <4>3, GoOnStops DEF Asleep
    <3>2. config'[k].dev = d
      BY <1>4, <3>1
    <3> QED
      BY <1>6, <3>1, <3>2
  <2>4. \A j \in Runs : config'[j].st = "connecting" =>
          tasks'[config'[j].dev] = NoTask \/ config'[j].dev \in raced'
    BY <2>2, <2>3
  <2>5. \A i, j \in Runs : /\ i # j /\ config'[i].st = "connecting" /\ config'[j].st = "connecting"
                           /\ config'[i].dev = config'[j].dev
                           => config'[i].dev \in raced'
    <3>1. \A i, j \in Runs : /\ i # k /\ j # k /\ i # j
                             /\ config'[i].st = "connecting" /\ config'[j].st = "connecting"
                             /\ config'[i].dev = config'[j].dev
                             => config'[i].dev \in raced'
      BY <1>3, <1>6 DEF DeviceInv, ConnectInv
    <3> QED
      BY <2>3, <3>1
  <2> QED
    BY <2>4, <2>5 DEF ConnectInv
<1>8. TableInv' /\ PollersOwned'
  BY <1>3, ConsistentThen
<1>9. UnstartedInv'
  BY <1>2, <1>6 DEF DeviceInv, UnstartedInv
<1>10. KeysInv'
  BY <1>2, <1>3 DEF DeviceInv, KeysInv
<1>11. LateInv'
  <2>1. \A d : Late(d)' => Late(d)
    BY <1>2, <1>3 DEF Late
  <2>2. \A n \in Tasks : poller'[n].st = "on" => poller'[n] = poller[n]
    BY <1>1, <1>3 DEF NoPoller
  <2> QED
    BY <2>1, <2>2 DEF DeviceInv, LateInv
<1> QED
  BY <1>5, <1>7, <1>8, <1>9, <1>10, <1>11 DEF DeviceInv
--------------------------------------------------------------------------------
(* Passes of the watchdog *)

\* What a pass of the watchdog up to its next await does: it removes keys it has listed,
\* and recycles at most one task, of a device that is late and has a connector.
LEMMA ScanStops ==
  ASSUME DeviceInv, NEW k \in Runs, NEW keys \in SUBSET Devices, NEW late \in SUBSET Devices,
         NEW ks \in SUBSET watched, Scan(k, keys, late, ks)
  PROVE  /\ watched' \subseteq ks /\ old' \subseteq watched' /\ old' \subseteq old
         /\ \/ /\ watch' = [watch EXCEPT ![k] = Asleep]
               /\ UNCHANGED <<tasks, poller, run>>
            \/ /\ ~(keys \subseteq ks)
               /\ watch' = [watch EXCEPT ![k] = Off]
               /\ UNCHANGED <<tasks, poller>> /\ run' \in {run, NoRun}
            \/ \E d \in late \cap Devices, rest \in SUBSET Devices :
                 /\ tasks[d] # NoTask
                 /\ poller' = [poller EXCEPT ![tasks[d]] = NoPoller]
                 /\ tasks' = [tasks EXCEPT ![d] = NoTask]
                 /\ watch' = [watch EXCEPT ![k] =
                      [st |-> "closing", dev |-> d, keys |-> rest, late |-> late]]
                 /\ keys \subseteq ks => rest \subseteq watched' \ {d}
                 /\ UNCHANGED run
<1>1. PICK quiet \in SUBSET keys :
        /\ watched' = ks \ (quiet \cap late) /\ old' = old \cap watched'
        /\ \/ /\ watch' = [watch EXCEPT ![k] = Asleep]
              /\ UNCHANGED <<tasks, poller, run>>
           \/ \E d \in keys \ quiet :
                /\ d \notin ks
                /\ watch' = [watch EXCEPT ![k] = Off]
                /\ run' = IF run = k THEN NoRun ELSE run
                /\ UNCHANGED <<tasks, poller>>
           \/ \E d \in keys \ quiet :
                /\ d \in ks \cap late /\ tasks[d] # NoTask
                /\ poller' = [poller EXCEPT ![tasks[d]] = NoPoller]
                /\ tasks' = [tasks EXCEPT ![d] = NoTask]
                /\ watch' = [watch EXCEPT ![k] =
                     [st |-> "closing", dev |-> d, keys |-> keys \ (quiet \cup {d}), late |-> late]]
                /\ UNCHANGED run
  BY DEF Scan, Cancelled
<1>2. CASE \E d \in keys \ quiet :
             /\ d \in ks \cap late /\ tasks[d] # NoTask
             /\ poller' = [poller EXCEPT ![tasks[d]] = NoPoller]
             /\ tasks' = [tasks EXCEPT ![d] = NoTask]
             /\ watch' = [watch EXCEPT ![k] =
                  [st |-> "closing", dev |-> d, keys |-> keys \ (quiet \cup {d}), late |-> late]]
             /\ UNCHANGED run
  <2>1. PICK d \in keys \ quiet :
             /\ d \in ks \cap late /\ tasks[d] # NoTask
             /\ poller' = [poller EXCEPT ![tasks[d]] = NoPoller]
             /\ tasks' = [tasks EXCEPT ![d] = NoTask]
             /\ watch' = [watch EXCEPT ![k] =
                  [st |-> "closing", dev |-> d, keys |-> keys \ (quiet \cup {d}), late |-> late]]
             /\ UNCHANGED run
    BY <1>2
  <2> DEFINE rest == keys \ (quiet \cup {d})
  <2>2. rest \in SUBSET Devices /\ d \in late \cap Devices
    BY <2>1
  <2>3. keys \subseteq ks => rest \subseteq watched' \ {d}
    BY <1>1
  <2>4. watch' = [watch EXCEPT ![k] = [st |-> "closing", dev |-> d, keys |-> rest, late |-> late]]
    BY <2>1
  <2>5. watched' \subseteq ks /\ old' \subseteq watched' /\ old' \subseteq old
    BY <1>1
  <2> HIDE DEF rest
  <2> QED
    BY <2>1, <2>2, <2>3, <2>4, <2>5
<1> QED
  BY <1>1, <1>2

\* What a watchdog takes for late is late: what it listed before it awaited as well.
LEMMA WatchdogScans ==
  ASSUME DeviceInv, NEW k \in Runs, Wake(k) \/ Recycled(k)
  PROVE  /\ \E keys \in SUBSET Devices, late \in SUBSET Devices, ks \in SUBSET watched :
              /\ Scan(k, keys, late, ks)
              /\ \A d \in late : Late(d)
              /\ runs = 1 => keys \subseteq ks
         /\ watch[k] # Off
         /\ UNCHANGED <<assigned, config, raced, runs, changes, stalls, failures>>
<1>1. /\ watch[k] \in WatchStates /\ watched \in SUBSET Devices /\ old \subseteq watched
      /\ runs \in 0..MaxRuns
  BY LoopTypes DEF DeviceInv, DeviceTypeOK
<1>2. ASSUME watch[k] # Off, runs = 1 PROVE k = 1
  BY <1>1, <1>2, DeviceAssumption DEF DeviceInv, UnstartedInv, Runs
<1>3. CASE Wake(k)
  <2>1. old \in SUBSET Devices /\ \A d \in old : Late(d)
    BY <1>1 DEF Late
  <2> QED
    BY <1>1, <1>3, <2>1 DEF Wake, Asleep, Off
<1>4. CASE Recycled(k)
  <2>1. /\ watch[k].st = "closing" /\ watch[k] # Off
        /\ watch[k].keys \in SUBSET Devices /\ watch[k].late \in SUBSET Devices
        /\ watched \ {watch[k].dev} \in SUBSET watched
    BY <1>1, <1>4, StatesAre DEF Recycled, Off
  <2>2. \A d \in watch[k].late : Late(d)
    BY <2>1 DEF Late
  <2>3. runs = 1 => watch[k].keys \subseteq watched \ {watch[k].dev}
    BY <1>2, <2>1 DEF DeviceInv, KeysInv
  <2>4. Scan(k, watch[k].keys, watch[k].late, watched \ {watch[k].dev})
        /\ UNCHANGED <<assigned, config, raced, runs, changes, stalls, failures>>
    BY <1>4 DEF Recycled
  <2> QED
    BY <2>1, <2>2, <2>3, <2>4
<1> QED
  BY <1>3, <1>4

LEMMA ScanStep ==
  ASSUME DeviceInv, NEW k \in Runs, Wake(k) \/ Recycled(k)
  PROVE  /\ DeviceInv'
         /\ \A n \in Tasks : poller[n].st = "on" /\ poller[n].dev \notin Slow =>
                               poller'[n] = poller[n]
<1>1. PICK keys \in SUBSET Devices, late \in SUBSET Devices, ks \in SUBSET watched :
        /\ Scan(k, keys, late, ks)
        /\ \A d \in late : Late(d)
        /\ runs = 1 => keys \subseteq ks
  BY WatchdogScans
<1>2. watch[k] # Off /\ UNCHANGED <<assigned, config, raced, runs, changes, stalls, failures>>
  BY WatchdogScans
<1>3. /\ config \in [Runs -> ConfigStates] /\ watch \in [Runs -> WatchStates]
      /\ poller \in [Tasks -> PollerStates] /\ tasks \in [Devices -> {NoTask} \cup Tasks]
      /\ DeviceTypeOK /\ Consistent(tasks, poller)
  BY LoopTypes, ConsistentNow DEF DeviceInv
<1>4. watched' \subseteq ks /\ old' \subseteq watched' /\ old' \subseteq old
  BY <1>1, ScanStops
<1> DEFINE Recycling(d, rest) ==
             /\ tasks[d] # NoTask
             /\ poller' = [poller EXCEPT ![tasks[d]] = NoPoller]
             /\ tasks' = [tasks EXCEPT ![d] = NoTask]
             /\ watch' = [watch EXCEPT ![k] =
                  [st |-> "closing", dev |-> d, keys |-> rest, late |-> late]]
             /\ keys \subseteq ks => rest \subseteq watched' \ {d}
             /\ UNCHANGED run
<1>5. \/ watch' = [watch EXCEPT ![k] = Asleep] /\ UNCHANGED <<tasks, poller, run>>
      \/ /\ ~(keys \subseteq ks)
         /\ watch' = [watch EXCEPT ![k] = Off]
         /\ UNCHANGED <<tasks, poller>> /\ run' \in {run, NoRun}
      \/ \E d \in late \cap Devices, rest \in SUBSET Devices : Recycling(d, rest)
  BY <1>1, ScanStops
\* The pass stops the task of no device, or of one that is late.
<1>6. /\ Consistent(tasks, poller)'
      /\ \A e \in Devices : tasks'[e] \in {tasks[e], NoTask}
      /\ \A n \in Tasks : poller'[n] = poller[n]
                          \/ (poller'[n] = NoPoller /\ poller[n].dev \in late)
      /\ run' \in {run, NoRun}
  <2>1. CASE UNCHANGED <<tasks, poller>> /\ run' \in {run, NoRun}
    BY <1>2, <1>3, <2>1 DEF Consistent
  <2>2. ASSUME NEW d \in late \cap Devices, NEW rest \in SUBSET Devices, Recycling(d, rest)
        PROVE  /\ Consistent(tasks, poller)'
               /\ \A e \in Devices : tasks'[e] \in {tasks[e], NoTask}
               /\ \A n \in Tasks : poller'[n] = poller[n]
                                   \/ (poller'[n] = NoPoller /\ poller[n].dev \in late)
               /\ run' \in {run, NoRun}
    <3>1. tasks[d] \in Tasks /\ poller[tasks[d]].dev = d
      BY <1>3, <2>2 DEF Consistent
    <3>2. /\ tasks' \in [Devices -> {NoTask} \cup Tasks] /\ poller' \in [Tasks -> PollerStates]
          /\ poller'[tasks[d]] = NoPoller /\ \A n \in Tasks : n # tasks[d] => poller'[n] = poller[n]
          /\ tasks'[d] = NoTask /\ \A e \in Devices : e # d => tasks'[e] = tasks[e]
      BY <1>3, <2>2, <3>1 DEF PollerStates
    <3>3. \A e \in Devices : tasks'[e] # NoTask =>
                               poller'[tasks'[e]].st # "none" /\ poller'[tasks'[e]].dev = e
      BY <1>3, <3>1, <3>2 DEF Consistent
    <3>4. \A n \in Tasks : poller'[n].st \in {"new", "on", "stuck"} =>
                             tasks'[poller'[n].dev] = n \/ poller'[n].dev \in raced'
      <4> SUFFICES ASSUME NEW n \in Tasks, poller'[n].st \in {"new", "on", "stuck"}
                   PROVE  tasks'[poller'[n].dev] = n \/ poller'[n].dev \in raced'
        OBVIOUS
      <4>1. n # tasks[d] /\ poller'[n] = poller[n]
        BY <3>2 DEF NoPoller
      <4>2. poller[n].dev \in Devices
        BY <1>3, <4>1, StatesAre
      <4> QED
        BY <1>2, <1>3, <3>2, <4>1, <4>2 DEF Consistent
    <3>5. \A n \in Tasks : poller'[n] = poller[n]
                           \/ (poller'[n] = NoPoller /\ poller[n].dev \in late)
      BY <3>1, <3>2
    <3> QED
      BY <2>2, <3>2, <3>3, <3>4, <3>5 DEF Consistent
  <2> HIDE DEF Recycling
  <2> QED
    BY <1>5, <2>1, <2>2
<1>7. watch' \in [Runs -> WatchStates] /\ \A j \in Runs : j # k => watch'[j] = watch[j]
  <2>1. \A w \in WatchStates : [watch EXCEPT ![k] = w] \in [Runs -> WatchStates]
    BY <1>3
  <2>2. Asleep \in WatchStates /\ Off \in WatchStates
    BY DEF WatchStates
  <2>3. \A d \in Devices, rest \in SUBSET Devices :
          [st |-> "closing", dev |-> d, keys |-> rest, late |-> late] \in WatchStates
    BY DEF WatchStates
  <2>4. PICK w \in WatchStates : watch' = [watch EXCEPT ![k] = w]
    BY <1>5, <2>2, <2>3
  <2> QED
    BY <1>3, <2>1, <2>4
<1>8. DeviceTypeOK'
  <2>1. tasks' \in [Devices -> {NoTask} \cup Tasks] /\ poller' \in [Tasks -> PollerStates]
    BY <1>6 DEF Consistent
  <2>2. /\ assigned' \subseteq Devices /\ raced' \subseteq Devices
        /\ watched' \subseteq Devices /\ old' \subseteq watched'
        /\ runs' \in 0..MaxRuns /\ run' \in {NoRun, runs'} /\ changes' \in 0..MaxChanges
        /\ stalls' \in 0..MaxStalls /\ failures' \in 0..MaxFailures
    BY <1>2, <1>3, <1>4, <1>6 DEF DeviceTypeOK
  <2> QED
    BY <1>2, <1>3, <1>7, <2>1, <2>2, TypesThen
<1>9. TableInv' /\ PollersOwned'
  BY <1>6, ConsistentThen
<1>10. ConnectInv'
  <2>1. \A j \in Runs : config[j].st = "connecting" => config[j].dev \in Devices
    BY <1>3, StatesAre
  <2> QED
    BY <1>2, <1>6, <2>1 DEF DeviceInv, ConnectInv
<1>11. UnstartedInv'
  BY <1>2, <1>7 DEF DeviceInv, UnstartedInv
<1>12. KeysInv'
  <2> SUFFICES ASSUME runs = 1
               PROVE  /\ watch'[1] # Off
                      /\ watch'[1].st = "closing" => watch'[1].keys \subseteq watched' \ {watch'[1].dev}
    BY <1>2 DEF KeysInv
  <2>1. k = 1
    BY <1>2, DeviceAssumption DEF DeviceInv, UnstartedInv, Runs
  <2>2. CASE watch' = [watch EXCEPT ![k] = Asleep]
    BY <1>3, <2>1, <2>2 DEF Asleep, Off
  <2>3. ASSUME NEW d \in late \cap Devices, NEW rest \in SUBSET Devices, Recycling(d, rest)
        PROVE  /\ watch'[1] # Off
               /\ watch'[1].st = "closing" => watch'[1].keys \subseteq watched' \ {watch'[1].dev}
    BY <1>1, <1>2, <1>3, <2>1, <2>3 DEF Off
  <2> HIDE DEF Recycling
  <2> QED
    BY <1>1, <1>2, <1>5, <2>2, <2>3
<1>13. LateInv'
  <2>1. \A d : Late(d)' => Late(d)
    <3>1. \A j \in Runs : \A d : watch'[j].st = "closing" /\ d \in watch'[j].late => Late(d)
      <4>1. \A d : watch'[k].st = "closing" /\ d \in watch'[k].late => d \in late
        BY <1>3, <1>5 DEF Asleep, Off
      <4> QED
        BY <1>1, <1>7, <4>1 DEF Late
    <3> QED
      BY <1>4, <3>1 DEF Late
  <2>2. \A n \in Tasks : poller'[n].st = "on" => poller'[n] = poller[n]
    BY <1>6 DEF NoPoller
  <2> QED
    BY <2>1, <2>2 DEF DeviceInv, LateInv
<1>14. \A n \in Tasks : poller[n].st = "on" /\ poller[n].dev \notin Slow => poller'[n] = poller[n]
  <2> SUFFICES ASSUME NEW n \in Tasks, poller[n].st = "on", poller[n].dev \in late
               PROVE  poller[n].dev \in Slow
    BY <1>6
  <2>1. poller[n].dev \in Devices /\ Late(poller[n].dev)
    BY <1>1
  <2> QED
    BY <2>1 DEF DeviceInv, LateInv
<1> QED
  BY <1>8, <1>9, <1>10, <1>11, <1>12, <1>13, <1>14 DEF DeviceInv
--------------------------------------------------------------------------------
(* Polling tasks, and the steps that leave the tables alone *)

LEMMA PollStep ==
  ASSUME DeviceInv, NEW n \in Tasks, Poll(n)
  PROVE  /\ DeviceInv'
         /\ \A m \in Tasks : poller[m].st = "on" => poller'[m] = poller[m]
<1> DEFINE d == poller[n].dev
<1>1. /\ config \in [Runs -> ConfigStates] /\ watch \in [Runs -> WatchStates]
      /\ poller \in [Tasks -> PollerStates] /\ tasks \in [Devices -> {NoTask} \cup Tasks]
      /\ DeviceTypeOK
  BY LoopTypes DEF DeviceInv
<1>2. /\ poller[n].st \in {"new", "on", "stuck"}
      /\ poller' = [poller EXCEPT ![n].st = "on"]
      /\ watched' = watched \cup {d} /\ old' = old \ {d}
      /\ watch' = [k \in Runs |-> IF watch[k].st = "closing"
                                    THEN [watch[k] EXCEPT !.late = @ \ {d}] ELSE watch[k]]
      /\ UNCHANGED <<assigned, tasks, config, run, raced, runs, changes, stalls, failures>>
  BY DEF Poll
<1>3. poller[n] \in [st : {"new", "on", "stuck", "dead"}, dev : Devices] /\ d \in Devices
  BY <1>1, <1>2, StatesAre
<1>4. /\ poller'[n] = [st |-> "on", dev |-> d]
      /\ \A m \in Tasks : m # n => poller'[m] = poller[m]
      /\ poller' \in [Tasks -> PollerStates]
  BY <1>1, <1>2, <1>3 DEF PollerStates
<1>5. \A k \in Runs : IF watch[k].st = "closing"
        THEN watch'[k] = [st |-> "closing", dev |-> watch[k].dev, keys |-> watch[k].keys,
                          late |-> watch[k].late \ {d}]
        ELSE watch'[k] = watch[k]
  <2> SUFFICES ASSUME NEW k \in Runs, watch[k].st = "closing"
               PROVE  watch'[k] = [st |-> "closing", dev |-> watch[k].dev, keys |-> watch[k].keys,
                                   late |-> watch[k].late \ {d}]
    BY <1>2
  <2>1. watch[k] \in [st : {"closing"}, dev : Devices, keys : SUBSET Devices, late : SUBSET Devices]
    BY <1>1, StatesAre
  <2>2. watch'[k] = [watch[k] EXCEPT !.late = @ \ {d}]
    BY <1>2
  <2> QED
    BY <2>1, <2>2
<1>6. watch' \in [Runs -> WatchStates]
  <2>1. \A k \in Runs : watch'[k] \in WatchStates
    <3> SUFFICES ASSUME NEW k \in Runs, watch[k].st = "closing" PROVE watch'[k] \in WatchStates
      BY <1>1, <1>5
    <3>1. watch[k].dev \in Devices /\ watch[k].keys \in SUBSET Devices
          /\ watch[k].late \ {d} \in SUBSET Devices
      BY <1>1, StatesAre
    <3>2. \A e \in Devices, keys, late \in SUBSET Devices :
            [st |-> "closing", dev |-> e, keys |-> keys, late |-> late] \in WatchStates
      BY DEF WatchStates
    <3> QED
      BY <1>5, <3>1, <3>2
  <2> QED
    BY <1>2, <2>1
<1> HIDE DEF d
<1>7. DeviceTypeOK'
  <2>1. /\ assigned' \subseteq Devices /\ raced' \subseteq Devices
        /\ tasks' \in [Devices -> {NoTask} \cup Tasks]
        /\ watched' \subseteq Devices /\ old' \subseteq watched'
        /\ runs' \in 0..MaxRuns /\ run' \in {NoRun, runs'} /\ changes' \in 0..MaxChanges
        /\ stalls' \in 0..MaxStalls /\ failures' \in 0..MaxFailures
    BY <1>1, <1>2, <1>3 DEF DeviceTypeOK
  <2> QED
    BY <1>1, <1>2, <1>4, <1>6, <2>1, TypesThen
<1>8. \A m \in Tasks : poller'[m].dev = poller[m].dev \/ poller[m].st = "none"
  BY <1>4 DEF d
<1>9. TableInv'
  <2> SUFFICES ASSUME NEW e \in Devices, tasks[e] # NoTask
               PROVE  poller'[tasks[e]].st # "none" /\ poller'[tasks[e]].dev = e
    BY <1>2 DEF TableInv
  <2>1. tasks[e] \in Tasks /\ poller[tasks[e]].st # "none" /\ poller[tasks[e]].dev = e
    BY <1>1 DEF DeviceInv, TableInv
  <2>2. poller'[tasks[e]].st # "none"
    BY <1>4, <2>1
  <2> QED
    BY <1>8, <2>1, <2>2
<1>10. PollersOwned'
  <2>1. \A m \in Tasks : (poller'[m].dev = poller[m].dev /\ Alive(m)) \/ ~Alive(m)'
    BY <1>2, <1>3, <1>4 DEF Alive, d
  <2> QED
    BY <1>2, <2>1 DEF DeviceInv, PollersOwned
<1>11. ConnectInv'
  BY <1>2 DEF DeviceInv, ConnectInv
<1>12. UnstartedInv'
  BY <1>2, <1>5 DEF DeviceInv, UnstartedInv, Off
<1>13. KeysInv'
  <2> SUFFICES ASSUME runs = 1
               PROVE  /\ watch'[1] # Off
                      /\ watch'[1].st = "closing" => watch'[1].keys \subseteq watched' \ {watch'[1].dev}
    BY <1>2 DEF KeysInv
  <2>1. 1 \in Runs
    BY <1>1, DeviceAssumption DEF DeviceTypeOK, Runs
  <2> QED
    BY <1>2, <1>5, <2>1 DEF DeviceInv, KeysInv, Off
<1>14. LateInv'
  <2>1. \A e : Late(e)' => Late(e) /\ e # d
    BY <1>2, <1>5 DEF Late
  <2>2. \A m \in Tasks : poller'[m].st = "on" /\ poller'[m].dev # d => poller'[m] = poller[m]
    BY <1>4
  <2> QED
    BY <2>1, <2>2 DEF DeviceInv, LateInv
<1>15. \A m \in Tasks : poller[m].st = "on" => poller'[m] = poller[m]
  BY <1>3, <1>4 DEF d
<1> QED
  BY <1>7, <1>9, <1>10, <1>11, <1>12, <1>13, <1>14, <1>15 DEF DeviceInv

LEMMA StallStep ==
  ASSUME DeviceInv, NEW n \in Tasks, Stall(n)
  PROVE  DeviceInv'
<1>1. /\ config \in [Runs -> ConfigStates] /\ watch \in [Runs -> WatchStates]
      /\ poller \in [Tasks -> PollerStates] /\ tasks \in [Devices -> {NoTask} \cup Tasks]
      /\ DeviceTypeOK
  BY LoopTypes DEF DeviceInv
<1>2. PICK st \in {"stuck", "dead"} : poller' = [poller EXCEPT ![n].st = st]
  BY DEF Stall
<1>3. /\ poller[n].st = "on" /\ stalls < MaxStalls /\ stalls' = stalls + 1
      /\ UNCHANGED <<assigned, tasks, raced, changes, failures, watched, old, config, watch, run, runs>>
  BY DEF Stall, activity, loops
<1>4. poller[n] \in [st : {"new", "on", "stuck", "dead"}, dev : Devices]
  BY <1>1, <1>3, StatesAre
<1>5. /\ poller'[n] = [st |-> st, dev |-> poller[n].dev]
      /\ \A m \in Tasks : m # n => poller'[m] = poller[m]
      /\ poller' \in [Tasks -> PollerStates]
  BY <1>1, <1>2, <1>4 DEF PollerStates
<1>6. DeviceTypeOK'
  <2>1. stalls' \in 0..MaxStalls
    BY <1>1, <1>3, DeviceAssumption DEF DeviceTypeOK
  <2>2. /\ assigned' \subseteq Devices /\ raced' \subseteq Devices
        /\ watched' \subseteq Devices /\ old' \subseteq watched'
        /\ runs' \in 0..MaxRuns /\ run' \in {NoRun, runs'} /\ changes' \in 0..MaxChanges
        /\ failures' \in 0..MaxFailures
    BY <1>1, <1>3 DEF DeviceTypeOK
  <2> QED
    BY <1>1, <1>3, <1>5, <2>1, <2>2, TypesThen
<1>7. TableInv'
  <2> SUFFICES ASSUME NEW e \in Devices, tasks[e] # NoTask
               PROVE  poller'[tasks[e]].st # "none" /\ poller'[tasks[e]].dev = e
    BY <1>3 DEF TableInv
  <2>1. tasks[e] \in Tasks /\ poller[tasks[e]].st # "none" /\ poller[tasks[e]].dev = e
    BY <1>1 DEF DeviceInv, TableInv
  <2> QED
    BY <1>5, <2>1
<1>8. PollersOwned'
  BY <1>3, <1>5 DEF DeviceInv, PollersOwned, Alive
<1>9. ConnectInv' /\ UnstartedInv' /\ KeysInv'
  BY <1>3 DEF DeviceInv, ConnectInv, UnstartedInv, KeysInv
<1>10. LateInv'
  <2>1. \A e : Late(e)' <=> Late(e)
    BY <1>3 DEF Late
  <2>2. \A m \in Tasks : poller'[m].st = "on" => poller'[m] = poller[m]
    BY <1>5
  <2> QED
    BY <2>1, <2>2 DEF DeviceInv, LateInv
<1> QED
  BY <1>6, <1>7, <1>8, <1>9, <1>10 DEF DeviceInv

\* The steps of the environment, of time and of the loops that leave the tables alone.
QuietStep ==
  \/ \E d \in Devices : ChangeAssignment(d) \/ GoesOld(d)
  \/ \E k \in Runs : Fetch(k) \/ PassFails(k)
  \/ StartRun \/ RunEnds

LEMMA QuietTypes ==
  ASSUME DeviceInv, QuietStep
  PROVE  /\ DeviceTypeOK'
         /\ config' \in [Runs -> ConfigStates] /\ watch' \in [Runs -> WatchStates]
<1>1. /\ config \in [Runs -> ConfigStates] /\ watch \in [Runs -> WatchStates]
      /\ poller \in [Tasks -> PollerStates] /\ tasks \in [Devices -> {NoTask} \cup Tasks]
      /\ DeviceTypeOK
  BY LoopTypes DEF DeviceInv
<1>2. poller' \in [Tasks -> PollerStates] /\ tasks' \in [Devices -> {NoTask} \cup Tasks]
      /\ UNCHANGED raced /\ UNCHANGED stalls /\ UNCHANGED watched
  BY <1>1 DEF QuietStep, ChangeAssignment, GoesOld, Fetch, PassFails, StartRun, RunEnds,
     registry, activity
<1>3. assigned' \subseteq Devices /\ changes' \in 0..MaxChanges
  BY <1>1, DeviceAssumption DEF DeviceTypeOK, QuietStep, ChangeAssignment, GoesOld, Fetch, PassFails,
     StartRun, RunEnds
<1>4. old' \subseteq watched'
  BY <1>1, <1>2 DEF DeviceTypeOK, QuietStep, ChangeAssignment, GoesOld, Fetch, PassFails,
     StartRun, RunEnds, activity
<1>5. failures' \in 0..MaxFailures
  BY <1>1, DeviceAssumption DEF DeviceTypeOK, QuietStep, ChangeAssignment, GoesOld, Fetch, PassFails,
     StartRun, RunEnds, Failure
<1>6. runs' \in 0..MaxRuns /\ run' \in {NoRun, runs'}
  BY <1>1, DeviceAssumption DEF DeviceTypeOK, QuietStep, ChangeAssignment, GoesOld, Fetch, PassFails,
     StartRun, RunEnds, loops
<1>7. config' \in [Runs -> ConfigStates]
  <2>1. Asleep \in ConfigStates /\ [st |-> "fetched", devs |-> assigned] \in ConfigStates
    BY <1>1 DEF ConfigStates, DeviceTypeOK
  <2>2. \/ config' = config
        \/ \E k : \E c \in ConfigStates : config' = [config EXCEPT ![k] = c]
    BY <2>1 DEF QuietStep, ChangeAssignment, GoesOld, Fetch, PassFails, StartRun, RunEnds, loops
  <2> QED
    BY <1>1, <2>2
<1>8. watch' \in [Runs -> WatchStates]
  <2>1. Asleep \in WatchStates
    BY DEF WatchStates
  <2>2. watch' = watch \/ \E k : watch' = [watch EXCEPT ![k] = Asleep]
    BY DEF QuietStep, ChangeAssignment, GoesOld, Fetch, PassFails, StartRun, RunEnds, loops
  <2> QED
    BY <1>1, <2>1, <2>2
<1> QED
  BY <1>1, <1>2, <1>3, <1>4, <1>5, <1>6, <1>7, <1>8, TypesThen DEF DeviceTypeOK

LEMMA QuietStepInv ==
  ASSUME DeviceInv, QuietStep
  PROVE  /\ DeviceInv'
         /\ UNCHANGED poller
<1>1. /\ config \in [Runs -> ConfigStates] /\ watch \in [Runs -> WatchStates]
      /\ DeviceTypeOK /\ DeviceTypeOK'
  BY LoopTypes, QuietTypes DEF DeviceInv
<1>2. UNCHANGED <<tasks, poller, raced, watched>>
  BY DEF QuietStep, ChangeAssignment, GoesOld, Fetch, PassFails, StartRun, RunEnds,
     registry, activity
<1>3. TableInv' /\ PollersOwned'
  BY <1>2 DEF DeviceInv, TableInv, PollersOwned, Alive
<1>4. \A k \in Runs : config'[k].st = "connecting" => config'[k] = config[k]
  BY <1>1 DEF QuietStep, ChangeAssignment, GoesOld, Fetch, PassFails, StartRun, RunEnds, loops, Asleep
<1>5. ConnectInv'
  BY <1>2, <1>4 DEF DeviceInv, ConnectInv
<1>6. ASSUME StartRun PROVE UnstartedInv' /\ KeysInv' /\ LateInv'
  <2>1. /\ runs' = runs + 1 /\ runs \in Nat /\ runs + 1 \in Runs
        /\ config' = [config EXCEPT ![runs + 1] = Asleep]
        /\ watch' = [watch EXCEPT ![runs + 1] = Asleep]
        /\ UNCHANGED old
    BY <1>1, <1>6, DeviceAssumption DEF StartRun, DeviceTypeOK, Runs, activity
  <2>2. UnstartedInv'
    BY <1>1, <2>1, DeviceAssumption DEF DeviceInv, UnstartedInv, Runs
  <2>3. KeysInv'
    BY <1>1, <2>1 DEF KeysInv, Asleep, Off
  <2>4. \A e : Late(e)' => Late(e)
    BY <1>1, <2>1 DEF Late, Asleep
  <2>5. LateInv'
    BY <1>2, <2>4 DEF DeviceInv, LateInv
  <2> QED
    BY <2>2, <2>3, <2>5
<1>7. ASSUME ~StartRun PROVE UnstartedInv' /\ KeysInv' /\ LateInv'
  <2>1. UNCHANGED <<watch, runs>>
    BY <1>7 DEF QuietStep, ChangeAssignment, GoesOld, Fetch, PassFails, RunEnds, loops
  <2>2. UnstartedInv'
    <3>1. \A k \in Runs : config[k] = Off => config'[k] = Off
      BY <1>1, <1>7 DEF QuietStep, ChangeAssignment, GoesOld, Fetch, PassFails, RunEnds, loops, Off, Asleep
    <3> QED
      BY <2>1, <3>1 DEF DeviceInv, UnstartedInv
  <2>3. KeysInv'
    BY <1>2, <2>1 DEF DeviceInv, KeysInv
  <2>4. \A d \in Devices : d \in old' => d \in old \/ d \in Slow
          \/ \A n \in Tasks : poller[n].st = "on" => poller[n].dev # d
    BY <1>7 DEF QuietStep, ChangeAssignment, GoesOld, Fetch, PassFails, RunEnds, activity
  <2>5. LateInv'
    BY <1>2, <2>1, <2>4 DEF DeviceInv, LateInv, Late
  <2> QED
    BY <2>2, <2>3, <2>5
<1> QED
  BY <1>1, <1>2, <1>3, <1>5, <1>6, <1>7 DEF DeviceInv
--------------------------------------------------------------------------------
(* The theorems *)

LEMMA DeviceNextInv == DeviceInv /\ [DeviceNext]_deviceVars => DeviceInv'
<1> SUFFICES ASSUME DeviceInv, [DeviceNext]_deviceVars PROVE DeviceInv'
  OBVIOUS
<1>1. CASE QuietStep
  BY <1>1, QuietStepInv
<1>2. ASSUME NEW n \in Tasks, Poll(n) PROVE DeviceInv'
  BY <1>2, PollStep
<1>3. ASSUME NEW n \in Tasks, Stall(n) PROVE DeviceInv'
  BY <1>3, StallStep
<1>4. ASSUME NEW k \in Runs,
             Reconcile(k) \/ CloseReturns(k) \/ ConnectReturns(k) \/ ConnectFails(k)
      PROVE  DeviceInv'
  BY <1>4, PassStep
<1>5. ASSUME NEW k \in Runs, Wake(k) \/ Recycled(k) PROVE DeviceInv'
  BY <1>5, ScanStep
<1>6. CASE UNCHANGED deviceVars
  BY <1>6 DEF deviceVars, DeviceInv, DeviceTypeOK, TableInv, PollersOwned, ConnectInv,
     UnstartedInv, KeysInv, LateInv, Late, Alive
<1> QED
  BY <1>1, <1>2, <1>3, <1>4, <1>5, <1>6 DEF DeviceNext, QuietStep

\* The inductive invariant of device management: the tables agree, a loop that comes back
\* from an await finds what it relies on, and what a watchdog takes for stalled is.
THEOREM DeviceInvariance == DeviceSpec => []DeviceInv
BY DeviceInitInv, DeviceNextInv, PTL DEF DeviceSpec

\* Every variable of the gateway's device management keeps its type.
THEOREM DeviceTypes == DeviceSpec => []DeviceTypeOK
<1>1. DeviceInv => DeviceTypeOK
  BY DEF DeviceInv
<1> QED
  BY <1>1, DeviceInvariance, PTL

\* A task that goes on polling is the one in device_tasks, where reconcile and the watchdog
\* can cancel it, unless two config loops were connecting to its device at once.
THEOREM PollersAreOwned == DeviceSpec => []PollersOwned
<1>1. DeviceInv => PollersOwned
  BY DEF DeviceInv
<1> QED
  BY <1>1, DeviceInvariance, PTL

\* While the first run is the only one, its watchdog never ends with a missing key.
THEOREM FirstWatchdogLives == DeviceSpec => []FirstWatchdogSurvives
<1>1. DeviceInv => FirstWatchdogSurvives
  BY DEF DeviceInv, KeysInv, FirstWatchdogSurvives
<1> QED
  BY <1>1, DeviceInvariance, PTL

LEMMA HealthyStep ==
  ASSUME DeviceInv, [DeviceNext]_deviceVars, watch' # watch,
         NEW n \in Tasks, poller[n].st = "on", poller[n].dev \notin Slow
  PROVE  poller'[n] = poller[n]
<1>1. CASE QuietStep
  BY <1>1, QuietStepInv
<1>2. ASSUME NEW m \in Tasks, Poll(m) PROVE poller'[n] = poller[n]
  BY <1>2, PollStep
<1>3. ASSUME NEW m \in Tasks, Stall(m) PROVE FALSE
  BY <1>3 DEF Stall, loops
<1>4. ASSUME NEW k \in Runs,
             Reconcile(k) \/ CloseReturns(k) \/ ConnectReturns(k) \/ ConnectFails(k)
      PROVE  FALSE
  BY <1>4 DEF Reconcile, CloseReturns, ConnectReturns, ConnectFails
<1>5. ASSUME NEW k \in Runs, Wake(k) \/ Recycled(k) PROVE poller'[n] = poller[n]
  BY <1>5, ScanStep
<1>6. CASE UNCHANGED deviceVars
  BY <1>6 DEF deviceVars
<1> QED
  BY <1>1, <1>2, <1>3, <1>4, <1>5, <1>6 DEF DeviceNext, QuietStep

\* No step of a watchdog cancels a task that had a round within the threshold, although it
\* decides who is stalled before it awaits the closing of others.
THEOREM HealthyKept == DeviceSpec => HealthyNotRecycled
<1>1. DeviceInv /\ [DeviceNext]_deviceVars =>
        [watch' # watch =>
           \A n \in Tasks : poller[n].st = "on" /\ poller[n].dev \notin Slow =>
                              poller'[n] = poller[n]]_deviceVars
  BY HealthyStep
<1> QED
  BY <1>1, DeviceInvariance, PTL DEF DeviceSpec, HealthyNotRecycled
================================================================================
