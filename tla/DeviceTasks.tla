------------------------------ MODULE DeviceTasks ------------------------------
(***************************************************************************)
(* Device management in the edge gateway (edge-gateway/gateway/main.py):   *)
(* config_poll_loop with reconcile, watchdog_loop, and the polling tasks   *)
(* that both create and cancel.                                            *)
(*                                                                         *)
(* All of it runs on one asyncio loop, so a step of this module is what a  *)
(* loop does between two awaits.  Every connection to the broker starts a  *)
(* config loop and a watchdog, and nothing stops those of the connections  *)
(* before it: pair k is the one that run k started.                        *)
(*                                                                         *)
(* device_tasks and connectors are written together, with no await between *)
(* the two: tasks stands for both.  Time is abstracted to whether the last *)
(* activity of a device is more than STALL_THRESHOLD_SECONDS ago.          *)
(***************************************************************************)
EXTENDS Naturals, FiniteSets

CONSTANTS
  Devices,     \* devices that may be assigned to this gateway
  Unknown,     \* devices whose protocol has no connector; the API takes any string
  Slow,        \* devices with a poll interval longer than the stall threshold
  MaxTasks,    \* bound: polling tasks at a time
  MaxRuns,     \* bound: connections to the broker
  MaxChanges,  \* bound: changes of the assignment
  MaxStalls,   \* bound: polling tasks that stop making progress, or die
  MaxFailures  \* bound: failures to fetch, to connect to a device or to close it

ASSUME DeviceAssumption ==
  /\ Unknown \subseteq Devices /\ Slow \subseteq Devices
  /\ MaxTasks \in Nat /\ MaxRuns \in Nat /\ MaxChanges \in Nat
  /\ MaxStalls \in Nat /\ MaxFailures \in Nat

VARIABLES
  assigned, \* external: the active devices of this gateway in the backend's table
  tasks,    \* device_tasks (and connectors): the polling task of each device, or NoTask
  poller,   \* poller[n]: where polling task n stands
  watched,  \* the keys of last_activity
  old,      \* those whose value is more than the threshold ago
  config,   \* config[k]: where the config loop of run k stands
  watch,    \* watch[k]: where the watchdog of run k stands
  run,      \* the run that main() awaits, or NoRun
  raced,    \* history: devices that two config loops were connecting to at once
  runs, changes, stalls, failures

deviceVars == <<assigned, tasks, poller, watched, old, config, watch, run, raced,
                runs, changes, stalls, failures>>
registry == <<tasks, poller>>
activity == <<watched, old>>
loops == <<config, watch, run, runs>>

NoTask == 0
NoRun == 0
Tasks == 1..MaxTasks
Runs == 1..MaxRuns

NoPoller == [st |-> "none"]
Off == [st |-> "off"]
Asleep == [st |-> "idle"]

Registered == {d \in Devices : tasks[d] # NoTask}

\* Tasks that go on polling their device, or have yet to begin.
Alive(n) == poller[n].st \in {"new", "on", "stuck"}

DeviceTypeOK ==
  /\ assigned \subseteq Devices /\ raced \subseteq Devices
  /\ tasks \in [Devices -> {NoTask} \cup Tasks]
  /\ poller \in [Tasks -> {NoPoller} \cup [st : {"new", "on", "stuck", "dead"}, dev : Devices]]
  /\ watched \subseteq Devices /\ old \subseteq watched
  /\ config \in [Runs -> {Off, Asleep} \cup [st : {"fetched"}, devs : SUBSET Devices]
                    \cup [st : {"closing"}, gone : SUBSET Devices, todo : SUBSET Devices]
                    \cup [st : {"connecting"}, dev : Devices, todo : SUBSET Devices]]
  /\ watch \in [Runs -> {Off, Asleep} \cup
                   [st : {"closing"}, dev : Devices, keys : SUBSET Devices, late : SUBSET Devices]]
  /\ runs \in 0..MaxRuns /\ run \in {NoRun, runs}
  /\ changes \in 0..MaxChanges /\ stalls \in 0..MaxStalls /\ failures \in 0..MaxFailures

DeviceInit ==
  /\ assigned = {} /\ raced = {}
  /\ tasks = [d \in Devices |-> NoTask] /\ poller = [n \in Tasks |-> NoPoller]
  /\ watched = {} /\ old = {}
  /\ config = [k \in Runs |-> Off] /\ watch = [k \in Runs |-> Off]
  /\ run = NoRun /\ runs = 0 /\ changes = 0 /\ stalls = 0 /\ failures = 0
--------------------------------------------------------------------------------
(* The environment *)

\* External: a device is onboarded, or leaves the gateway's configuration.
ChangeAssignment(d) ==
  /\ changes < MaxChanges
  /\ changes' = changes + 1
  /\ assigned' = IF d \in assigned THEN assigned \ {d} ELSE assigned \cup {d}
  /\ UNCHANGED <<raced, stalls, failures>>
  /\ UNCHANGED registry /\ UNCHANGED activity /\ UNCHANGED loops

Failure == failures < MaxFailures /\ failures' = failures + 1
--------------------------------------------------------------------------------
(* Gateway.poll_device *)

\* A wrong variant: the watchdog decides before its first close who is stalled.
PollUnseen(n) ==
  /\ poller[n].st \in {"new", "on", "stuck"}
  /\ poller' = [poller EXCEPT ![n].st = "on"]
  /\ watched' = watched \cup {poller[n].dev} /\ old' = old \ {poller[n].dev}
  /\ UNCHANGED <<assigned, tasks, raced, changes, stalls, failures>> /\ UNCHANGED loops

\* A task begins a round: it is alive, whatever held it up in the round before.
Poll(n) ==
  /\ poller[n].st \in {"new", "on", "stuck"}
  /\ LET d == poller[n].dev
     IN  /\ poller' = [poller EXCEPT ![n].st = "on"]
         /\ watched' = watched \cup {d} /\ old' = old \ {d}
         /\ watch' = [k \in Runs |-> IF watch[k].st = "closing"
                                       THEN [watch[k] EXCEPT !.late = @ \ {d}] ELSE watch[k]]
  /\ UNCHANGED <<assigned, tasks, config, run, raced, runs, changes, stalls, failures>>

\* A wrong variant: a task that dies takes its entry of last_activity with it.
StallForgets(n) ==
  /\ poller[n].st = "on" /\ stalls < MaxStalls
  /\ stalls' = stalls + 1
  /\ \/ /\ poller' = [poller EXCEPT ![n].st = "dead"]
        /\ watched' = watched \ {poller[n].dev} /\ old' = old \ {poller[n].dev}
     \/ /\ poller' = [poller EXCEPT ![n].st = "stuck"]
        /\ UNCHANGED activity
  /\ UNCHANGED <<assigned, tasks, raced, changes, failures>> /\ UNCHANGED loops

\* A read or a publish does not come back, or raises: a reading that JSON cannot hold.
Stall(n) ==
  /\ poller[n].st = "on" /\ stalls < MaxStalls
  /\ stalls' = stalls + 1
  /\ \E st \in {"stuck", "dead"} : poller' = [poller EXCEPT ![n].st = st]
  /\ UNCHANGED <<assigned, tasks, raced, changes, failures>>
  /\ UNCHANGED activity /\ UNCHANGED loops

\* A wrong variant: a device counts as old before its task has begun a round.
GoesOldUnseen(d) ==
  /\ d \in (Registered \cup watched) \ old
  /\ d \in Slow \/ \A n \in Tasks : poller[n].st = "on" => poller[n].dev # d
  /\ old' = old \cup {d}
  /\ UNCHANGED <<assigned, watched, raced, changes, stalls, failures>>
  /\ UNCHANGED registry /\ UNCHANGED loops

\* The threshold passes without a round of any of the device's tasks.
GoesOld(d) ==
  /\ d \in watched \ old
  /\ d \in Slow \/ \A n \in Tasks : poller[n].st = "on" => poller[n].dev # d
  /\ old' = old \cup {d}
  /\ UNCHANGED <<assigned, watched, raced, changes, stalls, failures>>
  /\ UNCHANGED registry /\ UNCHANGED loops
--------------------------------------------------------------------------------
(* Gateway.config_poll_loop and Gateway.reconcile *)

Fetch(k) ==
  /\ config[k] = Asleep
  /\ config' = [config EXCEPT ![k] = [st |-> "fetched", devs |-> assigned]]
  /\ UNCHANGED <<assigned, watch, run, raced, runs, changes, stalls, failures>>
  /\ UNCHANGED registry /\ UNCHANGED activity

\* Pass k of reconcile goes on up to its next await, from tables ts and ps, with the
\* devices it still has to stop and those it still has to look at.  A device that another
\* loop has stopped meanwhile, or a protocol without a connector, ends the pass.
GoOn(k, gone, todo, ts, ps) ==
  \/ \E d \in gone :
       /\ ts[d] # NoTask
       /\ tasks' = [ts EXCEPT ![d] = NoTask]
       /\ poller' = [ps EXCEPT ![ts[d]] = NoPoller]
       /\ config' = [config EXCEPT ![k] = [st |-> "closing", gone |-> gone \ {d}, todo |-> todo]]
       /\ UNCHANGED activity /\ UNCHANGED raced
  \/ /\ gone = {}
     /\ \E d \in todo \ Unknown :
          /\ ts[d] = NoTask
          /\ config' = [config EXCEPT ![k] = [st |-> "connecting", dev |-> d, todo |-> todo \ {d}]]
          /\ raced' = IF \E j \in Runs \ {k} : config[j].st = "connecting" /\ config[j].dev = d
                        THEN raced \cup {d} ELSE raced
     /\ tasks' = ts /\ poller' = ps /\ UNCHANGED activity
  \/ /\ \/ \E d \in gone : ts[d] = NoTask
        \/ gone = {} /\ \E d \in todo \cap Unknown : ts[d] = NoTask
        \/ gone = {} /\ \A d \in todo : ts[d] # NoTask
     /\ config' = [config EXCEPT ![k] = Asleep]
     /\ tasks' = ts /\ poller' = ps /\ UNCHANGED activity /\ UNCHANGED raced

Reconcile(k) ==
  /\ config[k].st = "fetched"
  /\ GoOn(k, Registered \ config[k].devs, config[k].devs, tasks, poller)
  /\ UNCHANGED <<assigned, watch, run, runs, changes, stalls, failures>>

CloseReturns(k) ==
  /\ config[k].st = "closing"
  /\ GoOn(k, config[k].gone, config[k].todo, tasks, poller)
  /\ UNCHANGED <<assigned, watch, run, runs, changes, stalls, failures>>

FreeTasks == {n \in Tasks : ~Alive(n) /\ \A d \in Devices : tasks[d] # n}

\* The device answers: its task is created, over whatever the table has for it.
ConnectReturns(k) ==
  /\ config[k].st = "connecting" /\ FreeTasks # {}
  /\ LET d == config[k].dev
         n == CHOOSE i \in FreeTasks : \A j \in FreeTasks : i <= j
     IN  GoOn(k, {}, config[k].todo, [tasks EXCEPT ![d] = n],
              [poller EXCEPT ![n] = [st |-> "new", dev |-> d]])
  /\ UNCHANGED <<assigned, watch, run, runs, changes, stalls, failures>>

ConnectFails(k) ==
  /\ config[k].st = "connecting" /\ Failure
  /\ GoOn(k, {}, config[k].todo, tasks, poller)
  /\ UNCHANGED <<assigned, watch, run, runs, changes, stalls>>

\* A wrong variant: an exception of a pass ends the loop.
PassEndsLoop(k) ==
  /\ config[k].st \in {"fetched", "closing"} /\ Failure
  /\ config' = [config EXCEPT ![k] = Off]
  /\ UNCHANGED <<assigned, watch, run, raced, runs, changes, stalls>>
  /\ UNCHANGED registry /\ UNCHANGED activity

\* The backend cannot be reached, or close() raises: the loop sleeps until its next pass.
PassFails(k) ==
  /\ config[k].st \in {"fetched", "closing"} /\ Failure
  /\ config' = [config EXCEPT ![k] = Asleep]
  /\ UNCHANGED <<assigned, watch, run, raced, runs, changes, stalls>>
  /\ UNCHANGED registry /\ UNCHANGED activity
--------------------------------------------------------------------------------
(* Gateway.watchdog_loop *)

\* A wrong variant: the task is taken out of the table and not cancelled.
Uncancelled(n) == poller

\* task.cancel()
Cancelled(n) == [poller EXCEPT ![n] = NoPoller]

\* Pass k of the watchdog goes on up to its next await: among the keys it listed, those
\* with an activity since, and those without a connector to close, take no await.  A key
\* that another watchdog has removed raises; nothing in the loop catches it, and main()
\* starts a new run if it was awaiting this one.
Scan(k, keys, late, ks) ==
  \E quiet \in SUBSET keys :
    LET kept == ks \ (quiet \cap late)
    IN  /\ \A d \in quiet : d \in ks /\ (d \notin late \/ tasks[d] = NoTask)
        /\ watched' = kept /\ old' = old \cap kept
        /\ \/ /\ quiet = keys
              /\ watch' = [watch EXCEPT ![k] = Asleep]
              /\ UNCHANGED <<tasks, poller, run>>
           \/ \E d \in keys \ quiet :
                /\ d \notin ks
                /\ watch' = [watch EXCEPT ![k] = Off]
                /\ run' = IF run = k THEN NoRun ELSE run
                /\ UNCHANGED <<tasks, poller>>
           \/ \E d \in keys \ quiet :
                /\ d \in ks \cap late /\ tasks[d] # NoTask
                /\ poller' = Cancelled(tasks[d])
                /\ tasks' = [tasks EXCEPT ![d] = NoTask]
                /\ watch' = [watch EXCEPT ![k] =
                     [st |-> "closing", dev |-> d, keys |-> keys \ (quiet \cup {d}), late |-> late]]
                /\ UNCHANGED run

Wake(k) ==
  /\ watch[k] = Asleep
  /\ Scan(k, watched, old, watched)
  /\ UNCHANGED <<assigned, config, raced, runs, changes, stalls, failures>>

\* close() returns, raises or is given up after 5 s; then the activity is removed.
Recycled(k) ==
  /\ watch[k].st = "closing"
  /\ Scan(k, watch[k].keys, watch[k].late, watched \ {watch[k].dev})
  /\ UNCHANGED <<assigned, config, raced, runs, changes, stalls, failures>>
--------------------------------------------------------------------------------
(* Gateway.run and main *)

StartRun ==
  /\ run = NoRun /\ runs < MaxRuns
  /\ runs' = runs + 1 /\ run' = runs + 1
  /\ config' = [config EXCEPT ![runs + 1] = Asleep]
  /\ watch' = [watch EXCEPT ![runs + 1] = Asleep]
  /\ UNCHANGED <<assigned, raced, changes, stalls, failures>>
  /\ UNCHANGED registry /\ UNCHANGED activity

\* The connection to the broker breaks; the loops of the run are not cancelled.
RunEnds ==
  /\ run # NoRun
  /\ run' = NoRun
  /\ UNCHANGED <<assigned, config, watch, raced, runs, changes, stalls, failures>>
  /\ UNCHANGED registry /\ UNCHANGED activity

DeviceNext ==
  \/ \E d \in Devices : ChangeAssignment(d) \/ GoesOld(d)
  \/ \E n \in Tasks : Poll(n) \/ Stall(n)
  \/ \E k \in Runs : \/ Fetch(k) \/ Reconcile(k) \/ CloseReturns(k) \/ ConnectReturns(k)
                     \/ ConnectFails(k) \/ PassFails(k) \/ Wake(k) \/ Recycled(k)
  \/ StartRun \/ RunEnds

DeviceSpec == DeviceInit /\ [][DeviceNext]_deviceVars

\* Sleeps end, a fetch and an attempt to connect or to close come back, a new task begins,
\* time passes for a device that nobody polls, and main() connects again.
DeviceFairness ==
  /\ \A k \in Runs : /\ WF_deviceVars(Fetch(k)) /\ WF_deviceVars(Reconcile(k))
                     /\ WF_deviceVars(CloseReturns(k)) /\ WF_deviceVars(ConnectReturns(k))
                     /\ WF_deviceVars(Wake(k)) /\ WF_deviceVars(Recycled(k))
  /\ \A n \in Tasks : WF_deviceVars(poller[n].st = "new" /\ Poll(n))
  /\ \A d \in Devices : WF_deviceVars(GoesOld(d))
  /\ WF_deviceVars(StartRun)

DeviceFairSpec == DeviceSpec /\ DeviceFairness
--------------------------------------------------------------------------------
(* Properties *)

\* A task that goes on polling is the one in device_tasks, where it can be cancelled,
\* through every overlap of reconcile and watchdog; only two config loops that connect to
\* one device at once leave a task to itself.
PollersOwned ==
  \A n \in Tasks : Alive(n) => tasks[poller[n].dev] = n \/ poller[n].dev \in raced

\* As long as there is one watchdog, no other task takes a key from under it.
FirstWatchdogSurvives == runs = 1 => watch[1] # Off

\* The watchdog recycles no task that had a round within the threshold, also if that round
\* came after the pass listed its keys.
HealthyNotRecycled ==
  [][watch' # watch =>
       \A n \in Tasks : poller[n].st = "on" /\ poller[n].dev \notin Slow =>
                          poller'[n] = poller[n]]_deviceVars

Served(d) == tasks[d] # NoTask /\ poller[tasks[d]].st = "on"

\* A device goes live after it was onboarded, and is no longer polled after it left.
TasksFollowAssignment ==
  \A d \in Devices : /\ d \in assigned ~> Served(d) \/ d \notin assigned
                     /\ d \notin assigned ~> d \notin Registered \/ d \in assigned

\* A task that stops making progress is noticed and recycled, or comes back by itself.
StalledIsRecycled ==
  \A n \in Tasks : poller[n].st = "stuck" ~> poller[n].st # "stuck"
================================================================================
