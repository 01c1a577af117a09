--------------------------------- MODULE Ingest ---------------------------------
(***************************************************************************)
(* The backend's ingest task (backend/app/mqtt_ingest.py): one MQTT        *)
(* subscription, and one task that takes its messages in turn, stores the  *)
(* readings of each in one transaction, pushes them to the dashboards and  *)
(* evaluates the alert rules on them.                                      *)
(*                                                                         *)
(* A message is the batch of readings of one device at one timestamp; the  *)
(* table's primary key is (time, device, tag), so a second copy of a       *)
(* message is refused.  The subscription is QoS 0 with a clean session:    *)
(* what the broker publishes while nobody is subscribed is gone.           *)
(***************************************************************************)
EXTENDS Naturals, Sequences, FiniteSets

CONSTANTS
  Messages,      \* the batches of readings
  Unstorable,    \* batches the table refuses: two readings of the same tag, a wrong type
  MaxSubscribes, \* bound: successful subscriptions
  MaxArrivals,   \* bound: deliveries by the broker, copies included
  MaxFaults,     \* bound: failures of the database
  MaxCrashes     \* bound: crashes of the backend

ASSUME IngestAssumption ==
  /\ Unstorable \subseteq Messages
  /\ MaxSubscribes \in Nat /\ MaxArrivals \in Nat /\ MaxFaults \in Nat /\ MaxCrashes \in Nat

VARIABLES
  sub,        \* the subscription: "off", "up" or "broken"
  queue,      \* client.messages: delivered and not yet taken by the loop
  task,       \* the message in the loop's hands, and where _handle_reading stands
  readings,   \* messages whose rows are in the table "readings"
  evaluated,  \* evaluated[m]: times m was pushed and its alert rules evaluated
  faultsOf,   \* history: faultsOf[m]: failures of the database while storing m
  dropped,    \* history: messages given up after the last attempt
  unheard,    \* history: messages published while nobody was subscribed
  cut,        \* history: messages thrown away with a connection or with the process
  unsure,     \* history: messages stored by a commit that was reported as failed
  subscribes, arrivals, faults, crashes

storeVars == <<readings, faultsOf, dropped, unsure, faults>>
ingestVars == <<sub, queue, task, readings, evaluated, faultsOf, dropped, unheard, cut,
                unsure, subscribes, arrivals, faults, crashes>>

Attempts == 3
NoMessage == [st |-> "idle", attempt |-> 0]
Busy(s, m, n) == [st |-> s, msg |-> m, attempt |-> n]
InHand == IF task = NoMessage THEN {} ELSE {task.msg}
Queued == {queue[i] : i \in DOMAIN queue}

IngestTypeOK ==
  /\ sub \in {"off", "up", "broken"}
  /\ queue \in Seq(Messages) /\ Len(queue) <= arrivals
  /\ \/ task = NoMessage
     \/ \E m \in Messages, n \in 1..Attempts :
          task = Busy("push", m, n) \/ (n < Attempts /\ task = Busy("sleep", m, n))
  /\ \A set \in {readings, dropped, unheard, cut, unsure} : set \subseteq Messages
  /\ evaluated \in [Messages -> Nat] /\ faultsOf \in [Messages -> Nat]
  /\ subscribes \in 0..MaxSubscribes /\ arrivals \in 0..MaxArrivals
  /\ faults \in 0..MaxFaults /\ crashes \in 0..MaxCrashes
  /\ sub = "off" => queue = <<>> /\ task = NoMessage

IngestInit ==
  /\ sub = "off" /\ queue = <<>> /\ task = NoMessage
  /\ readings = {} /\ evaluated = [m \in Messages |-> 0] /\ faultsOf = [m \in Messages |-> 0]
  /\ dropped = {} /\ unheard = {} /\ cut = {} /\ unsure = {}
  /\ subscribes = 0 /\ arrivals = 0 /\ faults = 0 /\ crashes = 0
--------------------------------------------------------------------------------
(* ingest_loop and its connection *)

Subscribe ==
  /\ sub = "off" /\ subscribes < MaxSubscribes
  /\ sub' = "up" /\ subscribes' = subscribes + 1
  /\ UNCHANGED <<queue, task, evaluated, unheard, cut, arrivals, crashes>> /\ UNCHANGED storeVars

\* External: the broker hands a published message to its subscriber, if there is one.
Publish(m) ==
  /\ arrivals < MaxArrivals
  /\ arrivals' = arrivals + 1
  /\ IF sub = "up" THEN queue' = Append(queue, m) /\ UNCHANGED unheard
                   ELSE unheard' = unheard \cup {m} /\ UNCHANGED queue
  /\ UNCHANGED <<sub, task, evaluated, cut, subscribes, crashes>> /\ UNCHANGED storeVars

\* External: the connection of the subscription breaks.
SubscriptionBreaks ==
  /\ sub = "up"
  /\ sub' = "broken"
  /\ UNCHANGED <<queue, task, evaluated, unheard, cut, subscribes, arrivals, crashes>>
  /\ UNCHANGED storeVars

\* A wrong variant: the break cancels the handling of the message in hand.
CutsMessageInHand ==
  /\ sub = "broken"
  /\ sub' = "off" /\ queue' = <<>> /\ task' = NoMessage /\ cut' = cut \cup Queued
  /\ UNCHANGED <<evaluated, unheard, subscribes, arrivals, crashes>> /\ UNCHANGED storeVars

\* A wrong variant: the queue outlives its connection.
KeepsQueue ==
  /\ sub = "broken" /\ task = NoMessage
  /\ sub' = "off"
  /\ UNCHANGED <<queue, cut, task, evaluated, unheard, subscribes, arrivals, crashes>>
  /\ UNCHANGED storeVars

\* The message iterator raises, once the message in hand is done: the client is left
\* with whatever it still queues, and the loop sleeps before it connects again.
IterationEnds ==
  /\ sub = "broken" /\ task = NoMessage
  /\ sub' = "off" /\ queue' = <<>> /\ cut' = cut \cup Queued
  /\ UNCHANGED <<task, evaluated, unheard, subscribes, arrivals, crashes>> /\ UNCHANGED storeVars
--------------------------------------------------------------------------------
(* _handle_reading *)

\* A wrong variant: rows are written with ON CONFLICT DO UPDATE.
Upserted(m) == m \notin Unstorable

\* The transaction can commit: every row has a key of its own.
Insertable(m) == m \notin Unstorable /\ m \notin readings

\* A wrong variant: the last attempt is the one before range(1, 4) ends.
FailsOneEarly(m, n) ==
  IF n >= Attempts - 1
    THEN task' = NoMessage /\ dropped' = dropped \cup {m}
    ELSE task' = Busy("sleep", m, n) /\ UNCHANGED dropped

\* A wrong variant: the attempts are not counted.
FailsForEver(m, n) ==
  IF n = Attempts + 1
    THEN task' = NoMessage /\ dropped' = dropped \cup {m}
    ELSE task' = Busy("sleep", m, 1) /\ UNCHANGED dropped

\* Attempt n at message m fails: sleep before the next one, or drop the batch.
Fails(m, n) ==
  IF n = Attempts
    THEN task' = NoMessage /\ dropped' = dropped \cup {m}
    ELSE task' = Busy("sleep", m, n) /\ UNCHANGED dropped

\* Attempt n at message m, up to the next await.  A database failure may be reported
\* for a transaction that did commit.
Attempt(m, n) ==
  \/ /\ Insertable(m)
     /\ readings' = readings \cup {m}
     /\ task' = Busy("push", m, n)
     /\ UNCHANGED <<dropped, faults, faultsOf, unsure>>
  \/ /\ ~Insertable(m)
     /\ Fails(m, n)
     /\ UNCHANGED <<readings, faults, faultsOf, unsure>>
  \/ /\ faults < MaxFaults
     /\ faults' = faults + 1 /\ faultsOf' = [faultsOf EXCEPT ![m] = @ + 1]
     /\ Fails(m, n)
     /\ \/ UNCHANGED <<readings, unsure>>
        \/ Insertable(m) /\ readings' = readings \cup {m} /\ unsure' = unsure \cup {m}

TakeMessage ==
  /\ task = NoMessage /\ sub # "off" /\ queue # <<>>
  /\ queue' = Tail(queue)
  /\ Attempt(Head(queue), 1)
  /\ UNCHANGED <<sub, evaluated, unheard, cut, subscribes, arrivals, crashes>>

Retry ==
  /\ task.st = "sleep"
  /\ Attempt(task.msg, task.attempt + 1)
  /\ UNCHANGED <<sub, queue, evaluated, unheard, cut, subscribes, arrivals, crashes>>

\* broadcast returns, and the alert rules are evaluated on the readings (AlertEngine).
PushAndEvaluate ==
  /\ task.st = "push"
  /\ evaluated' = [evaluated EXCEPT ![task.msg] = @ + 1]
  /\ task' = NoMessage
  /\ UNCHANGED <<sub, queue, unheard, cut, subscribes, arrivals, crashes>> /\ UNCHANGED storeVars

\* The backend dies and starts again: its queue and the message in hand are gone.
Crash ==
  /\ crashes < MaxCrashes /\ sub # "off"
  /\ crashes' = crashes + 1
  /\ sub' = "off" /\ queue' = <<>> /\ task' = NoMessage
  /\ cut' = cut \cup Queued \cup InHand
  /\ UNCHANGED <<evaluated, unheard, subscribes, arrivals>> /\ UNCHANGED storeVars

\* A step of the backend by itself.
IngestStep ==
  \/ Subscribe \/ SubscriptionBreaks \/ IterationEnds
  \/ TakeMessage \/ Retry \/ PushAndEvaluate \/ Crash

IngestNext == IngestStep \/ \E m \in Messages : Publish(m)

IngestSpec == IngestInit /\ [][IngestNext]_ingestVars

\* The loop goes on: a sleep, a push and the handling of a message end, and it connects
\* again after every failure.
IngestFairness ==
  WF_ingestVars(Subscribe) /\ WF_ingestVars(IterationEnds) /\ WF_ingestVars(TakeMessage)
    /\ WF_ingestVars(Retry) /\ WF_ingestVars(PushAndEvaluate)

IngestFairSpec == IngestSpec /\ IngestFairness
--------------------------------------------------------------------------------
(* Properties *)

\* A message is pushed and evaluated at most once, and only when its rows are in the
\* table: copies delivered again by the gateway's replay raise no alert twice.
EvaluatedOnceStored ==
  \A m \in Messages : evaluated[m] <= (IF m \in readings THEN 1 ELSE 0)

\* A stored message is evaluated too, unless its commit was reported as failed or the
\* process died before the evaluation.
StoredIsEvaluated ==
  \A m \in readings \ InHand : evaluated[m] = 1 \/ m \in unsure \cup cut

\* Only as many failures of the database as there are attempts make the backend drop a
\* batch that the table would take.
TransientFaultsTolerated ==
  \A m \in dropped \ (Unstorable \cup readings) : faultsOf[m] >= Attempts

\* The inductive invariant behind these: a message being pushed is stored and not yet
\* evaluated, and a storable one that awaits a retry met a fault at every attempt so far.
IngestInv ==
  /\ IngestTypeOK
  /\ EvaluatedOnceStored
  /\ TransientFaultsTolerated
  /\ \A m \in readings : \/ task.st = "push" /\ task.msg = m
                         \/ evaluated[m] = 1
                         \/ m \in unsure \cup cut
  /\ task.st = "push" => task.msg \in readings /\ evaluated[task.msg] = 0
  /\ task.st = "sleep" /\ task.msg \notin Unstorable \cup readings =>
       faultsOf[task.msg] >= task.attempt

\* A batch that is refused again and again holds the others up only for its attempts:
\* what is queued is taken by the loop or thrown away with the connection.
QueueMoves == \A m \in Messages : m \in Queued ~> m \notin Queued
================================================================================
