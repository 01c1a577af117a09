-------------------------------- MODULE DataPath --------------------------------
(***************************************************************************)
(* A reading's way from the gateway to the store: GatewayBuffer and Ingest *)
(* with the broker between them.  What the broker takes from the gateway   *)
(* (in a publish of a polling task, in a replay, or late) it hands to the  *)
(* backend's subscription in the same step.  The two connections break and *)
(* come back on their own: the gateway retries every 5 s, the backend      *)
(* every 3 s, and after an outage either may be first.                     *)
(***************************************************************************)
EXTENDS Naturals, Sequences, FiniteSets

CONSTANTS Devices, MaxReadings, MaxConnects, MaxStalls, MaxHangs, MaxRestarts, BatchLimit,
          Unstorable, MaxSubscribes, MaxArrivals, MaxFaults, MaxCrashes

VARIABLES taken, poll, flush, buffer, nextId, client, link, late, accepted, lost,
          connects, stalls, hangs, restarts,
          sub, queue, task, readings, evaluated, faultsOf, dropped, unheard, cut, unsure,
          subscribes, arrivals, faults, crashes

G == INSTANCE GatewayBuffer
I == INSTANCE Ingest WITH Messages <- G!Readings

ASSUME DataAssumption == G!GatewayAssumption /\ I!IngestAssumption

gatewayVars == <<taken, poll, flush, buffer, nextId, client, link, late, accepted, lost,
                 connects, stalls, hangs, restarts>>
backendVars == <<sub, queue, task, readings, evaluated, faultsOf, dropped, unheard, cut,
                 unsure, subscribes, arrivals, faults, crashes>>
dataVars == <<taken, poll, flush, buffer, nextId, client, link, late, accepted, lost,
              connects, stalls, hangs, restarts, sub, queue, task, readings, evaluated,
              faultsOf, dropped, unheard, cut, unsure, subscribes, arrivals, faults, crashes>>

Init == G!Init /\ I!IngestInit

\* The gateway's own steps.
GatewayStep ==
  \/ \E d \in Devices : \/ G!PollPublish(d) \/ G!PollAcked(d) \/ G!PollFails(d)
                        \/ G!StartPolling(d) \/ G!CancelPolling(d)
  \/ \E k \in G!Loops : \/ G!FlushStart(k) \/ G!FlushAcked(k) \/ G!FlushFails(k) \/ G!FlushHangs(k)
  \/ G!LinkDown \/ G!Connect \/ G!RunFails \/ G!Restart

\* The broker takes reading r from the gateway.
BrokerAccepts(r) ==
  \/ \E d \in Devices : r = G!Newest(d) /\ G!AcceptFromPoll(d)
  \/ \E k \in G!Loops : /\ G!AcceptFromFlush(k)
                        /\ \E row \in flush[k].batch :
                             G!Oldest(row, flush[k].batch) /\ r = row.msg
  \/ G!AcceptLate(r)

\* The broker takes a reading and publishes it.
Handover(r) == BrokerAccepts(r) /\ I!Publish(r)

Next ==
  \/ GatewayStep /\ UNCHANGED backendVars
  \/ I!IngestStep /\ UNCHANGED gatewayVars
  \/ \E r \in G!Readings : Handover(r)

Spec == Init /\ [][Next]_dataVars

\* A running system: both connections are up and every device is polled.
RunningInit ==
  /\ taken = [d \in Devices |-> 0] /\ buffer = {} /\ nextId = 1
  /\ poll = [d \in Devices |-> G!Resting]
  /\ connects = 1 /\ client = 1 /\ link = 1
  /\ flush = [k \in G!Loops |-> IF k = 1 THEN G!Asleep ELSE G!NoLoop]
  /\ late = {} /\ accepted = {} /\ lost = {} /\ stalls = 0 /\ hangs = 0 /\ restarts = 0
  /\ sub = "up" /\ subscribes = 1 /\ queue = <<>> /\ task = I!NoMessage
  /\ readings = {} /\ dropped = {} /\ unheard = {} /\ cut = {} /\ unsure = {}
  /\ evaluated = [r \in G!Readings |-> 0] /\ faultsOf = [r \in G!Readings |-> 0]
  /\ arrivals = 0 /\ faults = 0 /\ crashes = 0

RunningSpec == RunningInit /\ [][Next]_dataVars

FairSpec ==
  /\ Spec
  /\ \A d \in Devices : /\ WF_dataVars(G!PollAcked(d) /\ UNCHANGED backendVars)
                        /\ WF_dataVars(G!PollFails(d) /\ UNCHANGED backendVars)
  /\ \A k \in G!Loops : /\ WF_dataVars(G!FlushStart(k) /\ UNCHANGED backendVars)
                        /\ WF_dataVars(G!FlushAcked(k) /\ UNCHANGED backendVars)
                        /\ WF_dataVars(G!FlushFails(k) /\ UNCHANGED backendVars)
  /\ WF_dataVars(\E r \in G!Readings : Handover(r))
  /\ WF_dataVars((G!RunFails \/ G!Connect) /\ UNCHANGED backendVars)
  /\ WF_dataVars((I!Subscribe \/ I!IterationEnds) /\ UNCHANGED gatewayVars)
  /\ WF_dataVars((I!TakeMessage \/ I!Retry \/ I!PushAndEvaluate) /\ UNCHANGED gatewayVars)
--------------------------------------------------------------------------------
(* Properties *)

\* The backend has the reading, or has it in hand, or dropped it with a log line.
Arrived == readings \cup I!Queued \cup I!InHand \cup dropped

\* A reading that a device produced can be told from one that vanished: the gateway
\* holds it, it was lost with its task, it arrived, nobody was subscribed when the
\* broker published it, or it was cut off with the subscription that carried it.
EveryReadingAccountedFor ==
  G!Taken \subseteq G!Held \cup lost \cup Arrived \cup unheard \cup cut

\* However often the gateway replays a reading (a lost acknowledgement, two flush loops
\* on one batch, a publish that arrives after its timeout), it is evaluated at most once
\* and appears once in the table.
ReplayedReadingEvaluatedOnce == \A r \in G!Readings : evaluated[r] <= 1

\* From any moment on at which both connections stay up and the current replay does not
\* hang, what the buffer holds and the broker has not taken yet is replayed, and stored
\* unless the table refuses it, whatever restarts and crashes came before.
ReplayReachesStore ==
  \A r \in G!Readings :
    (/\ r \in G!Buffered \ accepted
     /\ [](link # 0 /\ flush[link].st # "hung" /\ sub = "up")) ~> (r \in readings \cup dropped)

\* An outage of the broker loses no reading that was in the buffer: a row leaves it only
\* when the backend has the reading.
BufferedReadingSurvives ==
  [][\A row \in buffer : row \notin buffer' => row.msg \in Arrived]_dataVars
================================================================================
