----------------------------- MODULE DataPathProofs -----------------------------
(***************************************************************************)
(* Proofs about a reading's way from the gateway to the store, for any     *)
(* devices, outages, replays, restarts, faults and crashes: no reading     *)
(* vanishes between the two, and no replay is evaluated twice.             *)
(*                                                                         *)
(* The proof composes what GatewayBufferProofs and IngestProofs prove of   *)
(* the two sides: every behaviour of the data path is a behaviour of each, *)
(* so each keeps its inductive invariant, and what is left to show is that *)
(* nothing is lost in the handover between them.                           *)
(***************************************************************************)
EXTENDS DataPath, SequenceTheorems, TLAPS

Gateway == INSTANCE GatewayBufferProofs
Backend == INSTANCE IngestProofs WITH Messages <- G!Readings

\* What the broker took from the gateway arrived, or is one of the backend's own losses.
HandedOver == accepted \subseteq Arrived \cup unheard \cup cut
--------------------------------------------------------------------------------
(* The data path takes the steps of each side *)

LEMMA GatewaySteps == G!Next => Gateway!Next
<1> USE DEF
      G!NoClient, Gateway!NoClient, G!Loops, Gateway!Loops, G!Readings, Gateway!Readings,
      G!Rows, Gateway!Rows, G!NoTask, Gateway!NoTask, G!Resting, Gateway!Resting, G!NoLoop,
      Gateway!NoLoop, G!Asleep, Gateway!Asleep, G!Awaiting, Gateway!Awaiting, G!NewRowId,
      Gateway!NewRowId, G!Enqueue, Gateway!Enqueue, G!Oldest, Gateway!Oldest, G!Remaining,
      Gateway!Remaining, G!Newest, Gateway!Newest, G!PublishRaises, Gateway!PublishRaises,
      G!Abandon, Gateway!Abandon, G!pathVars, Gateway!pathVars, G!linkVars, Gateway!linkVars
<1>1. G!PendingBatch = Gateway!PendingBatch
  BY DEF G!PendingBatch, Gateway!PendingBatch, G!Cardinality, Gateway!Cardinality
<1>2. \A d \in Devices : G!PollPublish(d) => Gateway!PollPublish(d)
  BY DEF G!PollPublish, Gateway!PollPublish
<1>3. \A d \in Devices : G!PollAcked(d) => Gateway!PollAcked(d)
  BY DEF G!PollAcked, Gateway!PollAcked
<1>4. \A d \in Devices : G!PollFails(d) => Gateway!PollFails(d)
  BY DEF G!PollFails, Gateway!PollFails
<1>5. \A d \in Devices : G!StartPolling(d) => Gateway!StartPolling(d)
  BY DEF G!StartPolling, Gateway!StartPolling
<1>6. \A d \in Devices : G!CancelPolling(d) => Gateway!CancelPolling(d)
  BY DEF G!CancelPolling, Gateway!CancelPolling
<1>7. \A d \in Devices : G!AcceptFromPoll(d) => Gateway!AcceptFromPoll(d)
  BY DEF G!AcceptFromPoll, Gateway!AcceptFromPoll
<1>8. \A k \in G!Loops : G!FlushStart(k) => Gateway!FlushStart(k)
  BY <1>1 DEF G!FlushStart, Gateway!FlushStart
<1>9. \A k \in G!Loops : G!FlushAcked(k) => Gateway!FlushAcked(k)
  BY DEF G!FlushAcked, Gateway!FlushAcked
<1>10. \A k \in G!Loops : G!FlushFails(k) => Gateway!FlushFails(k)
  BY DEF G!FlushFails, Gateway!FlushFails
<1>11. \A k \in G!Loops : G!FlushHangs(k) => Gateway!FlushHangs(k)
  BY DEF G!FlushHangs, Gateway!FlushHangs
<1>12. \A k \in G!Loops : G!AcceptFromFlush(k) => Gateway!AcceptFromFlush(k)
  BY DEF G!AcceptFromFlush, Gateway!AcceptFromFlush
<1>13. \A r \in G!Readings : G!AcceptLate(r) => Gateway!AcceptLate(r)
  BY DEF G!AcceptLate, Gateway!AcceptLate
<1>14. G!LinkDown => Gateway!LinkDown
  BY DEF G!LinkDown, Gateway!LinkDown
<1>15. G!Connect => Gateway!Connect
  BY DEF G!Connect, Gateway!Connect
<1>16. G!RunFails => Gateway!RunFails
  BY DEF G!RunFails, Gateway!RunFails
<1>17. G!Restart => Gateway!Restart
  BY DEF G!Restart, Gateway!Restart
<1> QED
  BY <1>2, <1>3, <1>4, <1>5, <1>6, <1>7, <1>8, <1>9, <1>10, <1>11, <1>12, <1>13, <1>14, <1>15,
     <1>16, <1>17
     DEF G!Next, Gateway!Next

LEMMA BackendSteps == I!IngestNext => Backend!IngestNext
<1> USE DEF
      I!NoMessage, Backend!NoMessage, I!Busy, Backend!Busy, I!Attempts, Backend!Attempts,
      I!Queued, Backend!Queued, I!InHand, Backend!InHand, I!storeVars, Backend!storeVars,
      I!Insertable, Backend!Insertable, I!Fails, Backend!Fails, I!Attempt, Backend!Attempt
<1>1. I!Subscribe => Backend!Subscribe
  BY DEF I!Subscribe, Backend!Subscribe
<1>2. I!SubscriptionBreaks => Backend!SubscriptionBreaks
  BY DEF I!SubscriptionBreaks, Backend!SubscriptionBreaks
<1>3. I!IterationEnds => Backend!IterationEnds
  BY DEF I!IterationEnds, Backend!IterationEnds
<1>4. I!TakeMessage => Backend!TakeMessage
  BY DEF I!TakeMessage, Backend!TakeMessage
<1>5. I!Retry => Backend!Retry
  BY DEF I!Retry, Backend!Retry
<1>6. I!PushAndEvaluate => Backend!PushAndEvaluate
  BY DEF I!PushAndEvaluate, Backend!PushAndEvaluate
<1>7. I!Crash => Backend!Crash
  BY DEF I!Crash, Backend!Crash
<1>8. \A r \in G!Readings : I!Publish(r) => Backend!Publish(r)
  BY DEF I!Publish, Backend!Publish
<1> QED
  BY <1>1, <1>2, <1>3, <1>4, <1>5, <1>6, <1>7, <1>8
     DEF I!IngestNext, I!IngestStep, Backend!IngestNext, Backend!IngestStep

\* What the broker takes from the gateway, the gateway's own steps, and the backend's.
LEMMA GatewayTakesStep == [Next]_dataVars => [G!Next]_gatewayVars
<1> SUFFICES ASSUME [Next]_dataVars PROVE G!Next \/ UNCHANGED gatewayVars
  OBVIOUS
<1>1. CASE GatewayStep
  BY <1>1 DEF GatewayStep, G!Next
<1>2. CASE UNCHANGED gatewayVars
  BY <1>2
<1>3. ASSUME NEW r \in G!Readings, Handover(r) PROVE G!Next
  BY <1>3 DEF Handover, BrokerAccepts, G!Next
<1>4. CASE UNCHANGED dataVars
  BY <1>4 DEF dataVars, gatewayVars
<1> QED
  BY <1>1, <1>2, <1>3, <1>4 DEF Next

LEMMA BackendTakesStep == [Next]_dataVars => [I!IngestNext]_backendVars
<1>1. ASSUME NEW r \in G!Readings, Handover(r) PROVE I!IngestNext
  BY <1>1 DEF Handover, I!IngestNext
<1> QED
  BY <1>1 DEF Next, I!IngestNext, dataVars, backendVars

LEMMA Assumptions == Gateway!GatewayAssumption /\ Backend!IngestAssumption
BY DataAssumption DEF G!GatewayAssumption, I!IngestAssumption,
   Gateway!GatewayAssumption, Backend!IngestAssumption

\* Every behaviour of the data path is one of the gateway's publishing path.
LEMMA IsGateway == Spec => Gateway!Spec
<1>1. Init => Gateway!Init
  BY DEF Init, G!Init, Gateway!Init, G!NoTask, Gateway!NoTask, G!NoLoop, Gateway!NoLoop,
     G!NoClient, Gateway!NoClient, G!Loops, Gateway!Loops
<1>2. [Next]_dataVars => [Gateway!Next]_(Gateway!vars)
  BY GatewayTakesStep, GatewaySteps DEF gatewayVars, Gateway!vars
<1> QED
  BY <1>1, <1>2, PTL DEF Spec, Gateway!Spec

\* And one of the backend's ingest task.
LEMMA IsBackend == Spec => Backend!IngestSpec
<1>1. Init => Backend!IngestInit
  BY DEF Init, I!IngestInit, Backend!IngestInit, I!NoMessage, Backend!NoMessage
<1>2. [Next]_dataVars => [Backend!IngestNext]_(Backend!ingestVars)
  BY BackendTakesStep, BackendSteps DEF backendVars, Backend!ingestVars
<1> QED
  BY <1>1, <1>2, PTL DEF Spec, Backend!IngestSpec

\* Each side keeps its inductive invariant.
LEMMA GatewayKeeps == Spec => []Gateway!IInv
<1>1. Gateway!Spec => []Gateway!IInv
  BY Assumptions, Gateway!Invariance
<1> QED
  BY <1>1, IsGateway

LEMMA BackendKeeps == Spec => []Backend!IngestInv
<1>1. Backend!IngestSpec => []Backend!IngestInv
  BY Assumptions, Backend!IngestInvariance
<1> QED
  BY <1>1, IsBackend
--------------------------------------------------------------------------------
(* The handover *)

\* The gateway by itself does not make the broker take anything.
LEMMA GatewayAlone == GatewayStep => UNCHANGED accepted
BY DEF GatewayStep, G!PollPublish, G!PollAcked, G!PollFails, G!StartPolling, G!CancelPolling,
   G!FlushStart, G!FlushAcked, G!FlushFails, G!FlushHangs, G!LinkDown, G!Connect, G!RunFails,
   G!Restart

\* What the broker takes is the one reading that it publishes: a flush loop publishes the
\* oldest row of its batch, and rows have ids of their own.
LEMMA TakesOne ==
  ASSUME Gateway!IInv, NEW r \in G!Readings, BrokerAccepts(r)
  PROVE  accepted' = accepted \cup {r}
<1>1. ASSUME NEW d \in Devices, r = G!Newest(d), G!AcceptFromPoll(d)
      PROVE  accepted' = accepted \cup {r}
  BY <1>1 DEF G!AcceptFromPoll
<1>2. ASSUME NEW k \in G!Loops, G!AcceptFromFlush(k),
             NEW row \in flush[k].batch, G!Oldest(row, flush[k].batch), r = row.msg
      PROVE  accepted' = accepted \cup {r}
  <2>1. PICK other \in flush[k].batch :
          G!Oldest(other, flush[k].batch) /\ accepted' = accepted \cup {other.msg}
    BY <1>2 DEF G!AcceptFromFlush
  <2>2. row.id <= other.id /\ other.id <= row.id
    BY <1>2, <2>1 DEF G!Oldest
  <2>3. row.id \in Nat /\ other.id \in Nat
    <3>1. flush[k].batch \in SUBSET [id : Nat, msg : Gateway!Readings]
      BY DEF Gateway!IInv, Gateway!TypeOK, Gateway!FlushStates, Gateway!Rows, Gateway!Loops, G!Loops
    <3> QED
      BY <3>1
  <2>4. row.id = other.id
    BY <2>2, <2>3
  <2>5. row = other
    BY <2>4 DEF Gateway!IInv, Gateway!LoopConsistent, Gateway!Loops, G!Loops
  <2> QED
    BY <1>2, <2>1, <2>5
<1>3. ASSUME G!AcceptLate(r) PROVE accepted' = accepted \cup {r}
  BY <1>3 DEF G!AcceptLate
<1> QED
  BY <1>1, <1>2, <1>3 DEF BrokerAccepts

\* What was published to the backend stays where it can be found.
Findable == Arrived \cup unheard \cup cut

LEMMA PublishFinds ==
  ASSUME Backend!IngestTypeOK, NEW r \in G!Readings, I!Publish(r)
  PROVE  Findable \cup {r} \subseteq Findable'
<1>1. queue \in Seq(G!Readings)
  BY DEF Backend!IngestTypeOK
<1>2. UNCHANGED <<readings, task, dropped, cut>> /\ I!InHand' = I!InHand
  BY DEF I!Publish, I!storeVars, I!InHand
<1>3. CASE sub = "up"
  <2>1. queue' = Append(queue, r) /\ unheard' = unheard
    BY <1>3 DEF I!Publish
  <2>2. /\ \A i \in DOMAIN queue : i \in DOMAIN queue' /\ queue'[i] = queue[i]
        /\ Len(queue) + 1 \in DOMAIN queue' /\ queue'[Len(queue) + 1] = r
    BY <1>1, <2>1, AppendProperties
  <2>3. I!Queued \cup {r} \subseteq I!Queued'
    BY <2>2 DEF I!Queued
  <2> QED
    BY <1>2, <2>1, <2>3 DEF Findable, Arrived
<1>4. CASE sub # "up"
  <2>1. unheard' = unheard \cup {r} /\ queue' = queue
    BY <1>4 DEF I!Publish
  <2>2. I!Queued' = I!Queued
    BY <2>1 DEF I!Queued
  <2> QED
    BY <1>2, <2>1, <2>2 DEF Findable, Arrived
<1> QED
  BY <1>3, <1>4

\* An attempt at message m stores it, keeps it in hand for another attempt or drops it.
LEMMA AttemptFinds ==
  ASSUME NEW m, NEW n, I!Attempt(m, n)
  PROVE  /\ readings \subseteq readings' /\ dropped \subseteq dropped'
         /\ m \in readings' \cup I!InHand' \cup dropped'
BY DEF I!Attempt, I!Fails, I!Busy, I!NoMessage, I!InHand, I!Insertable

LEMMA IngestFinds ==
  ASSUME Backend!IngestInv, I!IngestStep
  PROVE  Findable \subseteq Findable'
<1>1. /\ queue \in Seq(G!Readings)
      /\ task.st = "push" => task.msg \in readings
  BY DEF Backend!IngestInv, Backend!IngestTypeOK
<1>2. CASE I!Subscribe \/ I!SubscriptionBreaks
  BY <1>2 DEF I!Subscribe, I!SubscriptionBreaks, I!storeVars, Findable, Arrived, I!Queued, I!InHand
<1>3. CASE I!IterationEnds
  BY <1>3 DEF I!IterationEnds, I!storeVars, Findable, Arrived, I!Queued, I!InHand
<1>4. CASE I!TakeMessage
  <2>1. /\ queue # <<>> /\ queue' = Tail(queue) /\ task = I!NoMessage
        /\ UNCHANGED <<unheard, cut>>
    BY <1>4 DEF I!TakeMessage
  <2>2. I!Queued \subseteq I!Queued' \cup {Head(queue)}
    <3> SUFFICES ASSUME NEW i \in DOMAIN queue, i # 1 PROVE queue[i] \in I!Queued'
      BY <1>1, <2>1 DEF I!Queued
    <3>1. i - 1 \in DOMAIN queue' /\ queue'[i - 1] = queue[i]
      BY <1>1, <2>1, HeadTailProperties
    <3> QED
      BY <3>1 DEF I!Queued
  <2>3. /\ readings \subseteq readings' /\ dropped \subseteq dropped'
        /\ Head(queue) \in readings' \cup I!InHand' \cup dropped'
    BY <1>4, AttemptFinds DEF I!TakeMessage
  <2>4. I!InHand = {}
    BY <2>1 DEF I!InHand
  <2> QED
    BY <2>1, <2>2, <2>3, <2>4 DEF Findable, Arrived
<1>5. CASE I!Retry
  <2>1. UNCHANGED <<queue, unheard, cut>> /\ I!InHand \subseteq {task.msg}
    BY <1>5 DEF I!Retry, I!InHand
  <2>2. /\ readings \subseteq readings' /\ dropped \subseteq dropped'
        /\ task.msg \in readings' \cup I!InHand' \cup dropped'
    BY <1>5, AttemptFinds DEF I!Retry
  <2>3. I!Queued' = I!Queued
    BY <2>1 DEF I!Queued
  <2> QED
    BY <2>1, <2>2, <2>3 DEF Findable, Arrived
<1>6. CASE I!PushAndEvaluate
  <2>1. /\ UNCHANGED <<queue, readings, dropped, unheard, cut>>
        /\ I!InHand \subseteq readings
    BY <1>1, <1>6 DEF I!PushAndEvaluate, I!storeVars, I!InHand
  <2>2. I!Queued' = I!Queued
    BY <2>1 DEF I!Queued
  <2> QED
    BY <2>1, <2>2 DEF Findable, Arrived
<1>7. CASE I!Crash
  BY <1>7 DEF I!Crash, I!storeVars, Findable, Arrived
<1> QED
  BY <1>2, <1>3, <1>4, <1>5, <1>6, <1>7 DEF I!IngestStep

LEMMA HandoverStep ==
  ASSUME HandedOver, Gateway!IInv, Backend!IngestInv, [Next]_dataVars
  PROVE  HandedOver'
<1>1. CASE GatewayStep /\ UNCHANGED backendVars
  <2>1. UNCHANGED accepted /\ Findable' = Findable
    BY <1>1, GatewayAlone DEF backendVars, Findable, Arrived, I!Queued, I!InHand
  <2> QED
    BY <2>1 DEF HandedOver, Findable
<1>2. CASE I!IngestStep /\ UNCHANGED gatewayVars
  <2>1. UNCHANGED accepted /\ Findable \subseteq Findable'
    BY <1>2, IngestFinds DEF gatewayVars
  <2> QED
    BY <2>1 DEF HandedOver, Findable
<1>3. ASSUME NEW r \in G!Readings, Handover(r) PROVE HandedOver'
  <2>1. accepted' = accepted \cup {r} /\ Findable \cup {r} \subseteq Findable'
    BY <1>3, TakesOne, PublishFinds DEF Handover, Backend!IngestInv
  <2> QED
    BY <2>1 DEF HandedOver, Findable
<1>4. CASE UNCHANGED dataVars
  BY <1>4 DEF dataVars, HandedOver, Arrived, I!Queued, I!InHand
<1> QED
  BY <1>1, <1>2, <1>3, <1>4 DEF Next
--------------------------------------------------------------------------------
(* The theorems *)

\* Whatever the broker took from the gateway is in the backend's table, queue or hands,
\* was dropped with a log line, found nobody subscribed or was cut off with a connection.
THEOREM HandoverInvariance == Spec => []HandedOver
<1>1. Init => HandedOver
  BY DEF Init, G!Init, HandedOver
<1> QED
  BY <1>1, HandoverStep, GatewayKeeps, BackendKeeps, PTL DEF Spec

\* A reading that a device produced can be told from one that vanished, at any moment and
\* over any order of outages, replays, timeouts, restarts, faults and crashes.
THEOREM ReadingsAccountedFor == Spec => []EveryReadingAccountedFor
<1>1. HandedOver /\ Gateway!IInv => EveryReadingAccountedFor
  <2> SUFFICES ASSUME HandedOver, Gateway!IInv PROVE EveryReadingAccountedFor
    OBVIOUS
  <2>1. G!Taken \subseteq G!Held \cup accepted \cup lost
    BY DEF Gateway!IInv, Gateway!NoReadingDropped, Gateway!Taken, Gateway!Held, Gateway!Buffered,
       Gateway!InFlight, Gateway!Newest, Gateway!Awaiting, Gateway!Readings,
       G!Taken, G!Held, G!Buffered, G!InFlight, G!Newest, G!Awaiting, G!Readings
  <2> QED
    BY <2>1 DEF HandedOver, EveryReadingAccountedFor
<1> QED
  BY <1>1, HandoverInvariance, GatewayKeeps, PTL

\* However often the gateway replays a reading, it is evaluated at most once.
THEOREM ReplaysEvaluatedOnce == Spec => []ReplayedReadingEvaluatedOnce
<1>1. Backend!IngestInv => ReplayedReadingEvaluatedOnce
  <2> SUFFICES ASSUME Backend!IngestInv, NEW r \in G!Readings PROVE evaluated[r] <= 1
    BY DEF ReplayedReadingEvaluatedOnce
  <2>1. evaluated[r] \in Nat
    BY DEF Backend!IngestInv, Backend!IngestTypeOK
  <2>2. evaluated[r] <= (IF r \in readings THEN 1 ELSE 0)
    BY DEF Backend!IngestInv, Backend!EvaluatedOnceStored
  <2> QED
    BY <2>1, <2>2
<1> QED
  BY <1>1, BackendKeeps, PTL
================================================================================
