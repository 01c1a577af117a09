-------------------------- MODULE GatewayBufferProofs --------------------------
(***************************************************************************)
(* Proofs about the gateway's store and forward, for any set of devices    *)
(* and any value of the bounds.  TypeCorrect is inductive by itself; the   *)
(* rest goes through IInv, which ties the flush loops' private view of the *)
(* table (their batch and their list of sent ids) to the table itself.     *)
(***************************************************************************)
EXTENDS GatewayBuffer, TLAPS

\* A batch is made of rows of the table.
LEMMA PendingSubset == PendingBatch \subseteq buffer
BY DEF PendingBatch

\* The newest reading of a device that has one is a reading.
LEMMA NewestIsReading ==
  ASSUME TypeOK, NEW d \in Devices, taken[d] > 0
  PROVE  Newest(d) \in Readings
BY GatewayAssumption DEF TypeOK, Newest, Readings

\* Storing a reading keeps the table a set of rows and the counter a number.
LEMMA EnqueueType ==
  ASSUME TypeOK, NEW r \in Readings, Enqueue(r)
  PROVE  buffer' \subseteq Rows /\ nextId' \in Nat
BY DEF TypeOK, Enqueue, NewRowId, Rows

\* Every variable keeps its type from a step to the next.
LEMMA TypeStep == TypeOK /\ [Next]_vars => TypeOK'
<1> USE GatewayAssumption DEF NoClient, Loops, Awaiting
<1> SUFFICES ASSUME TypeOK, [Next]_vars PROVE TypeOK'
  OBVIOUS
<1>0. client \in 0..MaxConnects
  BY DEF TypeOK
<1>1. ASSUME NEW d \in Devices, PollPublish(d) PROVE TypeOK'
  <2>1. [dev |-> d, seq |-> taken[d] + 1] \in Readings
    BY <1>1 DEF PollPublish, TypeOK, Readings
  <2>2. buffer' \subseteq Rows /\ nextId' \in Nat
    BY <1>1, <2>1, EnqueueType DEF PollPublish, TypeOK
  <2>3. poll' \in [Devices -> PollStates]
    BY <1>0, <1>1 DEF PollPublish, TypeOK, PollStates
  <2>4. taken' \in [Devices -> 0..MaxReadings]
    BY <1>1 DEF PollPublish, TypeOK
  <2>5. \A e \in Devices :
          poll'[e].st \in Awaiting => poll'[e].via \in 1..connects /\ taken'[e] > 0
    BY <1>1 DEF PollPublish, TypeOK, PollStates
  <2> QED
    BY <1>1, <2>2, <2>3, <2>4, <2>5 DEF PollPublish, TypeOK, linkVars
<1>2. ASSUME NEW d \in Devices, PollAcked(d) PROVE TypeOK'
  BY <1>2 DEF PollAcked, TypeOK, linkVars, PollStates, Resting
<1>3. ASSUME NEW d \in Devices, PollFails(d) PROVE TypeOK'
  <2>1. Newest(d) \in Readings
    BY <1>3, NewestIsReading DEF PollFails, TypeOK
  <2>2. buffer' \subseteq Rows /\ nextId' \in Nat
    BY <1>3, <2>1, EnqueueType DEF PollFails
  <2>3. late' \subseteq Readings /\ stalls' \in 0..MaxStalls
    BY <1>3, <2>1 DEF PollFails, Abandon, PublishRaises, TypeOK
  <2> QED
    BY <1>3, <2>2, <2>3 DEF PollFails, TypeOK, PollStates, Resting
<1>4. ASSUME NEW d \in Devices, StartPolling(d) PROVE TypeOK'
  BY <1>4 DEF StartPolling, TypeOK, linkVars, PollStates, Resting
<1>5. ASSUME NEW d \in Devices, CancelPolling(d) PROVE TypeOK'
  <2>1. poll[d].st = "sent" => Newest(d) \in Readings
    BY NewestIsReading DEF TypeOK
  <2>2. late' \subseteq Readings /\ lost' \subseteq Readings
    BY <1>5, <2>1 DEF CancelPolling, Abandon, TypeOK
  <2> QED
    BY <1>5, <2>2 DEF CancelPolling, TypeOK, linkVars, PollStates, NoTask
<1>6. ASSUME NEW d \in Devices, AcceptFromPoll(d) PROVE TypeOK'
  <2>1. Newest(d) \in Readings
    BY <1>6, NewestIsReading DEF AcceptFromPoll, TypeOK
  <2> QED
    BY <1>6, <2>1 DEF AcceptFromPoll, TypeOK, linkVars, PollStates
<1>7. ASSUME NEW k \in Loops, FlushStart(k) PROVE TypeOK'
  BY <1>7, PendingSubset DEF FlushStart, TypeOK, linkVars, FlushStates
<1>8. ASSUME NEW k \in Loops, FlushAcked(k) PROVE TypeOK'
  <2>1. flush' \in [Loops -> FlushStates]
    <3>1. flush[k] \in FlushStates
      BY DEF TypeOK
    <3>2. PICK row \in flush[k].batch :
            \/ /\ client # NoClient
               /\ flush' = [flush EXCEPT ![k] =
                              [st |-> "sent", via |-> client, batch |-> flush[k].batch \ {row},
                               sent |-> flush[k].sent \cup {row.id}]]
            \/ flush' = [flush EXCEPT ![k] = Asleep]
      BY <1>8 DEF FlushAcked
    <3>3. row.id \in Nat
      BY <3>1 DEF FlushStates, Rows
    <3>4. [st |-> "sent", via |-> client, batch |-> flush[k].batch \ {row},
           sent |-> flush[k].sent \cup {row.id}] \in FlushStates
      BY <1>0, <3>1, <3>3 DEF FlushStates
    <3>5. Asleep \in FlushStates
      BY DEF Asleep, FlushStates
    <3> QED
      BY <3>2, <3>4, <3>5 DEF TypeOK
  <2>2. \A j \in Loops : flush'[j].st \in Awaiting => flush'[j].via \in 1..connects
    <3>1. \A j \in Loops \ {k} : flush'[j] = flush[j]
      BY <1>8 DEF FlushAcked, TypeOK
    <3>2. \/ flush'[k].via = client /\ client # NoClient
          \/ flush'[k].st = "idle"
      BY <1>8 DEF FlushAcked, TypeOK, Asleep
    <3>3. connects' = connects
      BY <1>8 DEF FlushAcked, linkVars
    <3> QED
      BY <3>1, <3>2, <3>3 DEF TypeOK
  <2>3. buffer' \subseteq Rows
    BY <1>8 DEF FlushAcked, TypeOK, Remaining
  <2> QED
    BY <1>8, <2>1, <2>2, <2>3 DEF FlushAcked, TypeOK, linkVars
<1>9. ASSUME NEW k \in Loops, FlushFails(k) PROVE TypeOK'
  <2>1. PICK row \in flush[k].batch : Abandon(flush[k].st, flush[k].via, row.msg)
    BY <1>9 DEF FlushFails
  <2>2. row.msg \in Readings
    BY <2>1 DEF TypeOK, FlushStates, Rows
  <2>3. late' \subseteq Readings /\ stalls' \in 0..MaxStalls
    BY <1>9, <2>1, <2>2 DEF FlushFails, Abandon, PublishRaises, TypeOK
  <2>4. buffer' \subseteq Rows
    BY <1>9 DEF FlushFails, TypeOK, Remaining
  <2>5. flush' \in [Loops -> FlushStates]
    BY <1>9 DEF FlushFails, TypeOK, FlushStates, Asleep
  <2>6. \A j \in Loops : flush'[j].st \in Awaiting => flush'[j].via \in 1..connects'
    BY <1>9 DEF FlushFails, TypeOK, Asleep, Awaiting
  <2> QED
    BY <1>9, <2>3, <2>4, <2>5, <2>6 DEF FlushFails, TypeOK
<1>10. ASSUME NEW k \in Loops, FlushHangs(k) PROVE TypeOK'
  <2>1. [flush[k] EXCEPT !.st = "hung"] \in FlushStates
    BY DEF TypeOK, FlushStates
  <2>2. flush' \in [Loops -> FlushStates]
    BY <1>10, <2>1 DEF FlushHangs, TypeOK
  <2>3. \A j \in Loops : flush'[j].st \in Awaiting => flush'[j].via \in 1..connects
    <3>1. flush'[k].st = "hung" /\ \A j \in Loops \ {k} : flush'[j] = flush[j]
      BY <1>10 DEF FlushHangs, TypeOK, FlushStates
    <3> QED
      BY <3>1 DEF TypeOK, Awaiting
  <2>4. hangs' \in 0..MaxHangs
    BY <1>10, GatewayAssumption DEF FlushHangs, TypeOK
  <2>5. UNCHANGED <<taken, poll, buffer, nextId, client, link, late, accepted, lost, connects,
                    stalls, restarts>>
    BY <1>10 DEF FlushHangs
  <2> QED
    BY <2>2, <2>3, <2>4, <2>5 DEF TypeOK
<1>11. ASSUME NEW k \in Loops, AcceptFromFlush(k) PROVE TypeOK'
  <2>1. PICK row \in flush[k].batch : accepted' = accepted \cup {row.msg}
    BY <1>11 DEF AcceptFromFlush
  <2>2. row.msg \in Readings
    BY <2>1 DEF TypeOK, FlushStates, Rows
  <2> QED
    BY <1>11, <2>1, <2>2 DEF AcceptFromFlush, TypeOK, linkVars, FlushStates
<1>12. ASSUME NEW r \in Readings, AcceptLate(r) PROVE TypeOK'
  BY <1>12 DEF AcceptLate, TypeOK, linkVars, pathVars
<1>13. CASE LinkDown
  BY <1>13 DEF LinkDown, TypeOK, pathVars
<1>14. CASE Connect
  BY <1>14 DEF Connect, TypeOK, FlushStates, PollStates, Asleep
<1>15. CASE RunFails
  BY <1>15 DEF RunFails, TypeOK, pathVars
<1>16. CASE Restart
  <2>1. \A d \in Devices : poll[d].st = "sent" => Newest(d) \in Readings
    BY NewestIsReading DEF TypeOK
  <2>2. lost' \subseteq Readings
    BY <1>16, <2>1 DEF Restart, TypeOK
  <2> QED
    BY <1>16, <2>2 DEF Restart, TypeOK, PollStates, FlushStates, NoTask, NoLoop
<1>17. CASE UNCHANGED vars
  BY <1>17 DEF vars, TypeOK
<1> QED
  BY <1>1, <1>2, <1>3, <1>4, <1>5, <1>6, <1>7, <1>8, <1>9, <1>10, <1>11, <1>12, <1>13,
     <1>14, <1>15, <1>16, <1>17 DEF Next

\* Every variable keeps its type in every behaviour of the gateway.
THEOREM TypeCorrect == Spec => []TypeOK
<1>1. Init => TypeOK
  BY GatewayAssumption DEF Init, TypeOK, NoClient, Loops, Awaiting, PollStates, FlushStates,
     NoTask, NoLoop
<1> QED
  BY <1>1, TypeStep, PTL DEF Spec
--------------------------------------------------------------------------------
(* What the conjuncts of IInv survive *)

\* A stored reading is the only thing that the table and its readings gain.
LEMMA EnqueueAdds ==
  ASSUME NEW r, Enqueue(r)
  PROVE  /\ buffer' = buffer \cup {[id |-> nextId, msg |-> r]}
         /\ nextId' = nextId + 1
         /\ Buffered' = Buffered \cup {r}
<1> DEFINE new == [id |-> nextId, msg |-> r]
<1>1. buffer' = buffer \cup {new} /\ nextId' = nextId + 1
  BY DEF Enqueue, NewRowId
<1>2. new.msg = r
  OBVIOUS
<1> HIDE DEF new
<1>3. Buffered' = Buffered \cup {r}
  BY <1>1, <1>2 DEF Buffered
<1> QED
  BY <1>1, <1>3 DEF new

\* The next row id is a fresh one.
LEMMA EnqueueDistinct ==
  ASSUME TypeOK, RowsDistinct, NEW r, Enqueue(r)
  PROVE  RowsDistinct'
BY EnqueueAdds DEF TypeOK, Rows, RowsDistinct

\* A flush loop that rests keeps its view of the table while rows with the next id are
\* added, rows are deleted, and the broker and the devices go on.
LEMMA LoopStays ==
  ASSUME TypeOK, NEW k \in Loops, LoopConsistent(k), flush'[k] = flush[k],
         \A x \in buffer' : x \in buffer \/ x.id = nextId,
         nextId' \in {nextId, nextId + 1},
         accepted \subseteq accepted', Taken \subseteq Taken'
  PROVE  LoopConsistent(k)'
<1> DEFINE f == flush[k]
<1>1. f \in FlushStates /\ nextId \in Nat /\ f.batch \subseteq Rows /\ f.sent \subseteq Nat
  BY DEF TypeOK, FlushStates
<1>2. \A row \in f.batch : /\ row.id < nextId'
                           /\ row.msg \in Taken'
                           /\ \A x \in buffer' : x.id = row.id => x = row
  BY <1>1 DEF LoopConsistent, Rows
<1>3. \A n \in f.sent : /\ n < nextId'
                        /\ \A x \in buffer' : x.id = n => x.msg \in accepted'
  BY <1>1 DEF LoopConsistent
<1> QED
  BY <1>2, <1>3 DEF LoopConsistent

\* A polling task that rests keeps its reading out of a table that gains no such reading.
LEMMA PollStays ==
  ASSUME NEW d \in Devices, PollConsistent(d), poll'[d] = poll[d], taken'[d] = taken[d],
         poll[d].st \in Awaiting => Newest(d) \notin Buffered' \ Buffered,
         accepted \subseteq accepted'
  PROVE  PollConsistent(d)'
BY DEF PollConsistent, Newest

\* Without a new reading, nothing is dropped when what leaves the gateway's hands is
\* with the broker or counted as lost.
LEMMA NothingDropped ==
  ASSUME NoReadingDropped, taken' = taken,
         Held \subseteq Held' \cup accepted' \cup lost',
         accepted \subseteq accepted', lost \subseteq lost'
  PROVE  NoReadingDropped'
BY DEF NoReadingDropped, Taken

\* When only d's task moves, only d's newest reading can leave the tasks' hands.
LEMMA InFlightStays ==
  ASSUME NEW d \in Devices, poll \in [Devices -> PollStates], taken' = taken,
         \A e \in Devices \ {d} : poll'[e] = poll[e]
  PROVE  InFlight \subseteq InFlight' \cup {Newest(d)}
BY DEF InFlight, Newest

\* An awaited reading is one of those produced.
LEMMA NewestTaken ==
  ASSUME TypeOK, NEW d \in Devices, poll[d].st \in Awaiting
  PROVE  Newest(d) \in Taken
<1>1. taken[d] \in 0..MaxReadings /\ taken[d] > 0
  BY DEF TypeOK
<1> QED
  BY <1>1, NewestIsReading DEF Taken, Newest
--------------------------------------------------------------------------------
(* The steps of the polling tasks *)

LEMMA PollPublishInv ==
  ASSUME IInv, NEW d \in Devices, PollPublish(d), TypeOK'
  PROVE  IInv'
<1> DEFINE r == [dev |-> d, seq |-> taken[d] + 1]
<1>0. TypeOK
  BY DEF IInv
<1>1. Taken' = Taken \cup {r} /\ r \notin Taken
  <2>1. taken \in [Devices -> 0..MaxReadings] /\ taken[d] < MaxReadings
    BY <1>0 DEF TypeOK, PollPublish
  <2>2. taken' = [taken EXCEPT ![d] = @ + 1]
    BY DEF PollPublish
  <2> QED
    BY <2>1, <2>2, GatewayAssumption DEF Taken, Readings
<1>2. /\ accepted' = accepted /\ lost' = lost /\ late' = late /\ flush' = flush
      /\ poll[d].st = "idle" /\ \A e \in Devices \ {d} : poll'[e] = poll[e] /\ taken'[e] = taken[e]
  BY <1>0 DEF PollPublish, TypeOK
<1>3. \A e \in Devices \ {d} : Newest(e) # r /\ Newest(e)' = Newest(e)
  BY <1>2 DEF Newest
<1>4. CASE client = NoClient
  <2>1. Enqueue(r) /\ poll' = poll
    BY <1>4 DEF PollPublish
  <2>2. /\ buffer' = buffer \cup {[id |-> nextId, msg |-> r]}
        /\ nextId' = nextId + 1 /\ Buffered' = Buffered \cup {r}
    BY <2>1, EnqueueAdds
  <2>3. RowsDistinct'
    BY <1>0, <2>1, EnqueueDistinct DEF IInv
  <2>4. \A e \in Devices : PollConsistent(e)'
    BY <1>2, <1>3, <2>1, <2>2 DEF IInv, PollConsistent, Awaiting
  <2>5. \A k \in Loops : LoopConsistent(k)'
    BY <1>0, <1>1, <1>2, <2>2, LoopStays DEF IInv
  <2>6. OnlyTaken'
    BY <1>1, <1>2, <2>2 DEF IInv, OnlyTaken
  <2>7. InFlight \subseteq InFlight'
    BY <1>2, <1>3, <2>1 DEF InFlight, Awaiting
  <2>8. NoReadingDropped'
    BY <1>1, <1>2, <2>2, <2>7 DEF IInv, NoReadingDropped, Held
  <2> QED
    BY <2>3, <2>4, <2>5, <2>6, <2>8 DEF IInv
<1>5. CASE client # NoClient
  <2>1. /\ buffer' = buffer /\ nextId' = nextId
        /\ poll' = [poll EXCEPT ![d] = [st |-> "sent", via |-> client]]
    BY <1>5 DEF PollPublish
  <2>2. Newest(d)' = r /\ poll'[d].st = "sent"
    BY <1>0, <2>1 DEF PollPublish, Newest, TypeOK
  <2>3. Buffered' = Buffered /\ RowsDistinct'
    BY <2>1 DEF IInv, RowsDistinct, Buffered
  <2>4. \A e \in Devices : PollConsistent(e)'
    BY <1>1, <1>2, <1>3, <2>2, <2>3 DEF IInv, PollConsistent, OnlyTaken
  <2>5. \A k \in Loops : LoopConsistent(k)'
    BY <1>0, <1>1, <1>2, <2>1, LoopStays DEF IInv
  <2>6. OnlyTaken'
    BY <1>1, <1>2, <2>3 DEF IInv, OnlyTaken
  <2>7. InFlight \cup {r} \subseteq InFlight'
    BY <1>2, <1>3, <2>2 DEF InFlight, Awaiting
  <2>8. NoReadingDropped'
    BY <1>1, <1>2, <2>3, <2>7 DEF IInv, NoReadingDropped, Held
  <2> QED
    BY <2>3, <2>4, <2>5, <2>6, <2>8 DEF IInv
<1> QED
  BY <1>4, <1>5

\* A step that leaves the table and the loops alone, and takes nothing from the broker.
LEMMA TaskStepInv ==
  ASSUME IInv, TypeOK', NEW d \in Devices, taken' = taken, flush' = flush,
         buffer' = buffer, nextId' = nextId,
         \A e \in Devices \ {d} : poll'[e] = poll[e],
         accepted \subseteq accepted', lost \subseteq lost',
         late' \cup accepted' \cup lost' \subseteq late \cup accepted \cup lost \cup Taken,
         PollConsistent(d)',
         poll[d].st \in Awaiting => Newest(d) \in InFlight' \cup accepted' \cup lost'
  PROVE  IInv'
<1>0. TypeOK /\ poll \in [Devices -> PollStates]
  BY DEF IInv, TypeOK
<1>1. Buffered' = Buffered /\ Taken' = Taken /\ RowsDistinct'
  BY DEF IInv, RowsDistinct, Buffered, Taken
<1>2. \A e \in Devices : PollConsistent(e)'
  BY <1>1, PollStays DEF IInv
<1>3. \A k \in Loops : LoopConsistent(k)'
  BY <1>0, <1>1, LoopStays DEF IInv
<1>4. OnlyTaken'
  BY <1>1 DEF IInv, OnlyTaken
<1>5. InFlight \subseteq InFlight' \cup accepted' \cup lost'
  <2>1. ASSUME NEW e \in Devices, poll[e].st \in Awaiting
        PROVE  Newest(e) \in InFlight' \cup accepted' \cup lost'
    <3>1. CASE e = d
      BY <2>1, <3>1
    <3>2. CASE e # d
      BY <2>1, <3>2 DEF InFlight, Newest
    <3> QED
      BY <3>1, <3>2
  <2> QED
    BY <2>1 DEF InFlight
<1>6. NoReadingDropped'
  BY <1>1, <1>5, NothingDropped DEF IInv, Held
<1> QED
  BY <1>1, <1>2, <1>3, <1>4, <1>6 DEF IInv

\* The steps of d's task, and of the broker for it, that do not touch the table.
LEMMA TaskStepsInv ==
  ASSUME IInv, TypeOK', NEW d \in Devices,
         PollAcked(d) \/ StartPolling(d) \/ CancelPolling(d) \/ AcceptFromPoll(d)
  PROVE  IInv'
<1>0. TypeOK /\ poll \in [Devices -> PollStates]
  BY DEF IInv, TypeOK
<1>1. PollConsistent(d)
  BY DEF IInv
<1>2. poll[d].st \in Awaiting => Newest(d) \in Taken
  BY <1>0, NewestTaken
<1>3. CASE PollAcked(d)
  <2>1. PollConsistent(d)'
    BY <1>0, <1>3 DEF PollAcked, PollConsistent, Resting, Awaiting
  <2>2. poll[d].st \in Awaiting => Newest(d) \in accepted
    BY <1>1, <1>3 DEF PollAcked, PollConsistent
  <2> QED
    BY <1>0, <1>3, <2>1, <2>2, TaskStepInv DEF PollAcked
<1>4. CASE StartPolling(d)
  <2>1. PollConsistent(d)'
    BY <1>0, <1>4 DEF StartPolling, PollConsistent, Resting, Awaiting
  <2> QED
    BY <1>0, <1>4, <2>1, TaskStepInv DEF StartPolling, Awaiting
<1>5. CASE CancelPolling(d)
  <2>1. PollConsistent(d)'
    BY <1>0, <1>5 DEF CancelPolling, PollConsistent, NoTask, Awaiting
  <2>2. poll[d].st \in Awaiting => Newest(d) \in accepted \cup lost'
    BY <1>1, <1>5 DEF CancelPolling, PollConsistent, Awaiting
  <2>3. /\ late' \subseteq late \cup Taken
        /\ lost \subseteq lost' /\ lost' \subseteq lost \cup Taken
    BY <1>2, <1>5 DEF CancelPolling, Abandon, Awaiting
  <2> QED
    BY <1>0, <1>5, <2>1, <2>2, <2>3, TaskStepInv DEF CancelPolling
<1>6. CASE AcceptFromPoll(d)
  <2>1. poll'[d].st = "acked" /\ Newest(d)' = Newest(d) /\ poll[d].st = "sent"
    BY <1>0, <1>6 DEF AcceptFromPoll, PollStates, Newest
  <2>2. PollConsistent(d)'
    BY <1>1, <1>6, <2>1 DEF AcceptFromPoll, PollConsistent, Buffered, Awaiting
  <2> QED
    BY <1>0, <1>2, <1>6, <2>1, <2>2, TaskStepInv DEF AcceptFromPoll, Awaiting
<1> QED
  BY <1>3, <1>4, <1>5, <1>6

\* A failed publish of d's task: its reading changes hands, from the task to the table.
LEMMA PollFailsInv ==
  ASSUME IInv, TypeOK', NEW d \in Devices, PollFails(d)
  PROVE  IInv'
<1>0. TypeOK /\ poll \in [Devices -> PollStates]
  BY DEF IInv, TypeOK
<1>1. Newest(d) \in Taken
  BY <1>0, NewestTaken DEF PollFails
<1>2. /\ taken' = taken /\ accepted' = accepted /\ lost' = lost /\ flush' = flush
      /\ Taken' = Taken
  BY DEF PollFails, Taken
<1>3. /\ buffer' = buffer \cup {[id |-> nextId, msg |-> Newest(d)]}
      /\ nextId' = nextId + 1 /\ Buffered' = Buffered \cup {Newest(d)}
  BY EnqueueAdds DEF PollFails
<1>4. poll'[d].st = "idle" /\ \A e \in Devices \ {d} : poll'[e] = poll[e]
  BY <1>0 DEF PollFails, Resting
<1>5. RowsDistinct'
  BY <1>0, EnqueueDistinct DEF IInv, PollFails
<1>6. \A e \in Devices : PollConsistent(e)'
  <2>1. PollConsistent(d)'
    BY <1>4 DEF PollConsistent, Awaiting
  <2>2. ASSUME NEW e \in Devices \ {d} PROVE PollConsistent(e)'
    <3>1. Newest(e) # Newest(d)
      BY DEF Newest
    <3> QED
      BY <1>2, <1>3, <1>4, <3>1, PollStays DEF IInv
  <2> QED
    BY <2>1, <2>2
<1>7. \A k \in Loops : LoopConsistent(k)'
  BY <1>0, <1>2, <1>3, LoopStays DEF IInv
<1>8. OnlyTaken'
  <2>1. late' \subseteq late \cup {Newest(d)}
    BY DEF PollFails, Abandon
  <2> QED
    BY <1>1, <1>2, <1>3, <2>1 DEF IInv, OnlyTaken
<1>9. NoReadingDropped'
  <2>1. InFlight \subseteq InFlight' \cup {Newest(d)}
    BY <1>0, <1>2, <1>4, InFlightStays
  <2> QED
    BY <1>2, <1>3, <2>1, NothingDropped DEF IInv, Held
<1> QED
  BY <1>5, <1>6, <1>7, <1>8, <1>9 DEF IInv
--------------------------------------------------------------------------------
(* The steps of the flush loops *)

\* A step of flush loop k that deletes only rows the broker has.
LEMMA LoopStepInv ==
  ASSUME IInv, TypeOK', NEW k \in Loops, taken' = taken, poll' = poll, nextId' = nextId,
         \A j \in Loops \ {k} : flush'[j] = flush[j],
         buffer' \subseteq buffer,
         \A x \in buffer \ buffer' : x.msg \in accepted,
         accepted \subseteq accepted', accepted' \subseteq Taken, lost' = lost,
         late' \subseteq Taken,
         LoopConsistent(k)'
  PROVE  IInv'
<1>0. TypeOK
  BY DEF IInv
<1>1. /\ Buffered' \subseteq Buffered /\ Taken' = Taken /\ RowsDistinct'
      /\ Buffered \subseteq Buffered' \cup accepted
  BY DEF IInv, RowsDistinct, Buffered, Taken
<1>2. InFlight' = InFlight
  BY DEF InFlight, Newest
<1>3. \A d \in Devices : PollConsistent(d)'
  BY <1>1, PollStays DEF IInv
<1>4. \A j \in Loops : LoopConsistent(j)'
  BY <1>0, <1>1, LoopStays DEF IInv
<1>5. OnlyTaken'
  BY <1>1 DEF IInv, OnlyTaken
<1>6. NoReadingDropped'
  BY <1>1, <1>2, NothingDropped DEF IInv, Held
<1> QED
  BY <1>1, <1>3, <1>4, <1>5, <1>6 DEF IInv

\* Rows whose ids a loop has marked as sent have reached the broker, those of an
\* acknowledged oldest row included: deleting them loses nothing.
LEMMA FlushAckedInv ==
  ASSUME IInv, TypeOK', NEW k \in Loops, FlushAcked(k)
  PROVE  IInv'
<1> DEFINE f == flush[k]
<1>0. TypeOK /\ f \in FlushStates /\ LoopConsistent(k) /\ flush \in [Loops -> FlushStates]
  BY DEF IInv, TypeOK
<1>1. /\ taken' = taken /\ poll' = poll /\ nextId' = nextId /\ accepted' = accepted
      /\ lost' = lost /\ late' = late /\ Taken' = Taken
  BY DEF FlushAcked, Taken
<1>2. PICK row \in f.batch :
        LET rest == f.batch \ {row}
            ids == f.sent \cup {row.id}
        IN  /\ Oldest(row, f.batch)
            /\ \/ /\ rest # {} /\ client # NoClient
                  /\ flush' = [flush EXCEPT ![k] =
                                 [st |-> "sent", via |-> client, batch |-> rest, sent |-> ids]]
                  /\ UNCHANGED buffer
               \/ /\ rest = {} \/ client = NoClient
                  /\ flush' = [flush EXCEPT ![k] = Asleep]
                  /\ buffer' = Remaining(ids)
  BY DEF FlushAcked
<1> DEFINE rest == f.batch \ {row}
           ids == f.sent \cup {row.id}
<1>3. row.msg \in accepted /\ row.id < nextId
  BY <1>0, <1>2 DEF FlushAcked, LoopConsistent
<1>4. \A x \in buffer : x.id \in ids => x.msg \in accepted
  BY <1>0, <1>3 DEF LoopConsistent
<1>5. \A j \in Loops \ {k} : flush'[j] = flush[j]
  BY <1>0, <1>2
<1>6. late' \cup accepted' \subseteq Taken
  BY <1>1 DEF IInv, OnlyTaken
<1>7. CASE /\ flush' = [flush EXCEPT ![k] =
                         [st |-> "sent", via |-> client, batch |-> rest, sent |-> ids]]
           /\ UNCHANGED buffer
  <2>1. flush'[k].st = "sent" /\ flush'[k].batch = rest /\ flush'[k].sent = ids
    BY <1>0, <1>7
  <2>2. \A n \in ids : n < nextId /\ \A x \in buffer : x.id = n => x.msg \in accepted
    BY <1>0, <1>3, <1>4 DEF LoopConsistent
  <2>3. LoopConsistent(k)'
    BY <1>0, <1>1, <1>7, <2>1, <2>2 DEF LoopConsistent
  <2> QED
    BY <1>1, <1>5, <1>6, <1>7, <2>3, LoopStepInv
<1>8. CASE flush' = [flush EXCEPT ![k] = Asleep] /\ buffer' = Remaining(ids)
  <2>1. LoopConsistent(k)'
    BY <1>0, <1>8 DEF LoopConsistent, Asleep
  <2>2. buffer' \subseteq buffer /\ \A x \in buffer \ buffer' : x.msg \in accepted
    BY <1>4, <1>8 DEF Remaining
  <2> QED
    BY <1>1, <1>5, <1>6, <2>1, <2>2, LoopStepInv
<1> QED
  BY <1>2, <1>7, <1>8

\* A failed replay deletes the rows before the failing one.
LEMMA FlushFailsInv ==
  ASSUME IInv, TypeOK', NEW k \in Loops, FlushFails(k)
  PROVE  IInv'
<1>0. TypeOK /\ LoopConsistent(k) /\ flush \in [Loops -> FlushStates]
  BY DEF IInv, TypeOK
<1>1. PICK row \in flush[k].batch : Abandon(flush[k].st, flush[k].via, row.msg)
  BY DEF FlushFails
<1>2. /\ late \cup accepted \subseteq Taken /\ row.msg \in Taken
  BY <1>0, <1>1 DEF IInv, OnlyTaken, LoopConsistent
<1>3. late' \subseteq Taken /\ accepted' \subseteq Taken
  BY <1>1, <1>2 DEF Abandon, FlushFails
<1>4. buffer' \subseteq buffer /\ \A x \in buffer \ buffer' : x.msg \in accepted
  BY <1>0 DEF FlushFails, Remaining, LoopConsistent
<1>5. LoopConsistent(k)'
  BY <1>0 DEF FlushFails, LoopConsistent, Asleep
<1> QED
  BY <1>0, <1>3, <1>4, <1>5, LoopStepInv DEF FlushFails

\* The steps of flush loop k, and of the broker for it, that do not touch the table.
LEMMA LoopStepsInv ==
  ASSUME IInv, TypeOK', NEW k \in Loops,
         FlushStart(k) \/ FlushHangs(k) \/ AcceptFromFlush(k)
  PROVE  IInv'
<1>0. TypeOK /\ LoopConsistent(k) /\ flush \in [Loops -> FlushStates]
  BY DEF IInv, TypeOK
<1>1. late \cup accepted \subseteq Taken
  BY DEF IInv, OnlyTaken
<1>2. CASE FlushStart(k)
  <2>1. flush'[k] = [st |-> "sent", via |-> client, batch |-> PendingBatch, sent |-> {}]
    BY <1>0, <1>2 DEF FlushStart
  <2>2. \A row \in buffer : row.id < nextId /\ row.msg \in Taken
    BY DEF IInv, RowsDistinct, OnlyTaken, Buffered
  <2>3. \A x, y \in buffer : x.id = y.id => x = y
    BY DEF IInv, RowsDistinct
  <2>4. LoopConsistent(k)'
    BY <1>2, <2>1, <2>2, <2>3, PendingSubset DEF FlushStart, LoopConsistent, Taken
  <2> QED
    BY <1>0, <1>1, <1>2, <2>4, LoopStepInv DEF FlushStart
<1>3. CASE FlushHangs(k)
  <2>1. flush'[k] = [flush[k] EXCEPT !.st = "hung"]
    BY <1>0, <1>3 DEF FlushHangs
  <2>2. flush'[k].batch = flush[k].batch /\ flush'[k].sent = flush[k].sent
        /\ flush'[k].st = "hung"
    BY <1>0, <2>1 DEF FlushStates
  <2>3. LoopConsistent(k)'
    BY <1>0, <1>3, <2>2 DEF FlushHangs, LoopConsistent, Taken
  <2> QED
    BY <1>0, <1>1, <1>3, <2>3, LoopStepInv DEF FlushHangs
<1>4. CASE AcceptFromFlush(k)
  <2>1. PICK row \in flush[k].batch :
          Oldest(row, flush[k].batch) /\ accepted' = accepted \cup {row.msg}
    BY <1>4 DEF AcceptFromFlush
  <2>2. flush'[k].batch = flush[k].batch /\ flush'[k].sent = flush[k].sent
    BY <1>0, <1>4 DEF AcceptFromFlush, FlushStates
  <2>3. ASSUME NEW x \in flush[k].batch, Oldest(x, flush[k].batch)
        PROVE  x.msg \in accepted'
    <3>1. x.id \in Nat /\ row.id \in Nat /\ x.id <= row.id /\ row.id <= x.id
      BY <1>0, <2>1, <2>3 DEF Oldest, FlushStates, Rows
    <3>2. x = row
      BY <1>0, <2>1, <3>1 DEF LoopConsistent
    <3> QED
      BY <2>1, <3>2
  <2>4. LoopConsistent(k)'
    BY <1>0, <1>4, <2>1, <2>2, <2>3 DEF AcceptFromFlush, LoopConsistent, Taken, Oldest
  <2>5. row.msg \in Taken
    BY <1>0, <2>1 DEF LoopConsistent
  <2> QED
    BY <1>0, <1>1, <1>4, <2>1, <2>4, <2>5, LoopStepInv DEF AcceptFromFlush
<1> QED
  BY <1>2, <1>3, <1>4
--------------------------------------------------------------------------------
(* The steps of the broker, the connection and the process *)

\* A loop that is off or asleep has no view of the table to keep.
LEMMA IdleLoopConsistent ==
  ASSUME NEW k \in Loops, flush'[k] \in {Asleep, NoLoop}
  PROVE  LoopConsistent(k)'
BY DEF LoopConsistent, Asleep, NoLoop

LEMMA EnvironmentInv ==
  ASSUME IInv, TypeOK', (\E r \in Readings : AcceptLate(r)) \/ LinkDown \/ Connect \/ RunFails
  PROVE  IInv'
<1>0. TypeOK /\ flush \in [Loops -> FlushStates]
  BY DEF IInv, TypeOK
<1>1. /\ taken' = taken /\ poll' = poll /\ buffer' = buffer /\ nextId' = nextId /\ lost' = lost
      /\ accepted \subseteq accepted' /\ late' \cup accepted' \subseteq late \cup accepted
  BY DEF AcceptLate, LinkDown, Connect, RunFails, pathVars
<1>2. /\ Taken' = Taken /\ Buffered' = Buffered /\ InFlight' = InFlight /\ RowsDistinct'
  BY <1>1 DEF IInv, RowsDistinct, Taken, Buffered, InFlight, Newest
<1>3. \A d \in Devices : PollConsistent(d)'
  BY <1>1, <1>2, PollStays DEF IInv
<1>4. ASSUME NEW k \in Loops PROVE LoopConsistent(k)'
  <2>1. flush'[k] = flush[k] \/ flush'[k] = Asleep
    BY <1>0 DEF AcceptLate, LinkDown, Connect, RunFails, pathVars
  <2>2. CASE flush'[k] = flush[k]
    BY <1>0, <1>1, <1>2, <2>2, LoopStays DEF IInv
  <2> QED
    BY <2>1, <2>2, IdleLoopConsistent
<1>5. OnlyTaken'
  BY <1>1, <1>2 DEF IInv, OnlyTaken
<1>6. NoReadingDropped'
  BY <1>1, <1>2, NothingDropped DEF IInv, Held
<1> QED
  BY <1>2, <1>3, <1>4, <1>5, <1>6 DEF IInv

LEMMA RestartInv ==
  ASSUME IInv, TypeOK', Restart
  PROVE  IInv'
<1>0. TypeOK
  BY DEF IInv
<1>1. /\ taken' = taken /\ buffer' = buffer /\ nextId' = nextId /\ accepted' = accepted
      /\ late' = {} /\ poll' = [d \in Devices |-> NoTask] /\ flush' = [k \in Loops |-> NoLoop]
  BY DEF Restart
<1>2. Taken' = Taken /\ Buffered' = Buffered /\ RowsDistinct'
  BY <1>1 DEF IInv, RowsDistinct, Taken, Buffered
<1>3. \A d \in Devices : PollConsistent(d)'
  BY <1>1 DEF PollConsistent, NoTask, Awaiting
<1>4. \A k \in Loops : LoopConsistent(k)'
  BY <1>1, IdleLoopConsistent
<1>5. InFlight \subseteq accepted \cup lost'
  BY DEF IInv, PollConsistent, InFlight, Awaiting, Restart
<1>6. lost \subseteq lost' /\ lost' \subseteq lost \cup InFlight
  BY DEF Restart, InFlight, Awaiting
<1>7. InFlight \subseteq Taken
  BY <1>0, NewestTaken DEF InFlight
<1>8. OnlyTaken'
  BY <1>1, <1>2, <1>6, <1>7 DEF IInv, OnlyTaken
<1>9. NoReadingDropped'
  BY <1>1, <1>2, <1>5, <1>6, NothingDropped DEF IInv, Held
<1> QED
  BY <1>2, <1>3, <1>4, <1>8, <1>9 DEF IInv
--------------------------------------------------------------------------------
(* The theorems *)

LEMMA InvInit == Init => IInv
<1> SUFFICES ASSUME Init PROVE IInv
  OBVIOUS
<1>1. TypeOK
  BY GatewayAssumption DEF Init, TypeOK, NoClient, Loops, Awaiting, PollStates, FlushStates,
     NoTask, NoLoop
<1>2. RowsDistinct /\ OnlyTaken
  BY DEF Init, RowsDistinct, OnlyTaken, Buffered
<1>3. \A d \in Devices : PollConsistent(d)
  BY DEF Init, PollConsistent, NoTask, Awaiting
<1>4. \A k \in Loops : LoopConsistent(k)
  BY DEF Init, LoopConsistent, NoLoop
<1>5. NoReadingDropped
  BY GatewayAssumption DEF Init, NoReadingDropped, Taken, Readings
<1> QED
  BY <1>1, <1>2, <1>3, <1>4, <1>5 DEF IInv

LEMMA InvStep == IInv /\ [Next]_vars => IInv'
<1> SUFFICES ASSUME IInv, [Next]_vars PROVE IInv'
  OBVIOUS
<1>0. TypeOK'
  BY TypeStep DEF IInv
<1>1. ASSUME NEW d \in Devices, PollPublish(d) PROVE IInv'
  BY <1>0, <1>1, PollPublishInv
<1>2. ASSUME NEW d \in Devices, PollFails(d) PROVE IInv'
  BY <1>0, <1>2, PollFailsInv
<1>3. ASSUME NEW d \in Devices,
             PollAcked(d) \/ StartPolling(d) \/ CancelPolling(d) \/ AcceptFromPoll(d)
      PROVE  IInv'
  BY <1>0, <1>3, TaskStepsInv
<1>4. ASSUME NEW k \in Loops, FlushAcked(k) PROVE IInv'
  BY <1>0, <1>4, FlushAckedInv
<1>5. ASSUME NEW k \in Loops, FlushFails(k) PROVE IInv'
  BY <1>0, <1>5, FlushFailsInv
<1>6. ASSUME NEW k \in Loops, FlushStart(k) \/ FlushHangs(k) \/ AcceptFromFlush(k)
      PROVE  IInv'
  BY <1>0, <1>6, LoopStepsInv
<1>7. CASE (\E r \in Readings : AcceptLate(r)) \/ LinkDown \/ Connect \/ RunFails
  BY <1>0, <1>7, EnvironmentInv
<1>8. CASE Restart
  BY <1>0, <1>8, RestartInv
<1>9. CASE UNCHANGED vars
  BY <1>0, <1>9 DEF vars, IInv, RowsDistinct, PollConsistent, LoopConsistent, OnlyTaken,
     NoReadingDropped, Held, Buffered, InFlight, Taken, Newest, Oldest
<1> QED
  BY <1>1, <1>2, <1>3, <1>4, <1>5, <1>6, <1>7, <1>8, <1>9 DEF Next

\* The gateway's view of its table stays consistent, whatever the number of devices, of
\* flush loops, of outages and of restarts.
THEOREM Invariance == Spec => []IInv
BY InvInit, InvStep, PTL DEF Spec

\* No order of outage, timeout, replay by several flush loops and restart drops a
\* reading that was not cancelled in mid-publish.
THEOREM NothingIsDropped == Spec => []NoReadingDropped
<1>1. IInv => NoReadingDropped
  BY DEF IInv
<1> QED
  BY <1>1, Invariance, PTL

\* A step deletes a row only if the broker has its reading.
LEMMA RemovalStep ==
  IInv /\ [Next]_vars => \A row \in buffer : row \notin buffer' => row.msg \in accepted
<1> SUFFICES ASSUME IInv, [Next]_vars, NEW row \in buffer, row \notin buffer'
             PROVE  row.msg \in accepted
  OBVIOUS
<1>1. ASSUME NEW k \in Loops, FlushAcked(k) PROVE row.msg \in accepted
  <2>1. LoopConsistent(k)
    BY DEF IInv
  <2>2. PICK oldest \in flush[k].batch : /\ Oldest(oldest, flush[k].batch)
                                        /\ \/ UNCHANGED buffer
                                           \/ buffer' = Remaining(flush[k].sent \cup {oldest.id})
    BY <1>1 DEF FlushAcked
  <2>3. row.id \in flush[k].sent \/ row.id = oldest.id
    BY <2>2 DEF Remaining
  <2> QED
    BY <1>1, <2>1, <2>2, <2>3 DEF LoopConsistent, FlushAcked
<1>2. ASSUME NEW k \in Loops, FlushFails(k) PROVE row.msg \in accepted
  <2>1. LoopConsistent(k)
    BY DEF IInv
  <2> QED
    BY <1>2, <2>1 DEF FlushFails, Remaining, LoopConsistent
<1> QED
  BY <1>1, <1>2 DEF Next, vars, PollPublish, PollAcked, PollFails, StartPolling, CancelPolling,
     AcceptFromPoll, FlushStart, FlushHangs, AcceptFromFlush, AcceptLate, LinkDown, Connect,
     RunFails, Restart, Enqueue, pathVars

\* Whichever flush loop deletes a row, and however stale its batch, the broker has it.
THEOREM RemovalIsSafe == Spec => RemovedOnlyIfAccepted
<1>1. IInv /\ [Next]_vars => [\A row \in buffer : row \notin buffer' => row.msg \in accepted]_vars
  BY RemovalStep
<1> QED
  BY <1>1, Invariance, PTL DEF Spec, RemovedOnlyIfAccepted
--------------------------------------------------------------------------------
(* The gateway implements the outbox *)

LEMMA MapProduce ==
  ASSUME NEW m \in Readings, m \notin Held \cup accepted \cup lost, Held' = Held \cup {m},
         accepted' = accepted, lost' = lost
  PROVE  Promise!OutboxNext
BY DEF Promise!OutboxNext, Promise!Produce

LEMMA MapDeliver ==
  ASSUME NEW m \in Readings, m \in Held \cup accepted \cup lost, accepted' = accepted \cup {m},
         Held' = Held, lost' = lost
  PROVE  Promise!OutboxNext
BY DEF Promise!OutboxNext, Promise!Deliver

LEMMA MapRelease ==
  ASSUME Held' \subseteq Held, Held \ Held' \subseteq accepted, accepted' = accepted, lost' = lost
  PROVE  Promise!OutboxNext
<1> DEFINE ms == Held \ Held'
<1>1. ms \in SUBSET Held /\ Held' = Held \ ms
  OBVIOUS
<1> QED
  BY <1>1 DEF Promise!OutboxNext, Promise!Release

LEMMA MapGiveUp ==
  ASSUME Held' \subseteq Held, lost' = lost \cup ((Held \ Held') \ accepted), accepted' = accepted
  PROVE  Promise!OutboxNext
<1> DEFINE ms == Held \ Held'
<1>1. ms \in SUBSET Held /\ Held' = Held \ ms
  OBVIOUS
<1> QED
  BY <1>1 DEF Promise!OutboxNext, Promise!GiveUp

\* A new reading is new to the outbox.
LEMMA PublishMaps ==
  ASSUME IInv, NEW d \in Devices, PollPublish(d)
  PROVE  Promise!OutboxNext
<1> DEFINE r == [dev |-> d, seq |-> taken[d] + 1]
<1>0. TypeOK
  BY DEF IInv
<1>1. r \in Readings /\ r \notin Taken
  BY <1>0, GatewayAssumption DEF PollPublish, TypeOK, Taken, Readings
<1>2. r \notin Held \cup accepted \cup lost
  BY <1>0, <1>1, NewestTaken DEF IInv, OnlyTaken, Held, InFlight
<1>3. /\ poll[d].st = "idle" /\ accepted' = accepted /\ lost' = lost
      /\ \A e \in Devices \ {d} : poll'[e] = poll[e] /\ Newest(e)' = Newest(e)
  BY <1>0 DEF PollPublish, TypeOK, Newest
<1>4. CASE client = NoClient
  <2>1. Enqueue(r) /\ poll' = poll
    BY <1>4 DEF PollPublish
  <2>2. Buffered' = Buffered \cup {r}
    BY <2>1, EnqueueAdds
  <2>3. InFlight' = InFlight
    BY <1>3, <2>1 DEF InFlight, Awaiting
  <2> QED
    BY <1>1, <1>2, <1>3, <2>2, <2>3, MapProduce DEF Held
<1>5. CASE client # NoClient
  <2>1. buffer' = buffer /\ poll'[d].st = "sent" /\ Newest(d)' = r
    BY <1>0, <1>5 DEF PollPublish, TypeOK, Newest
  <2>2. Buffered' = Buffered
    BY <2>1 DEF Buffered
  <2>3. InFlight' = InFlight \cup {r}
    BY <1>3, <2>1 DEF InFlight, Awaiting
  <2> QED
    BY <1>1, <1>2, <1>3, <2>2, <2>3, MapProduce DEF Held
<1> QED
  BY <1>4, <1>5

\* Every other step of a polling task releases, gives up or keeps its reading.
LEMMA TaskMaps ==
  ASSUME IInv, NEW d \in Devices,
         PollAcked(d) \/ PollFails(d) \/ StartPolling(d) \/ CancelPolling(d) \/ AcceptFromPoll(d)
  PROVE  Promise!OutboxNext
<1>0. TypeOK /\ poll \in [Devices -> PollStates] /\ PollConsistent(d)
  BY DEF IInv, TypeOK
<1>1. /\ taken' = taken /\ \A e \in Devices \ {d} : poll'[e] = poll[e]
      /\ \A e \in Devices : Newest(e)' = Newest(e)
  BY <1>0 DEF PollAcked, PollFails, StartPolling, CancelPolling, AcceptFromPoll, Newest
<1>2. \A e \in Devices \ {d} : Newest(e) # Newest(d)
  BY DEF Newest
<1>3. CASE poll[d].st \notin Awaiting
  <2>1. poll'[d].st \notin Awaiting /\ buffer' = buffer /\ accepted' = accepted /\ lost' = lost
    BY <1>0, <1>3 DEF PollAcked, PollFails, StartPolling, CancelPolling, AcceptFromPoll,
       Resting, NoTask, Awaiting
  <2>2. InFlight' = InFlight /\ Buffered' = Buffered
    BY <1>1, <1>3, <2>1 DEF InFlight, Buffered
  <2> QED
    BY <2>1, <2>2, MapRelease DEF Held
<1>4. CASE poll[d].st \in Awaiting /\ (PollAcked(d) \/ CancelPolling(d))
  <2>1. poll'[d].st \notin Awaiting /\ buffer' = buffer /\ accepted' = accepted
    BY <1>0, <1>4 DEF PollAcked, CancelPolling, Resting, NoTask, Awaiting
  <2>2. Newest(d) \in InFlight /\ Newest(d) \notin Buffered
    BY <1>0, <1>4 DEF PollConsistent, InFlight
  <2>3. InFlight' = InFlight \ {Newest(d)} /\ Buffered' = Buffered
    BY <1>1, <1>2, <2>1 DEF InFlight, Buffered
  <2>4. Held' \subseteq Held /\ Held \ Held' = {Newest(d)}
    BY <2>2, <2>3 DEF Held
  <2>5. lost' = lost \cup ({Newest(d)} \ accepted)
    BY <1>0, <1>4 DEF PollAcked, CancelPolling, PollConsistent, Awaiting
  <2> QED
    BY <2>1, <2>4, <2>5, MapGiveUp
<1>5. CASE PollFails(d)
  <2>1. poll'[d].st \notin Awaiting /\ accepted' = accepted /\ lost' = lost
    BY <1>0, <1>5 DEF PollFails, Resting, Awaiting
  <2>2. Buffered' = Buffered \cup {Newest(d)}
    BY <1>5, EnqueueAdds DEF PollFails
  <2>3. InFlight = InFlight' \cup {Newest(d)}
    BY <1>1, <1>5, <2>1 DEF InFlight, PollFails
  <2> QED
    BY <2>1, <2>2, <2>3, MapRelease DEF Held
<1>6. CASE AcceptFromPoll(d)
  <2>1. /\ poll[d].st \in Awaiting /\ poll'[d].st \in Awaiting /\ buffer' = buffer
        /\ accepted' = accepted \cup {Newest(d)} /\ lost' = lost
    BY <1>0, <1>6 DEF AcceptFromPoll, PollStates, Awaiting
  <2>2. InFlight' = InFlight /\ Buffered' = Buffered /\ Newest(d) \in InFlight
    BY <1>1, <2>1 DEF InFlight, Buffered
  <2>3. Newest(d) \in Readings
    BY <1>0, <2>1, NewestIsReading DEF TypeOK
  <2> QED
    BY <2>1, <2>2, <2>3, MapDeliver DEF Held
<1>7. CASE StartPolling(d)
  BY <1>3, <1>7 DEF StartPolling, Awaiting
<1> QED
  BY <1>3, <1>4, <1>5, <1>6, <1>7

\* A step of a flush loop delivers the reading of a row or releases delivered ones.
LEMMA LoopMaps ==
  ASSUME IInv, NEW k \in Loops,
         FlushStart(k) \/ FlushAcked(k) \/ FlushFails(k) \/ FlushHangs(k) \/ AcceptFromFlush(k)
  PROVE  Promise!OutboxNext
<1>0. TypeOK /\ LoopConsistent(k)
  BY DEF IInv, TypeOK
<1>1. taken' = taken /\ poll' = poll /\ lost' = lost
  BY DEF FlushStart, FlushAcked, FlushFails, FlushHangs, AcceptFromFlush
<1>2. InFlight' = InFlight
  BY <1>1 DEF InFlight, Newest
<1>3. CASE FlushStart(k) \/ FlushAcked(k) \/ FlushFails(k) \/ FlushHangs(k)
  <2>1. buffer' \subseteq buffer /\ accepted' = accepted
    BY <1>3 DEF FlushStart, FlushAcked, FlushFails, FlushHangs, Remaining
  <2>2. \A row \in buffer : row \notin buffer' => row.msg \in accepted
    BY <1>3, RemovalStep DEF Next
  <2>3. Held' \subseteq Held /\ Held \ Held' \subseteq accepted
    BY <1>2, <2>1, <2>2 DEF Held, Buffered
  <2> QED
    BY <1>1, <2>1, <2>3, MapRelease
<1>4. CASE AcceptFromFlush(k)
  <2>1. PICK row \in flush[k].batch : accepted' = accepted \cup {row.msg}
    BY <1>4 DEF AcceptFromFlush
  <2>2. row.msg \in Taken /\ row.msg \in Readings
    BY <1>0, <2>1 DEF LoopConsistent, Taken
  <2>3. row.msg \in Held \cup accepted \cup lost
    BY <2>2 DEF IInv, NoReadingDropped
  <2>4. Held' = Held
    BY <1>2, <1>4 DEF AcceptFromFlush, Held, Buffered
  <2> QED
    BY <1>1, <2>1, <2>2, <2>3, <2>4, MapDeliver
<1> QED
  BY <1>3, <1>4

\* A late delivery is a delivery, and a restart gives up what was in flight.
LEMMA EnvironmentMaps ==
  ASSUME IInv, (\E r \in Readings : AcceptLate(r)) \/ LinkDown \/ Connect \/ RunFails \/ Restart
  PROVE  Promise!OutboxNext
<1>0. TypeOK
  BY DEF IInv
<1>1. taken' = taken /\ buffer' = buffer /\ Buffered' = Buffered
  BY DEF AcceptLate, LinkDown, Connect, RunFails, Restart, pathVars, Buffered
<1>2. ASSUME NEW r \in Readings, AcceptLate(r) PROVE Promise!OutboxNext
  <2>1. r \in Held \cup accepted \cup lost
    BY <1>2 DEF AcceptLate, IInv, OnlyTaken, NoReadingDropped
  <2>2. InFlight' = InFlight
    BY <1>2 DEF AcceptLate, pathVars, InFlight, Newest
  <2> QED
    BY <1>1, <1>2, <2>1, <2>2, MapDeliver DEF AcceptLate, Held
<1>3. CASE LinkDown \/ Connect \/ RunFails
  <2>1. InFlight' = InFlight
    BY <1>3 DEF LinkDown, Connect, RunFails, pathVars, InFlight, Newest
  <2> QED
    BY <1>1, <1>3, <2>1, MapRelease DEF LinkDown, Connect, RunFails, Held
<1>4. CASE Restart
  <2>1. InFlight' = {}
    BY <1>4 DEF Restart, InFlight, NoTask, Awaiting
  <2>2. InFlight \cap Buffered = {}
    BY DEF IInv, PollConsistent, InFlight
  <2>3. Held' \subseteq Held /\ Held \ Held' = InFlight
    BY <1>1, <2>1, <2>2 DEF Held
  <2>4. lost' = lost \cup (InFlight \ accepted)
    BY <1>4 DEF IInv, PollConsistent, Restart, InFlight, Awaiting
  <2> QED
    BY <1>4, <2>3, <2>4, MapGiveUp DEF Restart
<1> QED
  BY <1>2, <1>3, <1>4

\* The gateway's publishing path keeps the outbox's promise in every behaviour.
THEOREM Refinement == Spec => ImplementsOutbox
<1>1. Init => Promise!OutboxInit
  BY DEF Init, Promise!OutboxInit, Held, Buffered, InFlight, NoTask, Awaiting
<1>2. IInv /\ [Next]_vars => [Promise!OutboxNext]_(Promise!outboxVars)
  <2> SUFFICES ASSUME IInv, [Next]_vars PROVE [Promise!OutboxNext]_(Promise!outboxVars)
    OBVIOUS
  <2>1. CASE UNCHANGED vars
    BY <2>1 DEF vars, Promise!outboxVars, Held, Buffered, InFlight, Newest
  <2> QED
    BY <2>1, PublishMaps, TaskMaps, LoopMaps, EnvironmentMaps DEF Next
<1> QED
  BY <1>1, <1>2, Invariance, PTL DEF Spec, ImplementsOutbox, Promise!OutboxSpec
================================================================================
