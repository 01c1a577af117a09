----------------------------- MODULE GatewayBuffer -----------------------------
(***************************************************************************)
(* Store and forward in the edge gateway (edge-gateway/gateway/main.py and *)
(* buffer.py): every polling task publishes its reading over the one MQTT  *)
(* client and puts it in the disk buffer when that fails; a flush loop     *)
(* replays the buffer; main() runs the client again after every failure.   *)
(*                                                                         *)
(* All of it runs on one asyncio loop, so a step of this module is what a  *)
(* task does between two awaits.  main() awaits an asyncio.gather, which   *)
(* passes the first exception on and leaves the other loops running: each  *)
(* successful connection therefore adds a flush loop that only the end of  *)
(* the process stops.  Flush loop k is the one started by connection k.    *)
(***************************************************************************)
EXTENDS Naturals, FiniteSets

CONSTANTS
  Devices,      \* devices assigned to this gateway
  MaxReadings,  \* bound: readings taken per device
  MaxConnects,  \* bound: successful connections to the broker
  MaxStalls,    \* bound: publishes that time out over a live connection
  MaxHangs,     \* bound: publishes of a flush loop that never return
  MaxRestarts,  \* bound: restarts of the gateway process
  BatchLimit    \* rows a flush loop fetches at once

ASSUME GatewayAssumption ==
  /\ MaxReadings \in Nat /\ MaxConnects \in Nat /\ MaxStalls \in Nat
  /\ MaxHangs \in Nat /\ MaxRestarts \in Nat /\ BatchLimit \in Nat \ {0}

VARIABLES
  taken,    \* taken[d]: readings device d has produced; the last one is the newest
  poll,     \* poll[d]: where d's polling task stands
  flush,    \* flush[k]: where flush loop k stands
  buffer,   \* rows of the SQLite table "pending"
  nextId,   \* the table's AUTOINCREMENT counter
  client,   \* Gateway.mqtt_client: the number of its connection, or NoClient
  link,     \* external: the connection that is alive, or NoClient
  late,     \* external: publishes whose caller gave up, still held by the client
  accepted, \* history: readings the broker has taken
  lost,     \* history: readings that died with their task or with the process
  connects, stalls, hangs, restarts

pathVars == <<taken, poll, flush, buffer, nextId>>
linkVars == <<client, link, connects, stalls, hangs, restarts>>
vars == <<taken, poll, flush, buffer, nextId, client, link, late, accepted, lost,
          connects, stalls, hangs, restarts>>

NoClient == 0
Loops == 1..MaxConnects
Readings == [dev : Devices, seq : 1..MaxReadings]
Rows == [id : Nat, msg : Readings]

\* A publisher is off, idle (asleep), or awaits a publish over connection "via":
\* "sent" until the broker has the message, "acked" from then on.
PollStates == [st : {"off", "idle", "sent", "acked"}, via : 0..MaxConnects]
FlushStates == [st : {"off", "idle", "sent", "acked", "hung"}, via : 0..MaxConnects,
                batch : SUBSET Rows, sent : SUBSET Nat]
Awaiting == {"sent", "acked"}

NoTask == [st |-> "off", via |-> NoClient]
Resting == [st |-> "idle", via |-> NoClient]
NoLoop == [st |-> "off", via |-> NoClient, batch |-> {}, sent |-> {}]
Asleep == [st |-> "idle", via |-> NoClient, batch |-> {}, sent |-> {}]

TypeOK ==
  /\ taken \in [Devices -> 0..MaxReadings]
  /\ poll \in [Devices -> PollStates]
  /\ flush \in [Loops -> FlushStates]
  /\ buffer \subseteq Rows
  /\ nextId \in Nat
  /\ client \in 0..connects /\ link \in {NoClient, client}
  /\ late \subseteq Readings /\ accepted \subseteq Readings /\ lost \subseteq Readings
  /\ connects \in 0..MaxConnects /\ stalls \in 0..MaxStalls
  /\ hangs \in 0..MaxHangs /\ restarts \in 0..MaxRestarts
  /\ \A d \in Devices : poll[d].st \in Awaiting => poll[d].via \in 1..connects /\ taken[d] > 0
  /\ \A k \in Loops : flush[k].st \in Awaiting => flush[k].via \in 1..connects

Init ==
  /\ taken = [d \in Devices |-> 0]
  /\ poll = [d \in Devices |-> NoTask]
  /\ flush = [k \in Loops |-> NoLoop]
  /\ buffer = {} /\ nextId = 1
  /\ client = NoClient /\ link = NoClient
  /\ late = {} /\ accepted = {} /\ lost = {}
  /\ connects = 0 /\ stalls = 0 /\ hangs = 0 /\ restarts = 0
--------------------------------------------------------------------------------
(* LocalBuffer *)

\* A wrong variant: a rowid without AUTOINCREMENT is one above the largest row left.
ReusedRowId == IF buffer = {} THEN 1
               ELSE CHOOSE n \in 1..nextId : /\ \E row \in buffer : n = row.id + 1
                                             /\ \A row \in buffer : row.id < n

\* AUTOINCREMENT: an id is never given out again, even after its row is deleted.
NewRowId == nextId

Enqueue(r) ==
  /\ buffer' = buffer \cup {[id |-> NewRowId, msg |-> r]}
  /\ nextId' = nextId + 1

PendingBatch ==
  {row \in buffer : Cardinality({x \in buffer : x.id < row.id}) < BatchLimit}

Oldest(row, rows) == \A x \in rows : row.id <= x.id

Remaining(ids) == {row \in buffer : row.id \notin ids}
--------------------------------------------------------------------------------
(* Publishing a reading: Gateway.publish and Gateway.poll_device *)

Newest(d) == [dev |-> d, seq |-> taken[d]]

\* The await of a publish ends with an exception: its connection is gone, or it
\* timed out over a live one.
PublishRaises(via) ==
  \/ via # link /\ UNCHANGED stalls
  \/ via = link /\ stalls < MaxStalls /\ stalls' = stalls + 1

\* What the client still holds when the caller of an unacknowledged publish is gone.
Abandon(st, via, r) ==
  late' = IF st = "sent" /\ via = link THEN late \cup {r} ELSE late

\* A wrong variant: publish() without its "mqtt_client is None" case.
UnguardedPollPublish(d) ==
  /\ poll[d].st = "idle" /\ taken[d] < MaxReadings
  /\ taken' = [taken EXCEPT ![d] = @ + 1]
  /\ poll' = [poll EXCEPT ![d] = [st |-> "sent", via |-> client]]
  /\ UNCHANGED <<flush, buffer, nextId, late, accepted, lost>> /\ UNCHANGED linkVars

\* Device d's task wakes, reads its tags and calls publish.
PollPublish(d) ==
  /\ poll[d].st = "idle" /\ taken[d] < MaxReadings
  /\ taken' = [taken EXCEPT ![d] = @ + 1]
  /\ \/ /\ client = NoClient
        /\ Enqueue([dev |-> d, seq |-> taken[d] + 1])
        /\ UNCHANGED poll
     \/ /\ client # NoClient
        /\ poll' = [poll EXCEPT ![d] = [st |-> "sent", via |-> client]]
        /\ UNCHANGED <<buffer, nextId>>
  /\ UNCHANGED <<flush, late, accepted, lost>> /\ UNCHANGED linkVars

PollAcked(d) ==
  /\ poll[d].st = "acked"
  /\ poll' = [poll EXCEPT ![d] = Resting]
  /\ UNCHANGED <<taken, flush, buffer, nextId, late, accepted, lost>> /\ UNCHANGED linkVars

\* A wrong variant: the except clause logs and does not buffer.
PollFailsUnbuffered(d) ==
  /\ poll[d].st \in Awaiting
  /\ PublishRaises(poll[d].via)
  /\ poll' = [poll EXCEPT ![d] = Resting]
  /\ Abandon(poll[d].st, poll[d].via, Newest(d))
  /\ UNCHANGED <<taken, flush, buffer, nextId, accepted, lost>>
  /\ UNCHANGED <<client, link, connects, hangs, restarts>>

\* publish's wait_for raises: the reading goes to the buffer.
PollFails(d) ==
  /\ poll[d].st \in Awaiting
  /\ PublishRaises(poll[d].via)
  /\ Enqueue(Newest(d))
  /\ poll' = [poll EXCEPT ![d] = Resting]
  /\ Abandon(poll[d].st, poll[d].via, Newest(d))
  /\ UNCHANGED <<taken, flush, accepted, lost>>
  /\ UNCHANGED <<client, link, connects, hangs, restarts>>

\* reconcile starts d's task: only a process that has connected once has a
\* config_poll_loop, and a leaked one goes on without a connection.
StartPolling(d) ==
  /\ poll[d].st = "off"
  /\ \E k \in Loops : flush[k].st # "off"
  /\ poll' = [poll EXCEPT ![d] = Resting]
  /\ UNCHANGED <<taken, flush, buffer, nextId, late, accepted, lost>> /\ UNCHANGED linkVars

\* reconcile or the watchdog cancels d's task.  CancelledError is not an Exception,
\* so a reading whose publish is under way is not buffered.
CancelPolling(d) ==
  /\ poll[d].st # "off"
  /\ poll' = [poll EXCEPT ![d] = NoTask]
  /\ lost' = IF poll[d].st = "sent" THEN lost \cup ({Newest(d)} \ accepted) ELSE lost
  /\ Abandon(poll[d].st, poll[d].via, Newest(d))
  /\ UNCHANGED <<taken, flush, buffer, nextId, accepted>> /\ UNCHANGED linkVars
--------------------------------------------------------------------------------
(* Gateway.flush_buffer_loop *)

FlushStart(k) ==
  /\ flush[k].st = "idle"
  /\ client # NoClient /\ buffer # {}
  /\ flush' = [flush EXCEPT ![k] =
                 [st |-> "sent", via |-> client, batch |-> PendingBatch, sent |-> {}]]
  /\ UNCHANGED <<taken, poll, buffer, nextId, late, accepted, lost>> /\ UNCHANGED linkVars

\* A publish of the loop returned: go on with the next row (self.mqtt_client is read
\* again and may be None, which ends the batch like any exception), or delete what
\* was sent and sleep.
FlushAcked(k) ==
  /\ flush[k].st = "acked"
  /\ \E row \in flush[k].batch :
       LET rest == flush[k].batch \ {row}
           ids == flush[k].sent \cup {row.id}
       IN  /\ Oldest(row, flush[k].batch)
           /\ \/ /\ rest # {} /\ client # NoClient
                 /\ flush' = [flush EXCEPT ![k] =
                                [st |-> "sent", via |-> client, batch |-> rest, sent |-> ids]]
                 /\ UNCHANGED buffer
              \/ /\ rest = {} \/ client = NoClient
                 /\ flush' = [flush EXCEPT ![k] = Asleep]
                 /\ buffer' = Remaining(ids)
  /\ UNCHANGED <<taken, poll, nextId, late, accepted, lost>> /\ UNCHANGED linkVars

\* A wrong variant: the failing row is deleted with the rows before it.
FlushFailsRemovesRow(k) ==
  /\ flush[k].st \in Awaiting
  /\ PublishRaises(flush[k].via)
  /\ \E row \in flush[k].batch :
       /\ Oldest(row, flush[k].batch)
       /\ Abandon(flush[k].st, flush[k].via, row.msg)
       /\ buffer' = Remaining(flush[k].sent \cup {row.id})
  /\ flush' = [flush EXCEPT ![k] = Asleep]
  /\ UNCHANGED <<taken, poll, nextId, accepted, lost>>
  /\ UNCHANGED <<client, link, connects, hangs, restarts>>

\* A wrong variant: an exception ends the loop instead of the batch.
FlushFailsEndsLoop(k) ==
  /\ flush[k].st \in Awaiting
  /\ PublishRaises(flush[k].via)
  /\ \E row \in flush[k].batch :
       Oldest(row, flush[k].batch) /\ Abandon(flush[k].st, flush[k].via, row.msg)
  /\ flush' = [flush EXCEPT ![k] = NoLoop]
  /\ UNCHANGED <<taken, poll, buffer, nextId, accepted, lost>>
  /\ UNCHANGED <<client, link, connects, hangs, restarts>>

\* A publish of the loop raised: break, then delete the rows sent before it.
FlushFails(k) ==
  /\ flush[k].st \in Awaiting
  /\ PublishRaises(flush[k].via)
  /\ \E row \in flush[k].batch :
       Oldest(row, flush[k].batch) /\ Abandon(flush[k].st, flush[k].via, row.msg)
  /\ buffer' = Remaining(flush[k].sent)
  /\ flush' = [flush EXCEPT ![k] = Asleep]
  /\ UNCHANGED <<taken, poll, nextId, accepted, lost>>
  /\ UNCHANGED <<client, link, connects, hangs, restarts>>

\* The loop awaits the client's publish without a timeout of its own, which the
\* comment in publish() reports to have hung for good.
FlushHangs(k) ==
  /\ flush[k].st = "sent" /\ hangs < MaxHangs
  /\ flush' = [flush EXCEPT ![k].st = "hung"]
  /\ hangs' = hangs + 1
  /\ UNCHANGED <<taken, poll, buffer, nextId, client, link, late, accepted, lost,
                 connects, stalls, restarts>>
--------------------------------------------------------------------------------
(* External: the broker and the MQTT client library (QoS 1) *)

AcceptFromPoll(d) ==
  /\ poll[d].st = "sent" /\ poll[d].via = link
  /\ poll' = [poll EXCEPT ![d].st = "acked"]
  /\ accepted' = accepted \cup {Newest(d)}
  /\ UNCHANGED <<taken, flush, buffer, nextId, late, lost>> /\ UNCHANGED linkVars

AcceptFromFlush(k) ==
  /\ flush[k].st = "sent" /\ flush[k].via = link
  /\ flush' = [flush EXCEPT ![k].st = "acked"]
  /\ \E row \in flush[k].batch :
       Oldest(row, flush[k].batch) /\ accepted' = accepted \cup {row.msg}
  /\ UNCHANGED <<taken, poll, buffer, nextId, late, lost>> /\ UNCHANGED linkVars

AcceptLate(r) ==
  /\ r \in late
  /\ accepted' = accepted \cup {r}
  /\ late' = late \ {r}
  /\ UNCHANGED <<lost>> /\ UNCHANGED pathVars /\ UNCHANGED linkVars

\* The connection breaks (broker or network outage): what the client holds is gone.
LinkDown ==
  /\ link # NoClient
  /\ link' = NoClient /\ late' = {}
  /\ UNCHANGED <<client, connects, stalls, hangs, restarts, accepted, lost>>
  /\ UNCHANGED pathVars
--------------------------------------------------------------------------------
(* Gateway.run and main *)

\* run() connects, publishes the client object and gathers a new set of loops.
Connect ==
  /\ client = NoClient /\ connects < MaxConnects
  /\ connects' = connects + 1
  /\ client' = connects + 1 /\ link' = connects + 1
  /\ flush' = [flush EXCEPT ![connects + 1] = Asleep]
  /\ UNCHANGED <<taken, poll, buffer, nextId, late, accepted, lost, stalls, hangs, restarts>>

\* The message iterator of test_listener_loop raises, gather passes it on and main
\* clears mqtt_client; the other loops of this run are not cancelled.
RunFails ==
  /\ client # NoClient /\ link = NoClient
  /\ client' = NoClient
  /\ UNCHANGED <<link, connects, stalls, hangs, restarts, late, accepted, lost>>
  /\ UNCHANGED pathVars

\* The process dies and its supervisor starts it again; the table is on disk.
Restart ==
  /\ restarts < MaxRestarts /\ \E k \in Loops : flush[k].st # "off"
  /\ restarts' = restarts + 1
  /\ poll' = [d \in Devices |-> NoTask]
  /\ flush' = [k \in Loops |-> NoLoop]
  /\ client' = NoClient /\ link' = NoClient /\ late' = {}
  /\ lost' = lost \cup ({Newest(d) : d \in {e \in Devices : poll[e].st = "sent"}} \ accepted)
  /\ UNCHANGED <<taken, buffer, nextId, accepted, connects, stalls, hangs>>

Next ==
  \/ \E d \in Devices : \/ PollPublish(d) \/ PollAcked(d) \/ PollFails(d)
                        \/ StartPolling(d) \/ CancelPolling(d) \/ AcceptFromPoll(d)
  \/ \E k \in Loops : \/ FlushStart(k) \/ FlushAcked(k) \/ FlushFails(k) \/ FlushHangs(k)
                      \/ AcceptFromFlush(k)
  \/ \E r \in Readings : AcceptLate(r)
  \/ LinkDown \/ Connect \/ RunFails \/ Restart

Spec == Init /\ [][Next]_vars

\* Every await of a running task ends (except a hung flush), every sleep ends, the
\* broker takes what reaches it over a live connection, and main() retries for ever.
\* Polling, cancellation, outages and restarts may or may not happen.
Fairness ==
  /\ \A d \in Devices : WF_vars(PollAcked(d)) /\ WF_vars(PollFails(d)) /\ WF_vars(AcceptFromPoll(d))
  /\ \A k \in Loops : /\ WF_vars(FlushStart(k)) /\ WF_vars(FlushAcked(k))
                      /\ WF_vars(FlushFails(k)) /\ WF_vars(AcceptFromFlush(k))
  /\ WF_vars(RunFails) /\ WF_vars(Connect)

FairSpec == Spec /\ Fairness
--------------------------------------------------------------------------------
(* Properties *)

InFlight == {Newest(d) : d \in {e \in Devices : poll[e].st \in Awaiting}}
Buffered == {row.msg : row \in buffer}
Held == Buffered \cup InFlight
Taken == {r \in Readings : r.seq <= taken[r.dev]}

\* Every reading a device has produced is in the buffer, in the hands of a polling
\* task, with the broker, or was given up by a cancellation or a restart: no order of
\* outage, timeout, replay by several flush loops and restart drops one silently.
NoReadingDropped == Taken \subseteq Held \cup accepted \cup lost

\* A row leaves the table only when the broker has its reading, whichever flush loop
\* deletes it and whatever happened to the rows of its batch meanwhile.
RemovedOnlyIfAccepted ==
  [][\A row \in buffer : row \notin buffer' => row.msg \in accepted]_vars

\* Once the connection to the broker stays up and its own flush loop is not held up in a
\* publish, every buffered reading reaches it: no other failure, of this loop or of those
\* left from earlier connections, stops the replay.
DrainsUnlessHung ==
  <>[](link # NoClient /\ flush[link].st # "hung") =>
    \A r \in Readings : r \in Buffered ~> r \in accepted

(* The inductive invariant behind the safety properties *)

\* Row ids are unique and below the counter.
RowsDistinct ==
  /\ \A row \in buffer : row.id < nextId
  /\ \A x, y \in buffer : x.id = y.id => x = y

\* A polling task holds a reading that nobody else has buffered, and an
\* acknowledgement means that the broker has it.
PollConsistent(d) ==
  /\ poll[d].st \in Awaiting => Newest(d) \notin Buffered
  /\ poll[d].st = "acked" => Newest(d) \in accepted

\* What flush loop k remembers of the table is still true of it: a row it has yet to
\* send is that row or gone, and a row it means to delete has reached the broker.
LoopConsistent(k) ==
  /\ \A row \in flush[k].batch : /\ row.id < nextId
                                 /\ row.msg \in Taken
                                 /\ \A x \in buffer : x.id = row.id => x = row
  /\ \A x, y \in flush[k].batch : x.id = y.id => x = y
  /\ \A n \in flush[k].sent : /\ n < nextId
                              /\ \A x \in buffer : x.id = n => x.msg \in accepted
  /\ flush[k].st = "acked" =>
       \A row \in flush[k].batch : Oldest(row, flush[k].batch) => row.msg \in accepted

\* Whatever is anywhere was produced by a device.
OnlyTaken == Buffered \cup late \cup accepted \cup lost \subseteq Taken

\* The gateway's view of the table stays consistent through the replays of several
\* flush loops at once: ids never come back, and only delivered rows are marked sent.
IInv ==
  /\ TypeOK
  /\ RowsDistinct
  /\ \A d \in Devices : PollConsistent(d)
  /\ \A k \in Loops : LoopConsistent(k)
  /\ OnlyTaken
  /\ NoReadingDropped
--------------------------------------------------------------------------------
Promise == INSTANCE Outbox WITH
             Messages <- Readings, held <- Held, delivered <- accepted, lost <- lost

\* The publishing path implements the outbox: it forgets a reading only after the
\* broker took it or by a reported loss, and never produces one twice.
ImplementsOutbox == Promise!OutboxSpec
===============================================================================
