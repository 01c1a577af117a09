-------------------------------- MODULE LiveFeed --------------------------------
(***************************************************************************)
(* The live feed (backend/app/ws_manager.py, the endpoint /ws/live of      *)
(* backend/app/main.py): dashboards connect and go while broadcast works   *)
(* through the list of them, one awaited send after another.               *)
(*                                                                         *)
(* Python's iterator over a list is an index: removing an element before   *)
(* it moves the later ones one place forward, under the index.  Only the   *)
(* ingest task broadcasts, so there is one broadcast at a time.            *)
(***************************************************************************)
EXTENDS Naturals, SequencesExt

CONSTANTS MaxConnections  \* bound: WebSocket connections of dashboards

ASSUME FeedAssumption == MaxConnections \in Nat

\* Connections are numbered in the order in which they are accepted.
Connections == 1..MaxConnections

VARIABLES
  active, \* WSManager.active
  client, \* client[c]: "new", "open", "stalled" (open, and not reading), "gone" (closed, and
          \* its handler has not noticed) or "over" (its handler has ended)
  cast    \* the broadcast under way: the connections sent to so far, in order, those whose
          \* send raised, and (history) the departures from places already passed

feedVars == <<active, client, cast>>

Silent == [st |-> "silent", sent |-> <<>>, dead |-> {}, left |-> 0]
Open(c) == client[c] \in {"open", "stalled"}

\* A send is under way to a dashboard that does not read.
Stuck == cast.st = "sending" /\ client[Last(cast.sent)] = "stalled"

FeedTypeOK ==
  /\ active \in Seq(Connections)
  /\ client \in [Connections -> {"new", "open", "stalled", "gone", "over"}]
  /\ cast \in [st : {"silent", "sending"}, sent : Seq(Connections), dead : SUBSET Connections,
               left : Nat]
  /\ cast = Silent \/ (cast.st = "sending" /\ cast.sent # <<>> /\ cast.dead \subseteq ToSet(cast.sent))
  /\ \A c \in Connections : Open(c) => c \in ToSet(active)

FeedInit == active = <<>> /\ client = [c \in Connections |-> "new"] /\ cast = Silent
--------------------------------------------------------------------------------
(* websocket_live: the handlers of the connections *)

\* A wrong variant: the newest dashboard is put first.
JoinsInFront(c) ==
  /\ client[c] = "new" /\ \A d \in 1..c-1 : client[d] # "new"
  /\ client' = [client EXCEPT ![c] = "open"]
  /\ active' = <<c>> \o active
  /\ UNCHANGED cast

\* connect: the connection is accepted and appended.
Join(c) ==
  /\ client[c] = "new" /\ \A d \in 1..c-1 : client[d] # "new"
  /\ client' = [client EXCEPT ![c] = "open"]
  /\ active' = Append(active, c)
  /\ UNCHANGED cast

\* External: a dashboard stops reading, so that sends to it block, or reads again.
StopReading(c) ==
  /\ client[c] = "open" /\ client' = [client EXCEPT ![c] = "stalled"]
  /\ UNCHANGED <<active, cast>>

ReadAgain(c) ==
  /\ client[c] = "stalled" /\ client' = [client EXCEPT ![c] = "open"]
  /\ UNCHANGED <<active, cast>>

\* External: the connection is closed, by the browser or because its pings went unanswered.
Close(c) ==
  /\ Open(c) /\ client' = [client EXCEPT ![c] = "gone"]
  /\ UNCHANGED <<active, cast>>

\* The place of connection c in the list was passed by the broadcast under way.
Passed(c) == \E i \in DOMAIN active : active[i] = c /\ i <= Len(cast.sent)

\* receive_text raises WebSocketDisconnect, and disconnect removes the connection from
\* the list unless a broadcast has done so.
Disconnect(c) ==
  /\ client[c] = "gone"
  /\ client' = [client EXCEPT ![c] = "over"]
  /\ active' = RemoveFirst(active, c)
  /\ cast' = IF Passed(c) THEN [cast EXCEPT !.left = @ + 1] ELSE cast
--------------------------------------------------------------------------------
(* broadcast *)

\* disconnect of each of the dead connections: the others stay in their order.
Leave(dead) ==
  LET kept == {i \in DOMAIN active : active[i] \notin dead}
  IN  \E place \in [1..Cardinality(kept) -> kept] :
        /\ \A i, j \in DOMAIN place : i < j => place[i] < place[j]
        /\ kept = ToSet(place)
        /\ active' = [i \in DOMAIN place |-> active[place[i]]]

\* The loop goes on to the next place of the list as it is now; after the last one the
\* dead connections are removed.
GoOnBroadcast(dead) ==
  LET next == Len(cast.sent) + 1
  IN  IF next <= Len(active)
        THEN /\ cast' = [st |-> "sending", sent |-> Append(cast.sent, active[next]),
                         dead |-> dead, left |-> cast.left]
             /\ UNCHANGED active
        ELSE cast' = Silent /\ Leave(dead)

StartBroadcast ==
  /\ cast = Silent
  /\ cast' = IF active = <<>> THEN Silent ELSE [Silent EXCEPT !.st = "sending", !.sent = <<active[1]>>]
  /\ UNCHANGED <<active, client>>

\* The message is written to the connection; one that has closed may take it unnoticed.
SendReturns ==
  /\ cast.st = "sending" /\ client[Last(cast.sent)] # "stalled"
  /\ GoOnBroadcast(cast.dead)
  /\ UNCHANGED client

\* A wrong variant: an exception ends the broadcast.
SendFailureEnds ==
  /\ cast.st = "sending" /\ ~Open(Last(cast.sent))
  /\ cast' = Silent /\ active' = RemoveFirst(active, Last(cast.sent))
  /\ UNCHANGED client

\* A wrong variant: dead connections are noted by their place in the list.
SendFailureByPlace ==
  /\ cast.st = "sending" /\ ~Open(Last(cast.sent)) /\ Len(cast.sent) <= Len(active)
  /\ GoOnBroadcast(cast.dead \cup {active[Len(cast.sent)]})
  /\ UNCHANGED client

\* The send raises, and the loop notes the connection as dead and goes on.
SendFails ==
  /\ cast.st = "sending" /\ ~Open(Last(cast.sent))
  /\ GoOnBroadcast(cast.dead \cup {Last(cast.sent)})
  /\ UNCHANGED client

\* What the connections do by themselves.
ClientStep ==
  \E c \in Connections :
    Join(c) \/ StopReading(c) \/ ReadAgain(c) \/ Close(c) \/ Disconnect(c)
--------------------------------------------------------------------------------
(* Properties *)

\* No dashboard gets one broadcast twice, however the list moves under the loop.
NobodyTwice == \A i, j \in DOMAIN cast.sent : cast.sent[i] = cast.sent[j] => i = j

\* A dashboard in the list when a broadcast ends was sent the message, those that came
\* meanwhile included, but for one dashboard for each departure from a place the
\* broadcast had passed: a failed send or a late arrival costs nobody the message.
MissedOnlyByDepartures ==
  [][cast.st = "sending" /\ cast' = Silent =>
       Cardinality(ToSet(active) \ ToSet(cast.sent)) <= cast.left]_feedVars
================================================================================
