------------------------------ MODULE BackendLoop -------------------------------
(***************************************************************************)
(* The backend's ingest loop as what it has in common with two others:     *)
(* one loop takes the messages of its subscription in turn, awaits the     *)
(* whole broadcast of a reading to the dashboards (LiveFeed) before the    *)
(* next message, and resolves the connection tests whose responses come    *)
(* in between (ConnectionTest).  Storing and evaluating a reading is in    *)
(* Ingest and AlertEngine.                                                 *)
(***************************************************************************)
EXTENDS LiveFeed, ConnectionTest

CONSTANTS MaxArrivals  \* bound: readings delivered to the subscription

ASSUME LoopAssumption == MaxArrivals \in Nat

VARIABLES arrivals

loopVars == <<active, client, cast, call, pending, future, listening, job, held, sub, inbox,
              heard, troubles, arrivals>>

LoopInit == FeedInit /\ TestInit /\ arrivals = 0

\* External: the broker delivers a reading.
ReadingArrives ==
  /\ arrivals < MaxArrivals /\ sub = "up"
  /\ Deliver(Reading) /\ arrivals' = arrivals + 1
  /\ UNCHANGED <<listening, job, held, sub, heard, troubles>>
  /\ UNCHANGED backendVars /\ UNCHANGED feedVars

\* The loop's next message is a reading; it has been stored, and its broadcast begins.
TakeReading ==
  /\ sub # "off" /\ inbox # <<>> /\ Head(inbox).kind = "reading"
  /\ inbox' = Tail(inbox)
  /\ StartBroadcast
  /\ UNCHANGED <<listening, job, held, sub, heard, troubles, arrivals>>
  /\ UNCHANGED backendVars

\* The loop takes a message, or finds its connection broken, only between two broadcasts.
LoopStep ==
  \/ TakeReading
  \/ /\ cast = Silent /\ UNCHANGED feedVars /\ UNCHANGED arrivals
     /\ TakeResponse \/ IterationEnds

BroadcastStep == (SendReturns \/ SendFails) /\ UNCHANGED testVars /\ UNCHANGED arrivals

LoopNext ==
  \/ RequestStep /\ UNCHANGED feedVars /\ UNCHANGED arrivals
  \/ ClientStep /\ UNCHANGED testVars /\ UNCHANGED arrivals
  \/ ReadingArrives
  \/ LoopStep
  \/ BroadcastStep

LoopSpec == LoopInit /\ [][LoopNext]_loopVars

\* A step of request q alone.
Calling(q) ==
  /\ RequestSent(q) \/ AwaitAnswer(q) \/ RequestFails(q) \/ ReturnAnswer(q) \/ TimeOut(q)
  /\ UNCHANGED feedVars /\ UNCHANGED arrivals

\* The MQTT client's operations and the wait have their timeouts (a request has only so
\* many steps: one condition serves them all); the loop goes on; a send to a dashboard
\* that reads returns.
LoopFairness ==
  /\ WF_loopVars(\E q \in Requests : Calling(q))
  /\ WF_loopVars(LoopStep)
  /\ WF_loopVars(BroadcastStep)

LoopFairSpec == LoopSpec /\ LoopFairness
--------------------------------------------------------------------------------
(* Properties *)

\* Every connection test comes back to its caller and leaves _pending, whatever the
\* gateway, the broker, the loop and the dashboards do.
EachTestEnds == []<>(pending = {})

\* Only a dashboard that stays open and does not read holds up the loop: otherwise what
\* is queued is taken, or goes with its connection.  Dashboards that come, go or close in
\* the middle of a broadcast do not.
OnlyStalledDashboardsBlock == <>[]~Stuck => []<>(inbox = <<>>)
================================================================================
