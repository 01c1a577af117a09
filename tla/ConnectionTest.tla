----------------------------- MODULE ConnectionTest -----------------------------
(***************************************************************************)
(* The onboarding page's "Test Connection" (backend/app/mqtt_test.py, the  *)
(* endpoint in routers/instances.py, and handle_test_request and           *)
(* test_listener_loop of edge-gateway/gateway/main.py).                    *)
(*                                                                         *)
(* The backend publishes a request over a connection of its own and waits  *)
(* on a future; the gateway reads the device and publishes a response by   *)
(* the path of its readings, its buffer included; the response comes back  *)
(* through the backend's ingest subscription, behind the readings queued   *)
(* there, and resolves the future that is registered under its id.         *)
(***************************************************************************)
EXTENDS Naturals, Sequences

CONSTANTS
  MaxTests,    \* bound: connection tests
  MaxTroubles  \* bound: breaks of the backend's subscription and of the gateway's
               \* connection, and replays of a response that leave it in the buffer

ASSUME TestAssumption == MaxTests \in Nat /\ MaxTroubles \in Nat

\* A request's id is used once (uuid4); requests are numbered as they start.
Requests == 1..MaxTests

VARIABLES
  call,      \* call[q]: where request_test_connection stands, or what came of it
  pending,   \* the ids in _pending
  future,    \* future[q]: what the future of q holds
  listening, \* the gateway is connected and subscribed to test requests
  job,       \* job[q]: the gateway's handle_test_request: none, testing, or its result
  held,      \* responses in the gateway's buffer or still with its MQTT client
  sub,       \* the backend's ingest subscription: "off", "up" or "broken"
  inbox,     \* messages the subscription queues for the ingest loop
  heard,     \* history: requests whose response the loop took while they were in progress
  troubles

backendVars == <<call, pending, future>>
testVars == <<call, pending, future, listening, job, held, sub, inbox, heard,
              troubles>>

InProgress == {"sending", "leaving", "waiting"}
Ended == {"answered", "timeout", "failed"}
Results == {"read", "error"}

Empty == [kind |-> "empty"]
Reading == [kind |-> "reading"]
Response(q, result) == [kind |-> "response", request |-> q, result |-> result]
Responses == {Response(q, result) : q \in Requests, result \in Results}

\* _pending holds exactly the requests in progress, whichever way they end.
TestTypeOK ==
  /\ call \in [Requests -> {"new"} \cup InProgress \cup Ended]
  /\ pending = {q \in Requests : call[q] \in InProgress}
  /\ future \in [Requests -> {Empty} \cup Responses]
  /\ listening \in BOOLEAN
  /\ job \in [Requests -> {"none", "testing"} \cup Results]
  /\ held \subseteq {q \in Requests : job[q] \in Results}
  /\ sub \in {"off", "up", "broken"}
  /\ inbox \in Seq({Reading} \cup Responses)
  /\ heard \subseteq Requests
  /\ troubles \in 0..MaxTroubles

TestInit ==
  /\ call = [q \in Requests |-> "new"] /\ pending = {}
  /\ future = [q \in Requests |-> Empty]
  /\ listening = TRUE /\ job = [q \in Requests |-> "none"] /\ held = {}
  /\ sub = "up" /\ inbox = <<>> /\ heard = {}
  /\ troubles = 0
--------------------------------------------------------------------------------
(* request_test_connection *)

\* The future is registered, and the client begins to connect.
StartTest(q) ==
  /\ call[q] = "new" /\ \A p \in 1..q-1 : call[p] # "new"
  /\ call' = [call EXCEPT ![q] = "sending"]
  /\ pending' = pending \cup {q}
  /\ UNCHANGED <<future, listening, job, held, sub, inbox, heard, troubles>>

\* The broker takes the request and hands it to the gateway, which starts a task for it
\* if it is listening; the client disconnects.
RequestSent(q) ==
  /\ call[q] = "sending"
  /\ call' = [call EXCEPT ![q] = "leaving"]
  /\ job' = IF listening THEN [job EXCEPT ![q] = "testing"] ELSE job
  /\ UNCHANGED <<pending, future, listening, held, sub, inbox, heard, troubles>>

\* The client has disconnected, and wait_for begins; the response may be there already.
AwaitAnswer(q) ==
  /\ call[q] = "leaving"
  /\ call' = [call EXCEPT ![q] = "waiting"]
  /\ UNCHANGED <<pending, future, listening, job, held, sub, inbox, heard, troubles>>

\* The request ends and its entry of _pending is removed.
EndsAs(q, end) ==
  /\ call' = [call EXCEPT ![q] = end]
  /\ pending' = pending \ {q}
  /\ UNCHANGED <<future, listening, job, held, sub, inbox, heard, troubles>>

\* A wrong variant: the entry is removed only where the answer is awaited.
FailsRegistered(q) ==
  /\ call[q] \in {"sending", "leaving"}
  /\ call' = [call EXCEPT ![q] = "failed"]
  /\ UNCHANGED <<pending, future, listening, job, held, sub, inbox, heard, troubles>>

\* Connecting, publishing or disconnecting raises; the request may have been sent.
RequestFails(q) == call[q] \in {"sending", "leaving"} /\ EndsAs(q, "failed")

ReturnAnswer(q) == call[q] = "waiting" /\ future[q] # Empty /\ EndsAs(q, "answered")

\* A wrong variant: the future is awaited without a timeout.
WaitsForEver(q) == call[q] = "waiting" /\ future[q] = Empty /\ UNCHANGED testVars

\* A wrong variant: the timer counts for more than an answer already there.
TimesOutAnswered(q) == call[q] = "waiting" /\ EndsAs(q, "timeout")

\* wait_for gives up and cancels the future, unless it has its result.
TimeOut(q) == call[q] = "waiting" /\ future[q] = Empty /\ EndsAs(q, "timeout")
--------------------------------------------------------------------------------
(* The gateway: handle_test_request, publish, flush_buffer_loop, test_listener_loop *)

\* The broker hands a response to the backend's subscription, if there is one.
Deliver(response) == inbox' = IF sub = "up" THEN Append(inbox, response) ELSE inbox

\* The device was read, or an exception became the error of the result; publish delivers
\* the response, buffers it, or both (a publish that timed out may arrive all the same).
Respond(q, result) ==
  /\ job[q] = "testing"
  /\ job' = [job EXCEPT ![q] = result]
  /\ \/ listening /\ Deliver(Response(q, result)) /\ UNCHANGED held
     \/ held' = held \cup {q} /\ UNCHANGED inbox
  /\ UNCHANGED <<listening, sub, heard, troubles>> /\ UNCHANGED backendVars

\* A buffered response is published again, with the readings and as late as they are;
\* if the acknowledgement is lost, it stays.
Replay(q) ==
  /\ listening /\ q \in held
  /\ Deliver(Response(q, job[q]))
  /\ \/ held' = held \ {q} /\ UNCHANGED troubles
     \/ troubles < MaxTroubles /\ troubles' = troubles + 1 /\ UNCHANGED held
  /\ UNCHANGED <<listening, job, sub, heard>> /\ UNCHANGED backendVars

\* External: the gateway's connection breaks; run comes back with a new one.
GatewayLeaves ==
  /\ listening /\ troubles < MaxTroubles
  /\ listening' = FALSE /\ troubles' = troubles + 1
  /\ UNCHANGED <<job, held, sub, inbox, heard>> /\ UNCHANGED backendVars

GatewayReturns ==
  /\ ~listening /\ listening' = TRUE
  /\ UNCHANGED <<job, held, sub, inbox, heard, troubles>> /\ UNCHANGED backendVars
--------------------------------------------------------------------------------
(* The backend's subscription, and _handle_test_response *)

SubscriptionBreaks ==
  /\ sub = "up" /\ troubles < MaxTroubles
  /\ sub' = "broken" /\ troubles' = troubles + 1
  /\ UNCHANGED <<listening, job, held, inbox, heard>> /\ UNCHANGED backendVars

IterationEnds ==
  /\ sub = "broken"
  /\ sub' = "off" /\ inbox' = <<>>
  /\ UNCHANGED <<listening, job, held, heard, troubles>> /\ UNCHANGED backendVars

Subscribe ==
  /\ sub = "off" /\ sub' = "up"
  /\ UNCHANGED <<listening, job, held, inbox, heard, troubles>> /\ UNCHANGED backendVars

\* A wrong variant: a response resolves whichever test is waiting.
ResolvesAnyone(response) ==
  future' = [q \in Requests |-> IF q \in pending /\ future[q] = Empty THEN response ELSE future[q]]

\* resolve_test_response: only the future registered under the response's id is set, once.
Resolve(response) ==
  LET q == response.request
  IN  future' = IF q \in pending /\ future[q] = Empty
                  THEN [future EXCEPT ![q] = response] ELSE future

\* A wrong variant: a response without a waiting test ends the loop (a KeyError, an
\* InvalidStateError).
TakesOnlyAwaited ==
  /\ sub # "off" /\ inbox # <<>> /\ Head(inbox).kind = "response"
  /\ Head(inbox).request \in pending /\ future[Head(inbox).request] = Empty
  /\ inbox' = Tail(inbox)
  /\ Resolve(Head(inbox))
  /\ heard' = heard \cup {Head(inbox).request}
  /\ UNCHANGED <<call, pending, listening, job, held, sub, troubles>>

\* The loop's next message is a response.
TakeResponse ==
  /\ sub # "off" /\ inbox # <<>> /\ Head(inbox).kind = "response"
  /\ inbox' = Tail(inbox)
  /\ Resolve(Head(inbox))
  /\ LET q == Head(inbox).request
     IN  heard' = IF call[q] \in InProgress THEN heard \cup {q} ELSE heard
  /\ UNCHANGED <<call, pending, listening, job, held, sub, troubles>>

\* A step of a request, of the gateway or of the network.
RequestStep ==
  \/ \E q \in Requests :
       \/ StartTest(q) \/ RequestSent(q) \/ AwaitAnswer(q)
       \/ RequestFails(q) \/ ReturnAnswer(q) \/ TimeOut(q)
       \/ \E result \in Results : Respond(q, result)
       \/ Replay(q)
  \/ GatewayLeaves \/ GatewayReturns \/ SubscriptionBreaks \/ Subscribe
--------------------------------------------------------------------------------
(* Properties *)

\* A test is answered with what the gateway found for that very request: responses of
\* other tests, copies, and responses replayed after their request gave up do not count.
OwnAnswer ==
  \A q \in Requests : call[q] = "answered" => /\ job[q] \in Results
                                              /\ future[q] = Response(q, job[q])

\* A response that the loop took while its request was in progress is what the request
\* returns: it is not lost between the publish and the wait, nor to the timeout.
HeardIsAnswered == \A q \in heard : call[q] # "timeout" /\ future[q] # Empty
================================================================================
