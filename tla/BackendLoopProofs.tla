--------------------------- MODULE BackendLoopProofs ---------------------------
(***************************************************************************)
(* Proofs about connection tests in the backend's loop, for any number of  *)
(* tests, dashboards, readings and troubles: _pending holds the requests   *)
(* in progress, an answered test has the answer of its own request, and an *)
(* answer that came in time is returned.  They rest on what travels: every *)
(* response in the queue says what the gateway found for its request.      *)
(***************************************************************************)
EXTENDS BackendLoop, SequenceTheorems, TLAPS

\* What the gateway has found so far, as responses.
TrueResponses == {Response(q, job[q]) : q \in {q \in Requests : job[q] \in Results}}

\* Responses in the queue and in the futures are true; a request that has not been sent
\* has no job; an answered test has its future set.
TestInv ==
  /\ TestTypeOK
  /\ inbox \in Seq({Reading} \cup TrueResponses)
  /\ \A q \in Requests : future[q] # Empty => /\ job[q] \in Results
                                              /\ future[q] = Response(q, job[q])
  /\ \A q \in Requests : call[q] \in {"new", "sending"} => job[q] = "none"
  /\ \A q \in Requests : call[q] = "answered" => future[q] # Empty
  /\ \A q \in heard : call[q] # "timeout" /\ future[q] # Empty

\* Readings, responses and the empty future are told apart by their kind.
LEMMA Kinds3 ==
  /\ Empty.kind = "empty" /\ Reading.kind = "reading"
  /\ \A q, result : /\ Response(q, result).kind = "response"
                    /\ Response(q, result).request = q
                    /\ Response(q, result).result = result
                    /\ Response(q, result) # Empty /\ Response(q, result) # Reading
BY DEF Empty, Reading, Response

LEMMA TrueResponse ==
  ASSUME NEW r \in TrueResponses
  PROVE  /\ r.request \in Requests /\ job[r.request] \in Results
         /\ r = Response(r.request, job[r.request]) /\ r # Empty
         /\ r \in Responses
<1>1. PICK q \in Requests : job[q] \in Results /\ r = Response(q, job[q])
  BY DEF TrueResponses
<1> QED
  BY <1>1, Kinds3 DEF Responses

\* A finished job keeps its result, so what was true in the queue stays true.
LEMMA StaysTrue ==
  ASSUME inbox \in Seq({Reading} \cup TrueResponses),
         \A q \in Requests : job[q] \in Results => job'[q] = job[q]
  PROVE  /\ TrueResponses \subseteq TrueResponses'
         /\ inbox \in Seq({Reading} \cup TrueResponses')
<1>1. TrueResponses \subseteq TrueResponses'
  BY DEF TrueResponses
<1>2. {Reading} \cup TrueResponses \subseteq {Reading} \cup TrueResponses'
  BY <1>1
<1> QED
  BY <1>1, <1>2, SeqMonotonic

LEMMA TypeOfInbox ==
  inbox \in Seq({Reading} \cup TrueResponses) => inbox \in Seq({Reading} \cup Responses)
<1>1. {Reading} \cup TrueResponses \subseteq {Reading} \cup Responses
  BY TrueResponse
<1> QED
  BY <1>1, SeqMonotonic

\* A step that leaves the gateway's and the loop's part alone and moves calls only.
LEMMA CallStep ==
  ASSUME TestInv, NEW q \in Requests, NEW next,
         call' = [call EXCEPT ![q] = next],
         next \in InProgress \cup Ended,
         pending' = {p \in Requests : call'[p] \in InProgress},
         next = "sending" => job[q] = "none",
         next = "answered" => future[q] # Empty,
         next = "timeout" => future[q] = Empty,
         UNCHANGED <<future, listening, job, held, sub, inbox, heard, troubles>>
  PROVE  TestInv'
<1>1. call' \in [Requests -> {"new"} \cup InProgress \cup Ended]
  BY DEF TestInv, TestTypeOK
<1>2. TestTypeOK'
  BY <1>1 DEF TestInv, TestTypeOK, Response
<1>3. TrueResponses' = TrueResponses
  BY DEF TrueResponses
<1>4. inbox' \in Seq({Reading} \cup TrueResponses')
  BY <1>3 DEF TestInv
<1>5. \A p \in Requests : call'[p] = IF p = q THEN next ELSE call[p]
  BY DEF TestInv, TestTypeOK
<1>6. \A p \in Requests : call'[p] \in {"new", "sending"} => job'[p] = "none"
  BY <1>5 DEF TestInv, InProgress, Ended
<1>7. \A p \in Requests : call'[p] = "answered" => future'[p] # Empty
  BY <1>5 DEF TestInv
<1>8. \A p \in heard' : call'[p] # "timeout" /\ future'[p] # Empty
  BY <1>5 DEF TestInv, TestTypeOK
<1> QED
  BY <1>2, <1>4, <1>6, <1>7, <1>8 DEF TestInv

\* A delivered message joins the queue or is lost.
LEMMA DeliverSeq ==
  ASSUME NEW S, inbox \in Seq(S), NEW r \in S, Deliver(r)
  PROVE  inbox' \in Seq(S)
BY AppendProperties DEF Deliver

\* The inductive step of one test: sending, waiting, and each way to end.
LEMMA RequestKeeps ==
  ASSUME TestInv, NEW q \in Requests,
         StartTest(q) \/ AwaitAnswer(q) \/ RequestFails(q) \/ ReturnAnswer(q) \/ TimeOut(q)
  PROVE  TestInv'
<1>t. /\ call \in [Requests -> {"new"} \cup InProgress \cup Ended]
      /\ pending = {p \in Requests : call[p] \in InProgress}
  BY DEF TestInv, TestTypeOK
<1>1. CASE StartTest(q)
  <2>1. pending' = {p \in Requests : call'[p] \in InProgress}
    BY <1>1, <1>t DEF StartTest, InProgress
  <2>2. job[q] = "none"
    BY <1>1 DEF StartTest, TestInv
  <2>3. "sending" \in InProgress \cup Ended
    BY DEF InProgress
  <2>4. UNCHANGED <<future, listening, job, held, sub, inbox, heard, troubles>>
    BY <1>1 DEF StartTest
  <2>5. call' = [call EXCEPT ![q] = "sending"]
    BY <1>1 DEF StartTest
  <2> QED
    BY <2>1, <2>2, <2>3, <2>4, <2>5, CallStep
<1>2. CASE AwaitAnswer(q)
  <2>1. pending' = {p \in Requests : call'[p] \in InProgress}
    BY <1>2, <1>t DEF AwaitAnswer, InProgress
  <2>2. "waiting" \in InProgress \cup Ended
    BY DEF InProgress
  <2>3. UNCHANGED <<future, listening, job, held, sub, inbox, heard, troubles>>
    BY <1>2 DEF AwaitAnswer
  <2>4. call' = [call EXCEPT ![q] = "waiting"]
    BY <1>2 DEF AwaitAnswer
  <2> QED
    BY <2>1, <2>2, <2>3, <2>4, CallStep
<1>3. ASSUME NEW end \in Ended, EndsAs(q, end),
             end = "answered" => future[q] # Empty, end = "timeout" => future[q] = Empty
      PROVE  TestInv'
  <2>1. pending' = {p \in Requests : call'[p] \in InProgress}
    BY <1>3, <1>t DEF EndsAs, InProgress, Ended
  <2>2. end # "sending"
    BY <1>3 DEF Ended
  <2>3. UNCHANGED <<future, listening, job, held, sub, inbox, heard, troubles>>
    BY <1>3 DEF EndsAs
  <2>4. call' = [call EXCEPT ![q] = end]
    BY <1>3 DEF EndsAs
  <2> QED
    BY <1>3, <2>1, <2>2, <2>3, <2>4, CallStep
<1>4. CASE RequestFails(q)
  BY <1>3, <1>4 DEF RequestFails, Ended
<1>5. CASE ReturnAnswer(q)
  BY <1>3, <1>5 DEF ReturnAnswer, Ended
<1>6. CASE TimeOut(q)
  BY <1>3, <1>6 DEF TimeOut, Ended
<1> QED
  BY <1>1, <1>2, <1>4, <1>5, <1>6

\* The request reaches the gateway, which had no job for it.
LEMMA SentKeeps ==
  ASSUME TestInv, NEW q \in Requests, RequestSent(q)
  PROVE  TestInv'
<1>1. job[q] = "none" /\ "none" \notin Results /\ "testing" \notin Results
  BY DEF RequestSent, TestInv, Results
<1>2. /\ job' \in [Requests -> {"none", "testing"} \cup Results]
      /\ \A p \in Requests : p # q => job'[p] = job[p]
      /\ job'[q] \notin Results
  BY <1>1 DEF RequestSent, TestInv, TestTypeOK
<1>3. \A p \in Requests : job[p] \in Results => job'[p] = job[p]
  BY <1>1, <1>2
<1>4. inbox' \in Seq({Reading} \cup TrueResponses')
  BY <1>3, StaysTrue DEF TestInv, RequestSent
<1>5. /\ call' \in [Requests -> {"new"} \cup InProgress \cup Ended]
      /\ \A p \in Requests : call'[p] = IF p = q THEN "leaving" ELSE call[p]
      /\ pending' = {p \in Requests : call'[p] \in InProgress}
  BY DEF RequestSent, TestInv, TestTypeOK, InProgress
<1>6. held' \subseteq {p \in Requests : job'[p] \in Results}
  BY <1>3 DEF RequestSent, TestInv, TestTypeOK
<1>7. TestTypeOK'
  BY <1>2, <1>5, <1>6 DEF RequestSent, TestInv, TestTypeOK, Response
<1>8. \A p \in Requests : future'[p] # Empty => /\ job'[p] \in Results
                                                /\ future'[p] = Response(p, job'[p])
  BY <1>3 DEF RequestSent, TestInv
<1>9. \A p \in Requests : call'[p] \in {"new", "sending"} => job'[p] = "none"
  BY <1>2, <1>5 DEF TestInv
<1>10. \A p \in Requests : call'[p] = "answered" => future'[p] # Empty
  BY <1>5 DEF RequestSent, TestInv
<1>11. \A p \in heard' : call'[p] # "timeout" /\ future'[p] # Empty
  BY <1>5 DEF RequestSent, TestInv, TestTypeOK
<1> QED
  BY <1>4, <1>7, <1>8, <1>9, <1>10, <1>11 DEF TestInv

\* The gateway answers, or repeats an answer from its buffer: with what it found.
LEMMA GatewayKeeps ==
  ASSUME TestInv, NEW q \in Requests,
         (\E result \in Results : Respond(q, result)) \/ Replay(q)
  PROVE  TestInv'
<1>1. /\ UNCHANGED <<call, pending, future, listening, sub, heard>>
      /\ job' \in [Requests -> {"none", "testing"} \cup Results]
      /\ job'[q] \in Results
      /\ \A p \in Requests : p # q => job'[p] = job[p]
      /\ \A p \in Requests : job[p] \in Results => job'[p] = job[p]
      /\ job[q] # "none"
      /\ held' \subseteq held \cup {q}
      /\ inbox' = inbox \/ Deliver(Response(q, job'[q]))
      /\ troubles' \in 0..MaxTroubles
  <2>1. CASE Replay(q)
    BY <2>1, TestAssumption DEF Replay, TestInv, TestTypeOK, backendVars, Results
  <2>2. ASSUME NEW result \in Results, Respond(q, result) PROVE <1>1!:
    BY <2>2 DEF Respond, TestInv, TestTypeOK, backendVars, Results
  <2> QED
    BY <2>1, <2>2
<1>2. /\ TrueResponses \subseteq TrueResponses'
      /\ inbox \in Seq({Reading} \cup TrueResponses')
  BY <1>1, StaysTrue DEF TestInv
<1>3. Response(q, job'[q]) \in {Reading} \cup TrueResponses'
  BY <1>1 DEF TrueResponses
<1>4. inbox' \in Seq({Reading} \cup TrueResponses')
  <2>1. CASE inbox' = inbox
    BY <1>2, <2>1
  <2>2. CASE Deliver(Response(q, job'[q]))
    <3> DEFINE S == {Reading} \cup TrueResponses'
    <3>1. inbox \in Seq(S) /\ Response(q, job'[q]) \in S
      BY <1>2, <1>3
    <3> HIDE DEF S
    <3>2. inbox' \in Seq(S)
      BY <2>2, <3>1, DeliverSeq
    <3> QED
      BY <3>2 DEF S
  <2> QED
    BY <1>1, <2>1, <2>2
<1>5. inbox' \in Seq({Reading} \cup Responses)
  <2>1. TrueResponses' \subseteq Responses
    BY DEF TrueResponses, Responses
  <2>2. {Reading} \cup TrueResponses' \subseteq {Reading} \cup Responses
    BY <2>1
  <2> QED
    BY <1>4, <2>2, SeqMonotonic
<1>6. held' \subseteq {p \in Requests : job'[p] \in Results}
  BY <1>1 DEF TestInv, TestTypeOK
<1>7. TestTypeOK'
  BY <1>1, <1>5, <1>6 DEF TestInv, TestTypeOK
<1>8. \A p \in Requests : future'[p] # Empty => /\ job'[p] \in Results
                                                /\ future'[p] = Response(p, job'[p])
  BY <1>1 DEF TestInv
<1>9. \A p \in Requests : call'[p] \in {"new", "sending"} => job'[p] = "none"
  BY <1>1 DEF TestInv
<1> QED
  BY <1>1, <1>4, <1>7, <1>8, <1>9 DEF TestInv

\* Messages come and go with the connections; only the queue, the connections and the
\* bounds change.
LEMMA TransportKeeps ==
  ASSUME TestInv,
         UNCHANGED <<call, pending, future, job, held, heard>>,
         inbox' \in Seq({Reading} \cup TrueResponses),
         listening' \in BOOLEAN, sub' \in {"off", "up", "broken"}, troubles' \in 0..MaxTroubles
  PROVE  TestInv'
<1>1. TrueResponses' = TrueResponses
  BY DEF TrueResponses
<1>2. inbox' \in Seq({Reading} \cup TrueResponses')
  BY <1>1
<1>3. inbox' \in Seq({Reading} \cup Responses)
  <2>1. {Reading} \cup TrueResponses \subseteq {Reading} \cup Responses
    BY TrueResponse
  <2> QED
    BY <2>1, SeqMonotonic
<1>4. TestTypeOK'
  BY <1>3 DEF TestInv, TestTypeOK
<1> QED
  BY <1>2, <1>4 DEF TestInv

\* The head of the queue is a message like the others, and its tail a queue.
LEMMA TakeKeeps ==
  ASSUME TestInv, inbox # <<>>
  PROVE  /\ Head(inbox) \in {Reading} \cup TrueResponses
         /\ Tail(inbox) \in Seq({Reading} \cup TrueResponses)
<1>1. inbox \in Seq({Reading} \cup TrueResponses)
  BY DEF TestInv
<1> QED
  BY <1>1, HeadTailProperties

\* A response sets the future of its own request, if that is still awaited.
LEMMA ResponseKeeps ==
  ASSUME TestInv, TakeResponse
  PROVE  TestInv'
<1> DEFINE r == Head(inbox)
           q == r.request
<1>1. r \in TrueResponses /\ inbox' \in Seq({Reading} \cup TrueResponses)
  BY TakeKeeps, Kinds3 DEF TakeResponse
<1>2. q \in Requests /\ job[q] \in Results /\ r = Response(q, job[q]) /\ r # Empty /\ r \in Responses
  BY <1>1, TrueResponse
<1>3. UNCHANGED <<call, pending, listening, job, held, sub, troubles>>
  BY DEF TakeResponse
<1>4. \/ q \in pending /\ future[q] = Empty /\ future' = [future EXCEPT ![q] = r]
      \/ ~(q \in pending /\ future[q] = Empty) /\ future' = future
  BY DEF TakeResponse, Resolve
<1>5. \/ call[q] \in InProgress /\ heard' = heard \cup {q}
      \/ heard' = heard
  BY DEF TakeResponse
<1> HIDE DEF r, q
<1>6. /\ future' \in [Requests -> {Empty} \cup Responses]
      /\ \A p \in Requests : future[p] # Empty => future'[p] = future[p]
      /\ q \in pending => future'[q] # Empty
      /\ \A p \in Requests : future'[p] # future[p] => p = q /\ future'[p] = r
  <2>1. future \in [Requests -> {Empty} \cup Responses]
    BY DEF TestInv, TestTypeOK
  <2>2. CASE ~(q \in pending /\ future[q] = Empty) /\ future' = future
    BY <2>1, <2>2
  <2>3. CASE q \in pending /\ future[q] = Empty /\ future' = [future EXCEPT ![q] = r]
    BY <1>2, <2>1, <2>3
  <2> QED
    BY <1>4, <2>2, <2>3
<1>7. TrueResponses' = TrueResponses
  BY <1>3 DEF TrueResponses
<1>8. inbox' \in Seq({Reading} \cup TrueResponses')
  BY <1>1, <1>7
<1>9. inbox' \in Seq({Reading} \cup Responses)
  <2>1. {Reading} \cup TrueResponses \subseteq {Reading} \cup Responses
    BY TrueResponse
  <2> QED
    BY <1>1, <2>1, SeqMonotonic
<1>10. heard' \subseteq Requests
  BY <1>2, <1>5 DEF TestInv, TestTypeOK
<1>11. TestTypeOK'
  BY <1>3, <1>6, <1>9, <1>10 DEF TestInv, TestTypeOK
<1>12. \A p \in Requests : future'[p] # Empty => /\ job'[p] \in Results
                                                 /\ future'[p] = Response(p, job'[p])
  BY <1>2, <1>3, <1>6 DEF TestInv
<1>13. \A p \in Requests : call'[p] = "answered" => future'[p] # Empty
  BY <1>3, <1>6 DEF TestInv
<1>14. \A p \in heard' : call'[p] # "timeout" /\ future'[p] # Empty
  <2>1. ASSUME NEW p \in heard PROVE call'[p] # "timeout" /\ future'[p] # Empty
    BY <1>3, <1>6, <2>1 DEF TestInv, TestTypeOK
  <2>2. call[q] \in InProgress => call'[q] # "timeout" /\ future'[q] # Empty
    BY <1>2, <1>3, <1>6 DEF TestInv, TestTypeOK, InProgress
  <2> QED
    BY <1>5, <2>1, <2>2
<1>15. \A p \in Requests : call'[p] \in {"new", "sending"} => job'[p] = "none"
  BY <1>3 DEF TestInv
<1> QED
  BY <1>8, <1>11, <1>12, <1>13, <1>14, <1>15 DEF TestInv

LEMMA TestInvInit == LoopInit => TestInv
<1> SUFFICES ASSUME LoopInit PROVE TestInv
  OBVIOUS
<1>1. inbox = <<>> /\ \A S : inbox \in Seq(S)
  BY EmptySeq DEF LoopInit, TestInit
<1>2. TestTypeOK
  BY <1>1, TestAssumption DEF LoopInit, TestInit, TestTypeOK, InProgress, Ended
<1> QED
  BY <1>1, <1>2 DEF LoopInit, TestInit, TestInv

LEMMA TestInvNext == TestInv /\ [LoopNext]_loopVars => TestInv'
<1> SUFFICES ASSUME TestInv, [LoopNext]_loopVars PROVE TestInv'
  OBVIOUS
<1>t. /\ listening \in BOOLEAN /\ sub \in {"off", "up", "broken"} /\ troubles \in 0..MaxTroubles
      /\ inbox \in Seq({Reading} \cup TrueResponses)
  BY DEF TestInv, TestTypeOK
<1>u. UNCHANGED testVars => TestInv'
  BY <1>t, TransportKeeps DEF testVars
<1>1. CASE RequestStep
  <2>1. ASSUME NEW q \in Requests,
               StartTest(q) \/ AwaitAnswer(q) \/ RequestFails(q) \/ ReturnAnswer(q) \/ TimeOut(q)
        PROVE  TestInv'
    BY <2>1, RequestKeeps
  <2>2. ASSUME NEW q \in Requests, RequestSent(q) PROVE TestInv'
    BY <2>2, SentKeeps
  <2>3. ASSUME NEW q \in Requests, (\E result \in Results : Respond(q, result)) \/ Replay(q)
        PROVE  TestInv'
    BY <2>3, GatewayKeeps
  <2>4. CASE GatewayLeaves
    <3>1. /\ listening' \in BOOLEAN /\ sub' \in {"off", "up", "broken"} /\ inbox' = inbox
          /\ UNCHANGED <<call, pending, future, job, held, heard>>
      BY <2>4, <1>t DEF GatewayLeaves, backendVars
    <3>2. troubles' \in 0..MaxTroubles
      BY <2>4, <1>t, TestAssumption DEF GatewayLeaves
    <3> QED
      BY <3>1, <3>2, <1>t, TransportKeeps
  <2>5. CASE GatewayReturns
    BY <2>5, <1>t, TransportKeeps DEF GatewayReturns, backendVars
  <2>6. CASE SubscriptionBreaks
    <3>1. /\ listening' \in BOOLEAN /\ sub' \in {"off", "up", "broken"} /\ inbox' = inbox
          /\ UNCHANGED <<call, pending, future, job, held, heard>>
      BY <2>6, <1>t DEF SubscriptionBreaks, backendVars
    <3>2. troubles' \in 0..MaxTroubles
      BY <2>6, <1>t, TestAssumption DEF SubscriptionBreaks
    <3> QED
      BY <3>1, <3>2, <1>t, TransportKeeps
  <2>7. CASE Subscribe
    BY <2>7, <1>t, TransportKeeps DEF Subscribe, backendVars
  <2> QED
    BY <1>1, <2>1, <2>2, <2>3, <2>4, <2>5, <2>6, <2>7 DEF RequestStep
<1>2. CASE ReadingArrives
  <2> DEFINE S == {Reading} \cup TrueResponses
  <2>1. inbox \in Seq(S) /\ Reading \in S
    BY <1>t
  <2> HIDE DEF S
  <2>2. inbox' \in Seq(S)
    BY <1>2, <2>1, DeliverSeq DEF ReadingArrives
  <2>3. inbox' \in Seq({Reading} \cup TrueResponses)
    BY <2>2 DEF S
  <2> QED
    BY <1>2, <1>t, <2>3, TransportKeeps DEF ReadingArrives, backendVars
<1>3. CASE TakeReading
  <2>1. inbox' \in Seq({Reading} \cup TrueResponses)
    BY <1>3, TakeKeeps DEF TakeReading
  <2> QED
    BY <1>3, <1>t, <2>1, TransportKeeps DEF TakeReading, backendVars
<1>4. CASE TakeResponse
  BY <1>4, ResponseKeeps
<1>5. CASE IterationEnds
  <2>1. inbox' \in Seq({Reading} \cup TrueResponses)
    BY <1>5, EmptySeq DEF IterationEnds
  <2> QED
    BY <1>5, <1>t, <2>1, TransportKeeps DEF IterationEnds, backendVars
<1>6. CASE UNCHANGED testVars
  BY <1>6, <1>u
<1>7. CASE UNCHANGED loopVars
  BY <1>7, <1>u DEF loopVars, testVars
<1> QED
  BY <1>1, <1>2, <1>3, <1>4, <1>5, <1>6, <1>7 DEF LoopNext, LoopStep, BroadcastStep

\* Whatever the dashboards, the gateway and the connections do, the futures, the calls and
\* the responses on their way agree with one another.
THEOREM TestInvariance == LoopSpec => []TestInv
<1> QED
  BY TestInvInit, TestInvNext, PTL DEF LoopSpec

\* request_test_connection leaves _pending with exactly the requests in progress.
THEOREM PendingIsInProgress == LoopSpec => []TestTypeOK
<1>1. TestInv => TestTypeOK
  BY DEF TestInv
<1> QED
  BY <1>1, TestInvariance, PTL

\* resolve_test_response: a test is answered with what the gateway found for it.
THEOREM AnswersAreOwn == LoopSpec => []OwnAnswer
<1>1. TestInv => OwnAnswer
  BY DEF TestInv, OwnAnswer
<1> QED
  BY <1>1, TestInvariance, PTL

\* wait_for: a response that was taken in time is what the request returns.
THEOREM AnswersAreKept == LoopSpec => []HeardIsAnswered
<1>1. TestInv => HeardIsAnswered
  BY DEF TestInv, HeardIsAnswered
<1> QED
  BY <1>1, TestInvariance, PTL
================================================================================
