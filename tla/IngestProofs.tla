------------------------------ MODULE IngestProofs ------------------------------
(***************************************************************************)
(* Proofs about the backend's ingest task, for any set of messages and any *)
(* value of the bounds: a message is evaluated at most once however often  *)
(* it arrives, and a stored one is evaluated but for the two named         *)
(* exceptions.  Both rest on IngestInv.                                    *)
(***************************************************************************)
EXTENDS Ingest, SequenceTheorems, TLAPS

\* The task's hands are empty or hold a message at one of its attempts.
LEMMA TaskShape ==
  ASSUME IngestTypeOK
  PROVE  \/ task = NoMessage /\ task.st = "idle" /\ InHand = {}
         \/ /\ task # NoMessage /\ task.st \in {"sleep", "push"}
            /\ task.msg \in Messages /\ task.attempt \in 1..Attempts
            /\ task.st = "sleep" => task.attempt < Attempts
            /\ InHand = {task.msg}
<1>1. NoMessage.st = "idle"
  BY DEF NoMessage
<1>2. ASSUME NEW s \in {"sleep", "push"}, NEW m \in Messages, NEW n \in 1..Attempts,
             task = Busy(s, m, n), s = "sleep" => n < Attempts
      PROVE  /\ task.st = s /\ task.msg = m /\ task.attempt = n
             /\ task # NoMessage /\ InHand = {m}
  <2>1. task.st = s /\ task.msg = m /\ task.attempt = n
    BY <1>2 DEF Busy
  <2> QED
    BY <1>1, <2>1 DEF InHand
<1> QED
  BY <1>1, <1>2 DEF IngestTypeOK, InHand

\* What attempt n at message m leaves in the task's hands.
LEMMA AttemptShape ==
  ASSUME NEW m, NEW n \in 1..Attempts, Attempt(m, n)
  PROVE  \/ /\ task' = Busy("push", m, n) /\ Insertable(m) /\ readings' = readings \cup {m}
            /\ UNCHANGED <<dropped, faults, faultsOf, unsure>>
         \/ /\ \/ task' = NoMessage /\ n = Attempts /\ dropped' = dropped \cup {m}
               \/ task' = Busy("sleep", m, n) /\ n < Attempts /\ dropped' = dropped
            /\ \/ ~Insertable(m) /\ UNCHANGED <<readings, faults, faultsOf, unsure>>
               \/ /\ faults < MaxFaults /\ faults' = faults + 1
                  /\ faultsOf' = [faultsOf EXCEPT ![m] = @ + 1]
                  /\ \/ UNCHANGED <<readings, unsure>>
                     \/ readings' = readings \cup {m} /\ unsure' = unsure \cup {m}
BY DEF Attempt, Fails, Attempts

\* An attempt keeps what it writes in type.
LEMMA AttemptType ==
  ASSUME IngestTypeOK, NEW m \in Messages, NEW n \in 1..Attempts, Attempt(m, n)
  PROVE  /\ \/ task' = NoMessage
            \/ task' = Busy("push", m, n) \/ (n < Attempts /\ task' = Busy("sleep", m, n))
         /\ \A set \in {readings', dropped', unsure'} : set \subseteq Messages
         /\ faultsOf' \in [Messages -> Nat] /\ faults' \in 0..MaxFaults
<1>1. readings \subseteq Messages /\ dropped \subseteq Messages /\ unsure \subseteq Messages
  BY DEF IngestTypeOK
<1>2. \A set \in {readings', dropped', unsure'} : set \subseteq Messages
  BY <1>1, AttemptShape
<1>3. faultsOf \in [Messages -> Nat] /\ faults \in 0..MaxFaults
  BY DEF IngestTypeOK
<1>4. faultsOf' \in [Messages -> Nat] /\ faults' \in 0..MaxFaults
  BY <1>3, AttemptShape, IngestAssumption
<1>5. \/ task' = NoMessage
      \/ task' = Busy("push", m, n) \/ (n < Attempts /\ task' = Busy("sleep", m, n))
  BY AttemptShape
<1> QED
  BY <1>2, <1>4, <1>5

\* Every variable keeps its type from a step to the next.
LEMMA IngestTypeStep == IngestTypeOK /\ [IngestNext]_ingestVars => IngestTypeOK'
<1> SUFFICES ASSUME IngestTypeOK, [IngestNext]_ingestVars PROVE IngestTypeOK'
  OBVIOUS
<1> USE IngestAssumption
<1>q. queue \in Seq(Messages) /\ Len(queue) \in Nat /\ Queued \subseteq Messages
  BY DEF IngestTypeOK, Queued
<1>h. InHand \subseteq Messages
  BY TaskShape
<1>1. CASE Subscribe
  BY <1>1 DEF Subscribe, IngestTypeOK, storeVars
<1>2. ASSUME NEW m \in Messages, Publish(m) PROVE IngestTypeOK'
  <2>1. /\ Append(queue, m) \in Seq(Messages) /\ Len(Append(queue, m)) = Len(queue) + 1
        /\ Len(queue) <= arrivals /\ arrivals \in 0..MaxArrivals
    BY <1>q, AppendProperties DEF IngestTypeOK
  <2>3. queue' \in Seq(Messages) /\ Len(queue') <= arrivals' /\ arrivals' \in 0..MaxArrivals
    BY <1>2, <1>q, <2>1 DEF Publish
  <2>2. unheard' \subseteq Messages /\ (sub' = "off" => queue' = <<>>)
    BY <1>2 DEF Publish, IngestTypeOK
  <2> QED
    BY <1>2, <2>2, <2>3 DEF Publish, IngestTypeOK, storeVars
<1>3. CASE SubscriptionBreaks
  BY <1>3 DEF SubscriptionBreaks, IngestTypeOK, storeVars
<1>4. CASE IterationEnds
  <2>1. cut' \subseteq Messages /\ Len(queue') = 0 /\ queue' \in Seq(Messages)
    BY <1>4, <1>q DEF IterationEnds, IngestTypeOK
  <2> QED
    BY <1>4, <2>1 DEF IterationEnds, IngestTypeOK, storeVars
<1>5. CASE TakeMessage
  <2>1. /\ Head(queue) \in Messages /\ Tail(queue) \in Seq(Messages)
        /\ Len(Tail(queue)) = Len(queue) - 1 /\ 1 \in 1..Attempts
    BY <1>5, <1>q, HeadTailProperties DEF TakeMessage, Attempts
  <2>2. /\ \/ task' = NoMessage
           \/ \E m \in Messages, n \in 1..Attempts :
                task' = Busy("push", m, n) \/ (n < Attempts /\ task' = Busy("sleep", m, n))
        /\ \A set \in {readings', dropped', unsure'} : set \subseteq Messages
        /\ faultsOf' \in [Messages -> Nat] /\ faults' \in 0..MaxFaults
    BY <1>5, <2>1, AttemptType DEF TakeMessage
  <2> QED
    BY <1>5, <1>q, <2>1, <2>2 DEF TakeMessage, IngestTypeOK
<1>6. CASE Retry
  <2>1. task.msg \in Messages /\ task.attempt + 1 \in 1..Attempts /\ task # NoMessage
    BY <1>6, TaskShape DEF Retry, Attempts
  <2>2. /\ \/ task' = NoMessage
           \/ \E m \in Messages, n \in 1..Attempts :
                task' = Busy("push", m, n) \/ (n < Attempts /\ task' = Busy("sleep", m, n))
        /\ \A set \in {readings', dropped', unsure'} : set \subseteq Messages
        /\ faultsOf' \in [Messages -> Nat] /\ faults' \in 0..MaxFaults
    BY <1>6, <2>1, AttemptType DEF Retry
  <2> QED
    BY <1>6, <2>1, <2>2 DEF Retry, IngestTypeOK
<1>7. CASE PushAndEvaluate
  <2>1. task.msg \in Messages /\ task # NoMessage
    BY <1>7, TaskShape DEF PushAndEvaluate
  <2>2. evaluated' \in [Messages -> Nat]
    BY <1>7, <2>1 DEF PushAndEvaluate, IngestTypeOK
  <2> QED
    BY <1>7, <2>1, <2>2 DEF PushAndEvaluate, IngestTypeOK, storeVars
<1>8. CASE Crash
  <2>1. cut' \subseteq Messages /\ Len(queue') = 0 /\ queue' \in Seq(Messages)
    BY <1>8, <1>q, <1>h DEF Crash, IngestTypeOK
  <2> QED
    BY <1>8, <2>1 DEF Crash, IngestTypeOK, storeVars
<1>9. CASE UNCHANGED ingestVars
  BY <1>9 DEF ingestVars, IngestTypeOK
<1> QED
  BY <1>1, <1>2, <1>3, <1>4, <1>5, <1>6, <1>7, <1>8, <1>9 DEF IngestNext, IngestStep

\* The part of IngestInv beside the types, for one message each.
LEMMA InvOf ==
  ASSUME IngestInv, NEW m \in Messages
  PROVE  /\ evaluated[m] \in Nat /\ faultsOf[m] \in Nat
         /\ m \notin readings => evaluated[m] = 0
         /\ evaluated[m] <= 1
BY DEF IngestInv, IngestTypeOK, EvaluatedOnceStored

\* Steps that leave the store and the message in hand alone keep the invariant: what is
\* thrown away only adds to cut.
LEMMA AsideStep ==
  ASSUME IngestInv, IngestTypeOK', cut \subseteq cut',
         UNCHANGED <<task, readings, evaluated, faultsOf, dropped, unsure>>
  PROVE  IngestInv'
BY DEF IngestInv, EvaluatedOnceStored, TransientFaultsTolerated

\* An attempt at a message keeps the invariant, when each attempt before it at a message
\* that the table would take met a fault.
LEMMA AttemptStep ==
  ASSUME IngestInv, IngestTypeOK', NEW m \in Messages, NEW n \in 1..Attempts, Attempt(m, n),
         task.st # "push", UNCHANGED <<evaluated, cut>>,
         m \notin Unstorable \cup readings => faultsOf[m] >= n - 1
  PROVE  IngestInv'
<1>1. /\ readings \subseteq readings' /\ readings' \subseteq readings \cup {m}
      /\ dropped \subseteq dropped' /\ dropped' \subseteq dropped \cup {m}
      /\ unsure \subseteq unsure'
  BY AttemptShape
<1>2. faultsOf \in [Messages -> Nat] /\ faultsOf' \in [Messages -> Nat]
  BY DEF IngestInv, IngestTypeOK
<1>3. \A x \in Messages : faultsOf'[x] >= faultsOf[x] /\ (x # m => faultsOf'[x] = faultsOf[x])
  BY <1>2, AttemptShape
<1>4. m \notin Unstorable \cup readings' => faultsOf'[m] >= n
  <2> SUFFICES ASSUME m \notin Unstorable \cup readings' PROVE faultsOf'[m] >= n
    OBVIOUS
  <2>1. Insertable(m) /\ m \notin readings
    BY <1>1 DEF Insertable
  <2>2. faultsOf' = [faultsOf EXCEPT ![m] = @ + 1]
    BY <2>1, AttemptShape
  <2> QED
    BY <1>2, <2>1, <2>2
<1>5. EvaluatedOnceStored'
  <2> SUFFICES ASSUME NEW x \in Messages
               PROVE  evaluated[x] <= IF x \in readings' THEN 1 ELSE 0
    BY DEF EvaluatedOnceStored
  <2> QED
    BY <1>1, InvOf
<1>6. TransientFaultsTolerated'
  <2> SUFFICES ASSUME NEW x \in dropped' \ (Unstorable \cup readings')
               PROVE  faultsOf'[x] >= Attempts
    BY DEF TransientFaultsTolerated
  <2>1. x \in Messages
    BY DEF IngestInv, IngestTypeOK
  <2>2. CASE x \in dropped
    <3>1. faultsOf[x] >= Attempts
      BY <1>1, <2>2 DEF IngestInv, TransientFaultsTolerated
    <3> QED
      BY <1>2, <1>3, <2>1, <3>1 DEF Attempts
  <2>3. CASE x \notin dropped
    <3>1. x = m /\ n = Attempts
      BY <1>1, <2>3, AttemptShape
    <3> QED
      BY <1>4, <3>1
  <2> QED
    BY <2>2, <2>3
<1>7. \A x \in readings' : \/ task'.st = "push" /\ task'.msg = x
                           \/ evaluated'[x] = 1
                           \/ x \in unsure' \cup cut'
  <2> SUFFICES ASSUME NEW x \in readings', ~(task'.st = "push" /\ task'.msg = x)
               PROVE  evaluated'[x] = 1 \/ x \in unsure' \cup cut'
    OBVIOUS
  <2>1. CASE x \in readings
    BY <1>1, <2>1 DEF IngestInv
  <2>2. CASE x \notin readings
    <3>1. x = m
      BY <1>1, <2>2
    <3>2. x \in unsure'
      BY <2>2, <3>1, AttemptShape DEF Busy
    <3> QED
      BY <3>2
  <2> QED
    BY <2>1, <2>2
<1>8. task'.st = "push" => task'.msg \in readings' /\ evaluated'[task'.msg] = 0
  <2> SUFFICES ASSUME task'.st = "push"
               PROVE  task'.msg \in readings' /\ evaluated'[task'.msg] = 0
    OBVIOUS
  <2>1. task' = Busy("push", m, n) /\ Insertable(m) /\ readings' = readings \cup {m}
    BY AttemptShape DEF Busy, NoMessage
  <2> QED
    BY <2>1, InvOf DEF Busy, Insertable
<1>9. task'.st = "sleep" /\ task'.msg \notin Unstorable \cup readings' =>
        faultsOf'[task'.msg] >= task'.attempt
  <2> SUFFICES ASSUME task'.st = "sleep", task'.msg \notin Unstorable \cup readings'
               PROVE  faultsOf'[task'.msg] >= task'.attempt
    OBVIOUS
  <2>1. task' = Busy("sleep", m, n)
    BY AttemptShape DEF Busy, NoMessage
  <2> QED
    BY <1>4, <2>1 DEF Busy
<1> QED
  BY <1>5, <1>6, <1>7, <1>8, <1>9 DEF IngestInv

\* Every step keeps the invariant.
LEMMA IngestInvStep == IngestInv /\ [IngestNext]_ingestVars => IngestInv'
<1> SUFFICES ASSUME IngestInv, [IngestNext]_ingestVars PROVE IngestInv'
  OBVIOUS
<1>t. IngestTypeOK /\ IngestTypeOK'
  BY IngestTypeStep DEF IngestInv
<1>1. CASE \/ Subscribe \/ SubscriptionBreaks \/ IterationEnds \/ UNCHANGED ingestVars
           \/ \E m \in Messages : Publish(m)
  BY <1>1, <1>t, AsideStep
     DEF Subscribe, SubscriptionBreaks, IterationEnds, Publish, ingestVars, storeVars
<1>2. CASE TakeMessage
  <2>1. Head(queue) \in Messages /\ 1 \in 1..Attempts /\ task.st # "push"
    BY <1>2, <1>t, HeadTailProperties, TaskShape DEF TakeMessage, IngestTypeOK, Attempts
  <2>2. faultsOf[Head(queue)] >= 1 - 1
    BY <2>1, InvOf
  <2> QED
    BY <1>2, <1>t, <2>1, <2>2, AttemptStep DEF TakeMessage
<1>3. CASE Retry
  <2>1. /\ task.msg \in Messages /\ task.attempt \in 1..Attempts
        /\ task.attempt < Attempts /\ task.st = "sleep"
    BY <1>3, <1>t, TaskShape DEF Retry
  <2>2. task.attempt + 1 \in 1..Attempts /\ (task.attempt + 1) - 1 = task.attempt
    BY <2>1 DEF Attempts
  <2>3. task.msg \notin Unstorable \cup readings =>
          faultsOf[task.msg] >= (task.attempt + 1) - 1
    BY <2>1, <2>2 DEF IngestInv
  <2> QED
    BY <1>3, <1>t, <2>1, <2>2, <2>3, AttemptStep DEF Retry
<1>4. CASE PushAndEvaluate
  <2>1. /\ task.st = "push" /\ task.msg \in readings /\ evaluated[task.msg] = 0
        /\ task.msg \in Messages
    BY <1>4, <1>t, TaskShape DEF PushAndEvaluate, IngestInv
  <2>2. /\ evaluated' = [evaluated EXCEPT ![task.msg] = 1]
        /\ evaluated \in [Messages -> Nat]
        /\ UNCHANGED <<readings, faultsOf, dropped, unsure, cut>> /\ task'.st = "idle"
    BY <1>4, <2>1 DEF PushAndEvaluate, IngestInv, IngestTypeOK, storeVars, NoMessage
  <2>3. EvaluatedOnceStored'
    BY <2>1, <2>2 DEF IngestInv, EvaluatedOnceStored
  <2>4. TransientFaultsTolerated'
    BY <2>2 DEF IngestInv, TransientFaultsTolerated
  <2>5. \A m \in readings : evaluated'[m] = 1 \/ m \in unsure \cup cut
    BY <1>t, <2>1, <2>2 DEF IngestInv, IngestTypeOK
  <2> QED
    BY <1>t, <2>2, <2>3, <2>4, <2>5 DEF IngestInv
<1>5. CASE Crash
  <2>1. /\ task'.st = "idle" /\ cut' = cut \cup Queued \cup InHand
        /\ UNCHANGED <<readings, evaluated, faultsOf, dropped, unsure>>
    BY <1>5 DEF Crash, storeVars, NoMessage
  <2>2. \A m \in readings : evaluated[m] = 1 \/ m \in unsure \cup cut'
    BY <1>t, <2>1, TaskShape DEF IngestInv
  <2>3. EvaluatedOnceStored' /\ TransientFaultsTolerated'
    BY <2>1 DEF IngestInv, EvaluatedOnceStored, TransientFaultsTolerated
  <2> QED
    BY <1>t, <2>1, <2>2, <2>3 DEF IngestInv
<1> QED
  BY <1>1, <1>2, <1>3, <1>4, <1>5 DEF IngestNext, IngestStep

\* The system starts with the invariant.
LEMMA IngestInvInit == IngestInit => IngestInv
<1> SUFFICES ASSUME IngestInit PROVE IngestInv
  OBVIOUS
<1>1. NoMessage.st = "idle" /\ Len(<< >>) = 0 /\ << >> \in Seq(Messages)
  BY DEF NoMessage
<1> QED
  BY <1>1, IngestAssumption
     DEF IngestInit, IngestInv, IngestTypeOK, EvaluatedOnceStored, TransientFaultsTolerated

\* Whatever the deliveries, faults and crashes, the task's state agrees with the store:
\* the inductive invariant holds for any set of messages and any bounds.
THEOREM IngestInvariance == IngestSpec => []IngestInv
BY IngestInvInit, IngestInvStep, PTL DEF IngestSpec

\* Every variable of the ingest task keeps its type; in particular the task never makes an
\* attempt after the last one, and holds nothing while there is no subscription.
THEOREM IngestTypes == IngestSpec => []IngestTypeOK
<1>1. IngestInv => IngestTypeOK
  BY DEF IngestInv
<1> QED
  BY <1>1, IngestInvariance, PTL

\* _handle_reading pushes and evaluates a message at most once, and only a stored one,
\* however many copies of it the broker delivers.
THEOREM EvaluatedAtMostOnce == IngestSpec => []EvaluatedOnceStored
<1>1. IngestInv => EvaluatedOnceStored
  BY DEF IngestInv
<1> QED
  BY <1>1, IngestInvariance, PTL

\* A stored message that is no longer in hand was evaluated, but for a commit reported as
\* failed and a crash: a broken subscription does not come between storing and evaluating.
THEOREM StoredMeansEvaluated == IngestSpec => []StoredIsEvaluated
<1>1. IngestInv => StoredIsEvaluated
  <2> SUFFICES ASSUME IngestInv, NEW m \in readings \ InHand
               PROVE  evaluated[m] = 1 \/ m \in unsure \cup cut
    BY DEF StoredIsEvaluated
  <2>1. ~(task.st = "push" /\ task.msg = m)
    BY TaskShape DEF IngestInv
  <2> QED
    BY <2>1 DEF IngestInv
<1> QED
  BY <1>1, IngestInvariance, PTL

\* The retry loop of _handle_reading drops a storable batch only after as many faults of
\* the database as it makes attempts.
THEOREM FaultsAreRiddenOut == IngestSpec => []TransientFaultsTolerated
<1>1. IngestInv => TransientFaultsTolerated
  BY DEF IngestInv
<1> QED
  BY <1>1, IngestInvariance, PTL
================================================================================
