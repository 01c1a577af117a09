---------------------------- MODULE LiveFeedProofs -----------------------------
(***************************************************************************)
(* Proofs about the live feed in the backend's loop, for any number of     *)
(* dashboards, readings, tests and troubles: no dashboard gets a broadcast *)
(* twice, and one that is in the list when the broadcast ends got it, but  *)
(* for one dashboard for each departure from a place already passed.       *)
(***************************************************************************)
EXTENDS BackendLoop, SequenceTheorems, FiniteSetTheorems, TLAPS

\* No connection is in the list twice, so that its place is one.
ListedOnce == \A i, j \in DOMAIN active : active[i] = active[j] => i = j

\* What is behind the place of the broadcast was not sent to.
NotYetSent == \A i \in DOMAIN active : i > Len(cast.sent) => active[i] \notin ToSet(cast.sent)

\* The list and the broadcast know only connections that were accepted, and what a
\* broadcast took for dead never comes back.
Accepted ==
  /\ \A c \in ToSet(active) \cup ToSet(cast.sent) : client[c] # "new"
  /\ \A c \in cast.dead : ~Open(c)

\* Those that got the message and are no longer in the list left from a place the
\* broadcast had passed.
DepartedInv == Cardinality(ToSet(cast.sent) \ ToSet(active)) <= cast.left

\* The inductive invariant of the live feed.
FeedInv ==
  /\ FeedTypeOK
  /\ ListedOnce
  /\ NobodyTwice
  /\ NotYetSent
  /\ Accepted
  /\ DepartedInv

--------------------------------------------------------------------------------
(* Lemmas about the list *)

Once(s) == \A i, j \in DOMAIN s : s[i] = s[j] => i = j

LEMMA FiniteConnections == IsFiniteSet(Connections) /\ \A S \in SUBSET Connections : IsFiniteSet(S)
<1>1. IsFiniteSet(Connections)
  BY FS_Interval, FeedAssumption DEF Connections
<1> QED
  BY <1>1, FS_Subset

LEMMA ElementsOf ==
  ASSUME NEW s \in Seq(Connections)
  PROVE  ToSet(s) \in SUBSET Connections /\ DOMAIN s = 1..Len(s) /\ Len(s) \in Nat
BY DEF ToSet

\* A list without repetitions has as many elements as places.
LEMMA OnceCardinality ==
  ASSUME NEW s \in Seq(Connections), Once(s)
  PROVE  Cardinality(ToSet(s)) = Len(s)
<1>1. s \in Bijection(1..Len(s), ToSet(s))
  BY ElementsOf DEF Once, ToSet, Bijection, Injection, Surjection, IsInjective
<1>2. IsFiniteSet(1..Len(s)) /\ Cardinality(1..Len(s)) = Len(s)
  BY ElementsOf, FS_Interval
<1> QED
  BY <1>1, <1>2, FS_Bijection DEF ExistsBijection

\* Python's list.remove of an element that is in the list once.
LEMMA RemoveFirstIs ==
  ASSUME NEW s \in Seq(Connections), Once(s), NEW c
  PROVE  /\ RemoveFirst(s, c) \in Seq(Connections)
         /\ Once(RemoveFirst(s, c))
         /\ ToSet(RemoveFirst(s, c)) = ToSet(s) \ {c}
         /\ \A i \in DOMAIN RemoveFirst(s, c) :
              RemoveFirst(s, c)[i] = s[i] \/ (i + 1 \in DOMAIN s /\ RemoveFirst(s, c)[i] = s[i + 1])
<1>1. CASE \A i \in 1..Len(s) : s[i] # c
  <2>1. RemoveFirst(s, c) = s
    BY <1>1 DEF RemoveFirst
  <2>2. ToSet(s) = ToSet(s) \ {c}
    BY <1>1, ElementsOf DEF ToSet
  <2> QED
    BY <2>1, <2>2
<1>2. CASE \E i \in 1..Len(s) : s[i] = c
  <2>1. PICK i \in 1..Len(s) : s[i] = c
    BY <1>2
  <2>2. {j \in 1..Len(s) : s[j] = c} = {i}
    BY <2>1, ElementsOf DEF Once
  <2>3. Min({i}) = i
    BY <2>1 DEF Min
  <2>4. SelectInSeq(s, LAMBDA v : v = c) = i
    BY <2>2, <2>3 DEF SelectInSeq
  <2>5. RemoveFirst(s, c) = SubSeq(s, 1, i - 1) \o SubSeq(s, i + 1, Len(s))
    BY <1>2, <2>4 DEF RemoveFirst, RemoveAt
  <2> DEFINE t == RemoveFirst(s, c)
  <2>6. /\ t \in Seq(Connections) /\ DOMAIN t = 1..Len(s) - 1
        /\ \A j \in 1..Len(s) - 1 : t[j] = IF j < i THEN s[j] ELSE s[j + 1]
    <3> DEFINE front == SubSeq(s, 1, i - 1)
               back == SubSeq(s, i + 1, Len(s))
    <3>1. /\ front \in Seq(Connections) /\ Len(front) = i - 1
          /\ \A j \in 1..i - 1 : front[j] = s[j]
      BY <2>1, ElementsOf, SubSeqProperties
    <3>2. /\ back \in Seq(Connections) /\ Len(back) = Len(s) - i
          /\ \A j \in 1..Len(s) - i : back[j] = s[i + j]
      BY <2>1, ElementsOf, SubSeqProperties
    <3>3. t = front \o back
      BY <2>5
    <3> HIDE DEF t, front, back
    <3>4. /\ t \in Seq(Connections) /\ Len(t) = Len(s) - 1
          /\ \A j \in 1..Len(t) : t[j] = IF j <= i - 1 THEN front[j] ELSE back[j - (i - 1)]
      BY <2>1, <3>1, <3>2, <3>3, ElementsOf, ConcatProperties
    <3>5. \A j \in 1..Len(s) - 1 : t[j] = IF j < i THEN s[j] ELSE s[j + 1]
      <4> SUFFICES ASSUME NEW j \in 1..Len(s) - 1
                   PROVE  t[j] = IF j < i THEN s[j] ELSE s[j + 1]
        OBVIOUS
      <4>1. CASE j < i
        BY <2>1, <3>1, <3>4, <4>1, ElementsOf
      <4>2. CASE ~(j < i)
        <5>1. /\ j - (i - 1) \in 1..Len(s) - i /\ i + (j - (i - 1)) = j + 1
              /\ t[j] = back[j - (i - 1)]
          BY <2>1, <3>4, <4>2, ElementsOf
        <5> QED
          BY <3>2, <4>2, <5>1
      <4> QED
        BY <4>1, <4>2
    <3> QED
      BY <3>4, <3>5, ElementsOf
  <2> HIDE DEF t
  <2>7. Once(t)
    <3> SUFFICES ASSUME NEW j \in 1..Len(s) - 1, NEW h \in 1..Len(s) - 1, t[j] = t[h]
                 PROVE  j = h
      BY <2>6 DEF Once
    <3> DEFINE from(n) == IF n < i THEN n ELSE n + 1
    <3>1. /\ from(j) \in DOMAIN s /\ t[j] = s[from(j)]
          /\ from(h) \in DOMAIN s /\ t[h] = s[from(h)]
      BY <2>1, <2>6, ElementsOf
    <3>2. from(j) = from(h)
      <4> HIDE DEF from
      <4> QED
        BY <3>1 DEF Once
    <3> QED
      BY <2>1, <3>2
  <2>8. ToSet(t) = ToSet(s) \ {c}
    <3>1. \A j \in DOMAIN s : s[j] # c => \E h \in DOMAIN t : t[h] = s[j]
      <4> SUFFICES ASSUME NEW j \in DOMAIN s, j # i PROVE \E h \in DOMAIN t : t[h] = s[j]
        BY <2>1
      <4>1. CASE j < i
        <5>0. j \in 1..Len(s) - 1
          BY <2>1, <4>1, ElementsOf
        <5>1. j \in DOMAIN t /\ t[j] = s[j]
          BY <2>6, <4>1, <5>0
        <5> QED
          BY <5>1
      <4>2. CASE j > i
        <5>0. j \in 1..Len(s) /\ Len(s) \in Nat /\ i \in 1..Len(s)
          BY <2>1, ElementsOf
        <5>1. j - 1 \in DOMAIN t /\ t[j - 1] = s[j]
          BY <2>6, <4>2, <5>0
        <5> QED
          BY <5>1
      <4> QED
        BY <2>1, <4>1, <4>2, ElementsOf
    <3>2. \A h \in DOMAIN t : t[h] # c /\ \E j \in DOMAIN s : t[h] = s[j]
      <4> SUFFICES ASSUME NEW h \in DOMAIN t
                   PROVE  t[h] # c /\ \E j \in DOMAIN s : t[h] = s[j]
        OBVIOUS
      <4>1. PICK j \in DOMAIN s : t[h] = s[j] /\ j # i
        BY <2>1, <2>6, ElementsOf
      <4> QED
        BY <2>1, <4>1, ElementsOf DEF Once
    <3> QED
      BY <3>1, <3>2 DEF ToSet
  <2>9. \A j \in DOMAIN t : t[j] = s[j] \/ (j + 1 \in DOMAIN s /\ t[j] = s[j + 1])
    BY <2>1, <2>6, ElementsOf
  <2> QED
    BY <2>6, <2>7, <2>8, <2>9 DEF t
<1> QED
  BY <1>1, <1>2

\* Several at a time, at the end of a broadcast.
LEMMA LeaveIs ==
  ASSUME active \in Seq(Connections), ListedOnce, NEW dead, Leave(dead)
  PROVE  /\ active' \in Seq(Connections)
         /\ ListedOnce'
         /\ ToSet(active') = ToSet(active) \ dead
<1> DEFINE kept == {i \in DOMAIN active : active[i] \notin dead}
<1>1. PICK place \in [1..Cardinality(kept) -> kept] :
        /\ \A i, j \in DOMAIN place : i < j => place[i] < place[j]
        /\ kept = ToSet(place)
        /\ active' = [i \in DOMAIN place |-> active[place[i]]]
  BY DEF Leave
<1>2. Cardinality(kept) \in Nat /\ kept \subseteq Nat
  <2>1. kept \in SUBSET (1..Len(active)) /\ Len(active) \in Nat
    OBVIOUS
  <2>2. IsFiniteSet(1..Len(active))
    BY <2>1, FS_Interval
  <2> QED
    BY <2>1, <2>2, FS_Subset, FS_CardinalityType
<1>3. DOMAIN place = 1..Cardinality(kept) /\ \A i \in DOMAIN place : place[i] \in kept
  OBVIOUS
<1>4. \A i \in DOMAIN place : place[i] \in DOMAIN active /\ active[place[i]] \notin dead
  BY <1>3
<1>5. \A i \in DOMAIN active : active[i] \notin dead => \E j \in DOMAIN place : place[j] = i
  BY <1>1 DEF ToSet
<1> HIDE DEF kept
<1>6. active' \in Seq(Connections)
  <2>1. active' \in [1..Cardinality(kept) -> Connections]
    BY <1>1, <1>3, <1>4, ElementsOf
  <2> QED
    BY <1>2, <2>1, SeqDef
<1>7. DOMAIN active' = DOMAIN place /\ \A i \in DOMAIN place : active'[i] = active[place[i]]
  BY <1>1
<1>8. ListedOnce'
  <2> SUFFICES ASSUME NEW i \in DOMAIN place, NEW j \in DOMAIN place, active'[i] = active'[j]
               PROVE  i = j
    BY <1>7 DEF ListedOnce
  <2>1. place[i] = place[j] /\ place[i] \in Nat
    BY <1>2, <1>3, <1>4, <1>7 DEF ListedOnce
  <2>2. i \in Nat /\ j \in Nat
    BY <1>2, <1>3
  <2> QED
    BY <1>1, <2>1, <2>2
<1>9. ToSet(active') = ToSet(active) \ dead
  BY <1>4, <1>5, <1>7 DEF ToSet
<1> QED
  BY <1>6, <1>8, <1>9
--------------------------------------------------------------------------------
(* The steps of the connections *)

\* The broadcast under way, as a record.
Broadcasts == [st : {"silent", "sending"}, sent : Seq(Connections), dead : SUBSET Connections,
               left : Nat]

LEMMA FeedTypes ==
  ASSUME FeedTypeOK
  PROVE  /\ active \in Seq(Connections) /\ cast \in Broadcasts
         /\ cast.sent \in Seq(Connections) /\ cast.dead \in SUBSET Connections /\ cast.left \in Nat
         /\ ToSet(active) \in SUBSET Connections /\ ToSet(cast.sent) \in SUBSET Connections
         /\ DOMAIN active = 1..Len(active) /\ Len(active) \in Nat
         /\ DOMAIN cast.sent = 1..Len(cast.sent) /\ Len(cast.sent) \in Nat
<1>1. active \in Seq(Connections) /\ cast \in Broadcasts
  BY DEF FeedTypeOK, Broadcasts
<1>2. cast.sent \in Seq(Connections) /\ cast.dead \in SUBSET Connections /\ cast.left \in Nat
  BY <1>1 DEF Broadcasts
<1> QED
  BY <1>1, <1>2, ElementsOf

LEMMA FeedInitInv == FeedInit => FeedInv
<1> SUFFICES ASSUME FeedInit PROVE FeedInv
  OBVIOUS
<1>1. /\ active = <<>> /\ cast = Silent /\ \A c \in Connections : client[c] = "new"
      /\ client \in [Connections -> {"new", "open", "stalled", "gone", "over"}]
      /\ cast.sent = <<>> /\ cast.dead = {} /\ cast.left = 0
  BY DEF FeedInit, Silent
<1>2. ToSet(<<>>) = {} /\ DOMAIN <<>> = {} /\ <<>> \in Seq(Connections)
  BY DEF ToSet
<1>3. FeedTypeOK
  <2>1. \A c \in Connections : ~Open(c)
    BY <1>1 DEF Open
  <2>2. Silent \in [st : {"silent", "sending"}, sent : Seq(Connections), dead : SUBSET Connections,
                    left : Nat]
    BY <1>2 DEF Silent
  <2> QED
    BY <1>1, <1>2, <2>1, <2>2 DEF FeedTypeOK
<1>4. Cardinality({} \ {}) = 0
  BY FS_EmptySet
<1> QED
  BY <1>1, <1>2, <1>3, <1>4 DEF FeedInv, ListedOnce, NobodyTwice, NotYetSent, Accepted, DepartedInv

LEMMA JoinStep ==
  ASSUME FeedInv, NEW c \in Connections, Join(c)
  PROVE  FeedInv'
<1>1. /\ active \in Seq(Connections) /\ Len(active) \in Nat /\ DOMAIN active = 1..Len(active)
      /\ Len(cast.sent) \in Nat /\ cast \in Broadcasts
      /\ cast.left \in Nat /\ ToSet(cast.sent) \in SUBSET Connections
      /\ client \in [Connections -> {"new", "open", "stalled", "gone", "over"}]
  BY FeedTypes DEF FeedInv, FeedTypeOK
<1>2. /\ client[c] = "new" /\ active' = Append(active, c) /\ cast' = cast
      /\ client' = [client EXCEPT ![c] = "open"]
  BY DEF Join
<1>3. c \notin ToSet(active) /\ c \notin ToSet(cast.sent)
  BY <1>2 DEF FeedInv, Accepted
<1>4. /\ active' \in Seq(Connections) /\ DOMAIN active' = 1..Len(active) + 1
      /\ active'[Len(active) + 1] = c /\ \A i \in 1..Len(active) : active'[i] = active[i]
  BY <1>1, <1>2
<1>5. ToSet(active') = ToSet(active) \cup {c}
  BY <1>1, <1>4 DEF ToSet
<1>6. ListedOnce'
  BY <1>1, <1>3, <1>4 DEF FeedInv, ListedOnce, ToSet
<1>7. NobodyTwice'
  BY <1>2 DEF FeedInv, NobodyTwice
<1>8. NotYetSent'
  BY <1>1, <1>2, <1>3, <1>4 DEF FeedInv, NotYetSent
<1>9. Accepted'
  <2>1. c \notin cast.dead
    BY <1>1, <1>2, <1>3 DEF FeedInv, FeedTypeOK, Silent
  <2> QED
    BY <1>1, <1>2, <1>3, <1>5, <2>1 DEF FeedInv, Accepted, Open
<1>10. DepartedInv'
  <2>1. ToSet(cast.sent) \ ToSet(active') = ToSet(cast.sent) \ ToSet(active)
    BY <1>3, <1>5
  <2> QED
    BY <1>2, <2>1 DEF FeedInv, DepartedInv
<1>11. FeedTypeOK'
  <2>1. client' \in [Connections -> {"new", "open", "stalled", "gone", "over"}]
    BY <1>1, <1>2
  <2>2. \A d \in Connections : Open(d)' => d \in ToSet(active')
    BY <1>1, <1>2, <1>5 DEF FeedInv, FeedTypeOK, Open
  <2> QED
    BY <1>2, <1>4, <2>1, <2>2 DEF FeedInv, FeedTypeOK
<1> QED
  BY <1>6, <1>7, <1>8, <1>9, <1>10, <1>11 DEF FeedInv

\* A dashboard stops reading, reads again or closes.
LEMMA ReadingStep ==
  ASSUME FeedInv, NEW c \in Connections, StopReading(c) \/ ReadAgain(c) \/ Close(c)
  PROVE  FeedInv'
<1>1. PICK state \in {"open", "stalled", "gone"} : client' = [client EXCEPT ![c] = state]
  BY DEF StopReading, ReadAgain, Close
<1>2. Open(c) /\ UNCHANGED <<active, cast>>
  BY DEF StopReading, ReadAgain, Close, Open
<1>3. client \in [Connections -> {"new", "open", "stalled", "gone", "over"}]
  BY DEF FeedInv, FeedTypeOK
<1>4. FeedTypeOK'
  <2>1. client' \in [Connections -> {"new", "open", "stalled", "gone", "over"}]
    BY <1>1, <1>3
  <2>2. \A d \in Connections : Open(d)' => d \in ToSet(active')
    BY <1>1, <1>2, <1>3 DEF FeedInv, FeedTypeOK, Open
  <2> QED
    BY <1>2, <2>1, <2>2 DEF FeedInv, FeedTypeOK
<1>5. Accepted'
  <2>1. ToSet(active) \cup ToSet(cast.sent) \subseteq Connections /\ cast.dead \subseteq Connections
    BY FeedTypes DEF FeedInv
  <2> QED
    BY <1>1, <1>2, <1>3, <2>1 DEF FeedInv, Accepted, Open
<1> QED
  BY <1>2, <1>4, <1>5 DEF FeedInv, ListedOnce, NobodyTwice, NotYetSent, DepartedInv

LEMMA DisconnectStep ==
  ASSUME FeedInv, NEW c \in Connections, Disconnect(c)
  PROVE  FeedInv'
<1>1. /\ active \in Seq(Connections) /\ Len(active) \in Nat /\ DOMAIN active = 1..Len(active)
      /\ Len(cast.sent) \in Nat /\ cast \in Broadcasts
      /\ cast.left \in Nat /\ ToSet(cast.sent) \in SUBSET Connections
      /\ client \in [Connections -> {"new", "open", "stalled", "gone", "over"}]
      /\ cast.dead \in SUBSET Connections /\ ToSet(active) \in SUBSET Connections
  BY FeedTypes DEF FeedInv, FeedTypeOK
<1>2. /\ client[c] = "gone" /\ active' = RemoveFirst(active, c)
      /\ client' = [client EXCEPT ![c] = "over"]
      /\ cast' = IF Passed(c) THEN [cast EXCEPT !.left = @ + 1] ELSE cast
  BY DEF Disconnect
<1>3. Once(active)
  BY DEF FeedInv, ListedOnce, Once
<1>4. /\ active' \in Seq(Connections) /\ Once(active')
      /\ ToSet(active') = ToSet(active) \ {c}
      /\ \A i \in DOMAIN active' :
           active'[i] = active[i] \/ (i + 1 \in DOMAIN active /\ active'[i] = active[i + 1])
  BY <1>1, <1>2, <1>3, RemoveFirstIs
<1>5. /\ cast'.st = cast.st /\ cast'.sent = cast.sent /\ cast'.dead = cast.dead
      /\ cast'.left = (IF Passed(c) THEN cast.left + 1 ELSE cast.left)
      /\ cast' \in Broadcasts
  <2>1. \A b \in Broadcasts, m \in Nat :
          [b EXCEPT !.left = m] = [st |-> b.st, sent |-> b.sent, dead |-> b.dead, left |-> m]
    BY DEF Broadcasts
  <2>2. \A b \in Broadcasts, m \in Nat :
          [st |-> b.st, sent |-> b.sent, dead |-> b.dead, left |-> m] \in Broadcasts
    BY DEF Broadcasts
  <2>3. cast.left + 1 \in Nat
    BY <1>1
  <2>4. CASE Passed(c)
    <3>1. cast' = [cast EXCEPT !.left = cast.left + 1]
      BY <1>2, <2>4
    <3>2. cast' = [st |-> cast.st, sent |-> cast.sent, dead |-> cast.dead, left |-> cast.left + 1]
      BY <1>1, <2>1, <2>3, <3>1
    <3>3. cast' \in Broadcasts
      BY <1>1, <2>2, <2>3, <3>2
    <3> QED
      BY <2>4, <3>2, <3>3
  <2>5. CASE ~Passed(c)
    BY <1>1, <1>2, <2>5
  <2> QED
    BY <2>4, <2>5
<1>6. ListedOnce' /\ NobodyTwice'
  BY <1>4, <1>5 DEF FeedInv, NobodyTwice, ListedOnce, Once
<1>7. NotYetSent'
  <2> SUFFICES ASSUME NEW i \in DOMAIN active', i > Len(cast.sent)
               PROVE  active'[i] \notin ToSet(cast.sent)
    BY <1>5 DEF NotYetSent
  <2>1. DOMAIN active' = 1..Len(active') /\ Len(active') \in Nat
    BY <1>4, ElementsOf
  <2>2. CASE i + 1 \in DOMAIN active /\ active'[i] = active[i + 1]
    <3>1. i + 1 > Len(cast.sent)
      BY <1>1, <2>1
    <3> QED
      BY <2>2, <3>1 DEF FeedInv, NotYetSent
  <2>3. CASE active'[i] = active[i] /\ i \in DOMAIN active
    BY <2>3 DEF FeedInv, NotYetSent
  <2>4. active'[i] = active[i] => i \in DOMAIN active \/ (i + 1 \in DOMAIN active /\ active'[i] = active[i + 1])
    <3>1. Len(active') <= Len(active)
      <4>1. Cardinality(ToSet(active')) = Len(active') /\ Cardinality(ToSet(active)) = Len(active)
        BY <1>1, <1>3, <1>4, OnceCardinality
      <4> QED
        BY <1>1, <1>4, <4>1, FS_Subset, FiniteConnections
    <3> QED
      BY <1>1, <2>1, <3>1
  <2> QED
    BY <1>4, <2>2, <2>3, <2>4
<1>8. Accepted'
  BY <1>1, <1>2, <1>4, <1>5 DEF FeedInv, Accepted, Open
<1>9. DepartedInv'
  <2> DEFINE missing == ToSet(cast.sent) \ ToSet(active)
  <2>1. IsFiniteSet(missing) /\ missing \in SUBSET Connections /\ Cardinality(missing) \in Nat
    BY <1>1, FiniteConnections, FS_CardinalityType
  <2>2. Cardinality(missing) <= cast.left
    BY DEF FeedInv, DepartedInv
  <2>3. DepartedInv' <=> Cardinality(ToSet(cast.sent) \ ToSet(active')) <= cast'.left
    BY <1>5 DEF DepartedInv
  <2>4. CASE c \in ToSet(active) /\ c \in ToSet(cast.sent)
    <3>1. Passed(c)
      <4>1. PICK i \in DOMAIN active : active[i] = c
        BY <2>4 DEF ToSet
      <4>2. i <= Len(cast.sent)
        BY <1>1, <2>4, <4>1 DEF FeedInv, NotYetSent
      <4> QED
        BY <4>1, <4>2 DEF Passed
    <3>2. ToSet(cast.sent) \ ToSet(active') = missing \cup {c}
      BY <1>4, <2>4
    <3>3. Cardinality(missing \cup {c}) \in {Cardinality(missing), Cardinality(missing) + 1}
      BY <2>1, FS_AddElement
    <3> HIDE DEF missing
    <3>4. Cardinality(missing \cup {c}) <= cast.left + 1
      BY <1>1, <2>1, <2>2, <3>3
    <3> QED
      BY <1>1, <1>5, <2>1, <2>2, <2>3, <3>1, <3>2, <3>4
  <2>5. CASE c \notin ToSet(active) \/ c \notin ToSet(cast.sent)
    <3>1. ToSet(cast.sent) \ ToSet(active') = missing
      BY <1>4, <2>5
    <3> HIDE DEF missing
    <3>2. Cardinality(missing) <= cast'.left
      BY <1>1, <1>5, <2>1, <2>2
    <3> QED
      BY <2>3, <3>1, <3>2
  <2> QED
    BY <2>4, <2>5
<1>10. FeedTypeOK'
  <2>1. client' \in [Connections -> {"new", "open", "stalled", "gone", "over"}]
    BY <1>1, <1>2
  <2>2. \A d \in Connections : Open(d)' => d \in ToSet(active')
    BY <1>1, <1>2, <1>4 DEF FeedInv, FeedTypeOK, Open
  <2>3. cast' = Silent
        \/ (cast'.st = "sending" /\ cast'.sent # <<>> /\ cast'.dead \subseteq ToSet(cast'.sent))
    <3>1. CASE cast = Silent
      <4>1. ~Passed(c)
        BY <1>1, <3>1 DEF Passed, Silent
      <4> QED
        BY <1>2, <3>1, <4>1
    <3>2. CASE cast.st = "sending" /\ cast.sent # <<>> /\ cast.dead \subseteq ToSet(cast.sent)
      BY <1>5, <3>2
    <3> QED
      BY <3>1, <3>2 DEF FeedInv, FeedTypeOK
  <2> QED
    BY <1>4, <1>5, <2>1, <2>2, <2>3 DEF FeedTypeOK, Broadcasts
<1> QED
  BY <1>6, <1>7, <1>8, <1>9, <1>10 DEF FeedInv
--------------------------------------------------------------------------------
(* The steps of a broadcast *)

LEMMA StartStep ==
  ASSUME FeedInv, StartBroadcast
  PROVE  FeedInv'
<1>1. /\ active \in Seq(Connections) /\ Len(active) \in Nat /\ DOMAIN active = 1..Len(active)
      /\ cast = Silent /\ UNCHANGED <<active, client>>
  BY FeedTypes DEF FeedInv, StartBroadcast
<1>2. CASE active = <<>>
  <2>1. UNCHANGED <<active, client, cast>>
    BY <1>1, <1>2 DEF StartBroadcast
  <2> QED
    BY <2>1 DEF FeedInv, FeedTypeOK, ListedOnce, NobodyTwice, NotYetSent, Accepted, DepartedInv, Open
<1>3. CASE active # <<>>
  <2>1. cast' = [st |-> "sending", sent |-> <<active[1]>>, dead |-> {}, left |-> 0]
    BY <1>1, <1>3 DEF StartBroadcast, Silent
  <2>2. /\ cast'.st = "sending" /\ cast'.sent = <<active[1]>> /\ cast'.dead = {} /\ cast'.left = 0
    BY <2>1
  <2>3. 1 \in DOMAIN active /\ active[1] \in Connections /\ active[1] \in ToSet(active)
    BY <1>1, <1>3 DEF ToSet
  <2>4. /\ <<active[1]>> \in Seq(Connections) /\ ToSet(<<active[1]>>) = {active[1]}
        /\ Len(<<active[1]>>) = 1 /\ DOMAIN <<active[1]>> = {1} /\ <<active[1]>> # <<>>
    BY <2>3 DEF ToSet
  <2>5. FeedTypeOK'
    <3>1. cast' \in [st : {"silent", "sending"}, sent : Seq(Connections), dead : SUBSET Connections,
                     left : Nat]
      BY <2>1, <2>4
    <3> QED
      BY <1>1, <2>2, <2>4, <3>1 DEF FeedInv, FeedTypeOK, Open
  <2>6. NobodyTwice'
    BY <2>2, <2>4 DEF NobodyTwice
  <2>7. NotYetSent'
    <3> SUFFICES ASSUME NEW i \in DOMAIN active, i > 1 PROVE active[i] # active[1]
      BY <1>1, <2>2, <2>4 DEF NotYetSent
    <3> QED
      BY <2>3 DEF FeedInv, ListedOnce
  <2>8. Accepted'
    BY <1>1, <2>2, <2>3, <2>4 DEF FeedInv, Accepted
  <2>9. DepartedInv'
    <3>1. ToSet(cast'.sent) \ ToSet(active') = {}
      BY <1>1, <2>2, <2>3, <2>4
    <3> QED
      BY <2>2, <3>1, FS_EmptySet DEF DepartedInv
  <2>10. ListedOnce'
    BY <1>1 DEF FeedInv, ListedOnce
  <2> QED
    BY <2>5, <2>6, <2>7, <2>8, <2>9, <2>10 DEF FeedInv
<1> QED
  BY <1>2, <1>3

LEMMA GoOnStep ==
  ASSUME FeedInv, NEW dead \in SUBSET ToSet(cast.sent), \A c \in dead : ~Open(c),
         cast.st = "sending", GoOnBroadcast(dead), UNCHANGED client
  PROVE  FeedInv'
<1>1. /\ active \in Seq(Connections) /\ Len(active) \in Nat /\ DOMAIN active = 1..Len(active)
      /\ cast.sent \in Seq(Connections) /\ Len(cast.sent) \in Nat
      /\ DOMAIN cast.sent = 1..Len(cast.sent) /\ cast \in Broadcasts
      /\ cast.left \in Nat /\ ToSet(cast.sent) \in SUBSET Connections
      /\ ToSet(active) \in SUBSET Connections
  BY FeedTypes DEF FeedInv
<1> DEFINE next == Len(cast.sent) + 1
<1>2. CASE next <= Len(active)
  <2>1. /\ cast' = [st |-> "sending", sent |-> Append(cast.sent, active[next]), dead |-> dead,
                    left |-> cast.left]
        /\ active' = active
    BY <1>2 DEF GoOnBroadcast
  <2>2. next \in DOMAIN active /\ active[next] \in Connections /\ active[next] \in ToSet(active)
        /\ active[next] \notin ToSet(cast.sent)
    BY <1>1, <1>2 DEF ToSet, FeedInv, NotYetSent
  <2>3. dead \in SUBSET Connections
    BY <1>1
  <2>4. cast' = [st |-> "sending", sent |-> Append(cast.sent, active[next]), dead |-> dead,
                 left |-> cast.left]
    BY <2>1
  <2> DEFINE sent == Append(cast.sent, active[next])
  <2>5. /\ sent \in Seq(Connections) /\ Len(sent) = next /\ DOMAIN sent = 1..next
        /\ sent[next] = active[next] /\ \A i \in 1..Len(cast.sent) : sent[i] = cast.sent[i]
        /\ sent # <<>>
    BY <1>1, <2>2
  <2>6. ToSet(sent) = ToSet(cast.sent) \cup {active[next]}
    BY <1>1, <2>5 DEF ToSet
  <2>7. /\ cast'.st = "sending" /\ cast'.sent = sent /\ cast'.dead = dead /\ cast'.left = cast.left
    BY <2>4
  <2> HIDE DEF sent
  <2>8. FeedTypeOK'
    <3>1. cast' \in [st : {"silent", "sending"}, sent : Seq(Connections), dead : SUBSET Connections,
                     left : Nat]
      BY <1>1, <2>3, <2>4, <2>5 DEF sent
    <3>2. cast'.st = "sending" /\ cast'.sent # <<>> /\ cast'.dead \subseteq ToSet(cast'.sent)
      BY <2>5, <2>6, <2>7
    <3> QED
      BY <2>1, <3>1, <3>2 DEF FeedInv, FeedTypeOK, Open
  <2>9. NobodyTwice'
    <3>1. \A i \in 1..Len(cast.sent) : sent[i] # sent[next]
      BY <1>1, <2>2, <2>5 DEF ToSet
    <3>2. \A i, j \in 1..Len(cast.sent) : sent[i] = sent[j] => i = j
      BY <1>1, <2>5 DEF FeedInv, NobodyTwice
    <3>3. \A i \in 1..next : i = next \/ i \in 1..Len(cast.sent)
      BY <1>1
    <3> QED
      BY <2>5, <2>7, <3>1, <3>2, <3>3 DEF NobodyTwice
  <2>10. NotYetSent'
    <3> SUFFICES ASSUME NEW i \in DOMAIN active, i > next PROVE active[i] \notin ToSet(sent)
      BY <2>1, <2>5, <2>7 DEF NotYetSent
    <3>1. active[i] # active[next]
      BY <1>1, <2>2 DEF FeedInv, ListedOnce
    <3>2. active[i] \notin ToSet(cast.sent)
      BY <1>1 DEF FeedInv, NotYetSent
    <3> QED
      BY <2>6, <3>1, <3>2
  <2>11. Accepted'
    BY <2>1, <2>2, <2>6, <2>7 DEF FeedInv, Accepted, Open
  <2>12. DepartedInv'
    <3>1. ToSet(sent) \ ToSet(active) = ToSet(cast.sent) \ ToSet(active)
      BY <2>2, <2>6
    <3> QED
      BY <2>1, <2>7, <3>1 DEF FeedInv, DepartedInv
  <2>13. ListedOnce'
    BY <2>1 DEF FeedInv, ListedOnce
  <2> QED
    BY <2>8, <2>9, <2>10, <2>11, <2>12, <2>13 DEF FeedInv
<1>3. CASE ~(next <= Len(active))
  <2>1. cast' = Silent /\ Leave(dead)
    BY <1>3 DEF GoOnBroadcast
  <2>2. /\ active' \in Seq(Connections) /\ ListedOnce'
        /\ ToSet(active') = ToSet(active) \ dead
    BY <1>1, <2>1, LeaveIs DEF FeedInv
  <2>3. /\ cast'.sent = <<>> /\ cast'.dead = {} /\ cast'.left = 0
        /\ Silent \in [st : {"silent", "sending"}, sent : Seq(Connections), dead : SUBSET Connections,
                       left : Nat]
        /\ ToSet(<<>>) = {} /\ DOMAIN <<>> = {}
    BY <2>1 DEF Silent, ToSet
  <2>4. FeedTypeOK'
    BY <2>1, <2>2, <2>3 DEF FeedInv, FeedTypeOK, Open
  <2>5. NobodyTwice' /\ NotYetSent'
    BY <2>3 DEF NobodyTwice, NotYetSent
  <2>6. Accepted'
    BY <2>2, <2>3 DEF FeedInv, Accepted
  <2>7. DepartedInv'
    <3>1. ToSet(cast'.sent) \ ToSet(active') = {}
      BY <2>3
    <3>2. cast'.left = 0
      BY <2>3
    <3>3. Cardinality({}) = 0
      BY FS_EmptySet
    <3> QED
      BY <3>1, <3>2, <3>3 DEF DepartedInv
  <2> QED
    BY <2>2, <2>4, <2>5, <2>6, <2>7 DEF FeedInv
<1> QED
  BY <1>2, <1>3

\* A send returns or raises, and the broadcast goes on with the connections taken for dead.
LEMMA SendGoesOn ==
  ASSUME FeedInv, SendReturns \/ SendFails
  PROVE  /\ cast.st = "sending" /\ UNCHANGED client
         /\ \E dead \in SUBSET ToSet(cast.sent) : GoOnBroadcast(dead) /\ \A c \in dead : ~Open(c)
<1>1. cast.st = "sending" /\ UNCHANGED client
  BY DEF SendReturns, SendFails
<1>2. /\ cast.sent # <<>> /\ cast.dead \subseteq ToSet(cast.sent)
      /\ \A c \in cast.dead : ~Open(c)
  BY <1>1 DEF FeedInv, FeedTypeOK, Accepted, Silent
<1>3. Last(cast.sent) \in ToSet(cast.sent)
  BY <1>2, FeedTypes DEF FeedInv, ToSet, Last
<1> QED
  BY <1>1, <1>2, <1>3 DEF SendReturns, SendFails

LEMMA SendStep ==
  ASSUME FeedInv, SendReturns \/ SendFails
  PROVE  FeedInv'
<1>1. PICK dead \in SUBSET ToSet(cast.sent) : GoOnBroadcast(dead) /\ \A c \in dead : ~Open(c)
  BY SendGoesOn
<1> QED
  BY <1>1, SendGoesOn, GoOnStep

\* What the rest of the loop does to the live feed.
LEMMA LoopFeeds ==
  ASSUME [LoopNext]_loopVars
  PROVE  ClientStep \/ StartBroadcast \/ SendReturns \/ SendFails \/ UNCHANGED feedVars
BY DEF LoopNext, LoopStep, TakeReading, BroadcastStep, ReadingArrives, loopVars, feedVars

LEMMA FeedInvNext == FeedInv /\ [LoopNext]_loopVars => FeedInv'
<1> SUFFICES ASSUME FeedInv, [LoopNext]_loopVars PROVE FeedInv'
  OBVIOUS
<1>1. CASE ClientStep
  BY <1>1, JoinStep, ReadingStep, DisconnectStep DEF ClientStep
<1>2. CASE StartBroadcast
  BY <1>2, StartStep
<1>3. CASE SendReturns \/ SendFails
  BY <1>3, SendStep
<1>4. CASE UNCHANGED feedVars
  BY <1>4 DEF feedVars, FeedInv, FeedTypeOK, ListedOnce, NobodyTwice, NotYetSent, Accepted,
     DepartedInv, Open
<1> QED
  BY <1>1, <1>2, <1>3, <1>4, LoopFeeds
--------------------------------------------------------------------------------
(* The theorems *)

\* The inductive invariant of the live feed in the backend's loop: who is behind the place
\* of the broadcast was not sent to, and who was sent to and is not in the list departed.
THEOREM FeedInvariance == LoopSpec => []FeedInv
<1>1. LoopInit => FeedInv
  BY FeedInitInv DEF LoopInit
<1> QED
  BY <1>1, FeedInvNext, PTL DEF LoopSpec

\* The list and the broadcast keep their types, every open dashboard is in the list, and
\* the loop takes nobody for dead that it has not sent to.
THEOREM FeedTypesKept == LoopSpec => []FeedTypeOK
<1>1. FeedInv => FeedTypeOK
  BY DEF FeedInv
<1> QED
  BY <1>1, FeedInvariance, PTL

\* No dashboard gets one broadcast twice, although the list moves under the loop's index.
THEOREM SentOnce == LoopSpec => []NobodyTwice
<1>1. FeedInv => NobodyTwice
  BY DEF FeedInv
<1> QED
  BY <1>1, FeedInvariance, PTL

\* A set that is not larger than another has not more elements of its own.
LEMMA OwnElements ==
  ASSUME NEW A, NEW B, IsFiniteSet(A), IsFiniteSet(B), Cardinality(A) <= Cardinality(B)
  PROVE  Cardinality(A \ B) <= Cardinality(B \ A)
<1>1. Cardinality(A \ B) = Cardinality(A) - Cardinality(A \cap B)
  BY FS_Difference
<1>2. Cardinality(B \ A) = Cardinality(B) - Cardinality(B \cap A)
  BY FS_Difference
<1>3. A \cap B = B \cap A /\ IsFiniteSet(A \cap B)
  BY FS_Intersection
<1>4. Cardinality(A) \in Nat /\ Cardinality(B) \in Nat /\ Cardinality(A \cap B) \in Nat
  BY <1>3, FS_CardinalityType
<1>5. Cardinality(A \cap B) = Cardinality(B \cap A)
  BY <1>3
<1> QED
  BY <1>1, <1>2, <1>4, <1>5

LEMMA MissedStep ==
  ASSUME FeedInv, [LoopNext]_loopVars, cast.st = "sending", cast' = Silent
  PROVE  Cardinality(ToSet(active) \ ToSet(cast.sent)) <= cast.left
<1>1. SendReturns \/ SendFails
  <2>1. ~StartBroadcast
    BY DEF StartBroadcast, Silent
  <2>2. ~(UNCHANGED cast)
    BY DEF Silent
  <2>3. ~ClientStep
    <3>1. ASSUME NEW c \in Connections, Disconnect(c) PROVE cast'.st = cast.st
      BY <3>1, FeedTypes DEF Disconnect, FeedInv, Broadcasts
    <3>2. cast'.st # cast.st
      BY DEF Silent
    <3> QED
      BY <2>2, <3>1, <3>2 DEF ClientStep, Join, StopReading, ReadAgain, Close
  <2> QED
    BY <2>1, <2>2, <2>3, LoopFeeds DEF feedVars
<1>2. PICK dead : GoOnBroadcast(dead)
  BY <1>1, SendGoesOn
<1>3. ~(Len(cast.sent) + 1 <= Len(active))
  BY <1>2 DEF GoOnBroadcast, Silent
<1>4. Len(active) \in Nat /\ Len(cast.sent) \in Nat
  BY FeedTypes DEF FeedInv
<1>5. Cardinality(ToSet(active)) = Len(active) /\ Cardinality(ToSet(cast.sent)) = Len(cast.sent)
  BY FeedTypes, OnceCardinality DEF FeedInv, ListedOnce, NobodyTwice, Once
<1>6. IsFiniteSet(ToSet(active)) /\ IsFiniteSet(ToSet(cast.sent))
  BY FeedTypes, FiniteConnections DEF FeedInv
<1>7. Cardinality(ToSet(active) \ ToSet(cast.sent)) <= Cardinality(ToSet(cast.sent) \ ToSet(active))
  <2>1. Cardinality(ToSet(active)) <= Cardinality(ToSet(cast.sent))
    BY <1>3, <1>4, <1>5
  <2> QED
    BY <1>6, <2>1, OwnElements
<1>8. /\ Cardinality(ToSet(active) \ ToSet(cast.sent)) \in Nat
      /\ Cardinality(ToSet(cast.sent) \ ToSet(active)) \in Nat /\ cast.left \in Nat
  BY <1>6, FeedTypes, FS_Difference, FS_CardinalityType DEF FeedInv
<1> QED
  BY <1>7, <1>8 DEF FeedInv, DepartedInv

\* A dashboard in the list when a broadcast ends was sent the message, but for one for each
\* departure from a place that the broadcast had passed.
THEOREM MissedByDepartures == LoopSpec => MissedOnlyByDepartures
<1>1. FeedInv /\ [LoopNext]_loopVars =>
        [cast.st = "sending" /\ cast' = Silent =>
           Cardinality(ToSet(active) \ ToSet(cast.sent)) <= cast.left]_feedVars
  BY MissedStep
<1> QED
  BY <1>1, FeedInvariance, PTL DEF LoopSpec, MissedOnlyByDepartures
================================================================================
