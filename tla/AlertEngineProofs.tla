--------------------------- MODULE AlertEngineProofs ---------------------------
(***************************************************************************)
(* Proofs about the threshold alerts, for any rules, readings, requests,   *)
(* edits and failures: a saved rule takes effect on the next reading, an   *)
(* event keeps its rule, every breach is notified once, and the marks of   *)
(* an event are final.                                                     *)
(***************************************************************************)
EXTENDS AlertEngine, FiniteSetTheorems, SequenceTheorems, TLAPS

Todo == IF engine.st = "idle" THEN {} ELSE engine.todo

\* A rule has at most one active event, though nothing in the table says so: only the one
\* evaluator inserts events, and it looks for an active one first.
OneActive ==
  \A i, j \in DOMAIN events :
    /\ events[i].rule = events[j].rule
    /\ events[i].status = "active" /\ events[j].status = "active"
    => i = j

\* The pass evaluates the last reading, and what it found of the rule in its hands is
\* still so: no request inserts, resolves or reopens an event.
PassInv ==
  /\ engine.st # "idle" =>
       /\ evaluated # <<>> /\ engine.value = evaluated[Len(evaluated)].value
       /\ engine.todo \subseteq DOMAIN engine.loaded
  /\ engine.st \in {"insert", "resolve", "notify"} => engine.rule \in engine.todo
  /\ engine.st = "insert" => Active(engine.rule) = {}
  /\ engine.st = "resolve" => Active(engine.rule) # {}
  /\ engine.st = "notify" => events # <<>> /\ Active(engine.rule) # {}

\* The event to be notified is the last one, and nothing was made of it yet.
ToNotify == engine.st = "notify" => notified[Len(events)] = 0 /\ Len(events) \notin silent

\* Reading i is the last one that rule r, as it is saved now, has to do with.
LastFor(r, i) ==
  /\ i \in DOMAIN evaluated /\ i > since[r]
  /\ rules[r].enabled /\ evaluated[i].tag = rules[r].tag
  /\ \A j \in DOMAIN evaluated : j > i => evaluated[j].tag # rules[r].tag

\* Rule r agrees with the readings.
Follows(r) ==
  \A i \in DOMAIN evaluated :
    LastFor(r, i) => (Active(r) # {} <=> Breached(rules[r], evaluated[i].value))

\* The pass has yet to be done with rule r: either it was saved since the pass began, or
\* it is as it was loaded, and the pass is about to do what the last reading asks for.
Awaits(r) ==
  \/ since[r] = Len(evaluated)
  \/ /\ engine.loaded[r] = rules[r] /\ evaluated[Len(evaluated)].tag = rules[r].tag
     /\ engine.st \in {"insert", "notify"} /\ engine.rule = r => Breached(rules[r], engine.value)
     /\ engine.st = "resolve" /\ engine.rule = r => ~Breached(rules[r], engine.value)
     /\ engine.st = "insert" /\ engine.rule = r => engine.form = rules[r]

RulesInv == \A r \in Live : IF r \in Todo THEN Awaits(r) ELSE Follows(r)

\* The inductive invariant: with one event per rule and the agreement of the rules that
\* are done, what each step of a pass and of a request needs to keep the others true.
AlertInv ==
  /\ AlertTypeOK
  /\ OneActive
  /\ PassInv
  /\ RulesInv
  /\ EventsKeepTheirRule
  /\ NotifiedOnce /\ ToNotify
--------------------------------------------------------------------------------
(* Types *)

LEMMA LoadsAre ==
  \A todo \in SUBSET RuleIds : \A f \in [todo -> Forms] : f \in Loads
BY DEF Loads

LEMMA FormColumns ==
  \A f \in Forms : /\ f = [tag |-> f.tag, condition |-> f.condition, threshold |-> f.threshold,
                             enabled |-> f.enabled]
                    /\ DOMAIN f = {"tag", "condition", "threshold", "enabled"}
                    /\ f # Unborn /\ f # Deleted
BY AlertAssumption DEF Forms

\* Columns of forms make a form.
LEMMA MergedForm ==
  ASSUME NEW now \in Forms, NEW from \in Forms, NEW to \in Forms
  PROVE  Merged(now, from, to) \in Forms
<1>1. DOMAIN now = {"tag", "condition", "threshold", "enabled"}
  BY FormColumns
<1>2. Merged(now, from, to) =
        [tag |-> IF to.tag = from.tag THEN now.tag ELSE to.tag,
         condition |-> IF to.condition = from.condition THEN now.condition ELSE to.condition,
         threshold |-> IF to.threshold = from.threshold THEN now.threshold ELSE to.threshold,
         enabled |-> IF to.enabled = from.enabled THEN now.enabled ELSE to.enabled]
  BY <1>1 DEF Merged
<1> QED
  BY <1>2 DEF Forms

LEMMA InitType == AlertInit => AlertTypeOK
<1> SUFFICES ASSUME AlertInit PROVE AlertTypeOK
  OBVIOUS
<1>1. events = <<>> /\ evaluated = <<>> /\ notified = <<>> /\ silent = {}
  BY DEF AlertInit
<1>2. request \in [Clients -> Requests] /\ \A c \in Clients : request[c].kind # "acknowledge"
  BY DEF AlertInit, Requests, NoRequest
<1>3. since \in [RuleIds -> 0..Len(evaluated)] /\ edits \in 0..MaxEdits /\ faults \in 0..MaxFaults
  BY AlertAssumption DEF AlertInit
<1>4. rules \in [RuleIds -> Forms \cup {Unborn, Deleted}] /\ engine = Resting
  BY DEF AlertInit
<1> QED
  BY <1>1, <1>2, <1>3, <1>4, AlertAssumption DEF AlertTypeOK

\* The pass after a rule is done.
LEMMA RestType ==
  ASSUME AlertTypeOK, engine.st # "idle", NEW r
  PROVE  /\ Rest(r) \in {Resting} \cup BetweenRules
         /\ RestAfterCommit(r) \in {Resting} \cup BetweenRules
<1>1. engine \in BetweenRules \cup AtRule
  BY DEF AlertTypeOK, Resting
<1>2. Rest(r) \in {Resting} \cup BetweenRules
  BY <1>1 DEF Rest, BetweenRules, AtRule
<1>3. ASSUME Rest(r) # Resting
      PROVE  [Rest(r) EXCEPT !.expired = TRUE] \in BetweenRules
  BY <1>2, <1>3 DEF BetweenRules
<1> QED
  BY <1>2, <1>3 DEF RestAfterCommit
\* A pass that is at a rule.
LEMMA AtType ==
  ASSUME AlertTypeOK, engine.st = "next", NEW r \in engine.todo, NEW f \in Forms,
         NEW st \in {"insert", "resolve", "notify"}
  PROVE  At(st, r, f) \in AtRule
<1>1. engine \in BetweenRules
  BY DEF AlertTypeOK, Resting, AtRule
<1> QED
  BY <1>1 DEF At, AtRule, BetweenRules

LEMMA EventType ==
  ASSUME AlertTypeOK, engine.st \in {"insert", "resolve", "notify"}
  PROVE  /\ engine \in AtRule
         /\ EventOf(engine.rule, engine.form, engine.value, engine.ts) \in EventRows
<1>1. engine \in AtRule
  BY DEF AlertTypeOK, Resting, BetweenRules
<1> QED
  BY <1>1, AlertAssumption DEF AtRule, EventOf, EventRows

\* What the table gets from an insertion.
LEMMA InsertType ==
  ASSUME AlertTypeOK, engine.st = "insert", Len(events) < MaxEvents,
         events' = Append(events, EventOf(engine.rule, engine.form, engine.value, engine.ts)),
         notified' = Append(notified, 0)
  PROVE  /\ events' \in Seq(EventRows) /\ Len(events') = Len(events) + 1
         /\ Len(events') <= MaxEvents /\ DOMAIN events' = 1..Len(events) + 1
         /\ \A i \in DOMAIN events : events'[i] = events[i]
         /\ events'[Len(events) + 1] = EventOf(engine.rule, engine.form, engine.value, engine.ts)
         /\ \A i \in DOMAIN events' : events'[i].status = "resolved" <=> events'[i].resolved_at # 0
         /\ notified' \in Seq(Nat) /\ Len(notified') = Len(events')
         /\ DOMAIN notified' = DOMAIN events'
         /\ \A i \in DOMAIN events : notified'[i] = notified[i]
         /\ notified'[Len(events) + 1] = 0
<1> DEFINE e == EventOf(engine.rule, engine.form, engine.value, engine.ts)
<1>1. e \in EventRows
  BY EventType
<1>2. events \in Seq(EventRows) /\ notified \in Seq(Nat) /\ Len(notified) = Len(events)
  BY DEF AlertTypeOK
<1> HIDE DEF e
<1>3. events' = Append(events, e)
  BY DEF e
<1>4. /\ events' \in Seq(EventRows) /\ Len(events') = Len(events) + 1
      /\ DOMAIN events' = 1..Len(events) + 1
      /\ \A i \in DOMAIN events : events'[i] = events[i]
      /\ events'[Len(events) + 1] = e
  BY <1>1, <1>2, <1>3
<1>5. /\ notified' \in Seq(Nat) /\ Len(notified') = Len(events) + 1
      /\ DOMAIN notified' = 1..Len(events) + 1
      /\ \A i \in DOMAIN events : notified'[i] = notified[i]
      /\ notified'[Len(events) + 1] = 0
  BY <1>2
<1>6. e.status = "active" /\ e.resolved_at = 0
  BY DEF e, EventOf
<1>7. \A i \in DOMAIN events : events[i].status = "resolved" <=> events[i].resolved_at # 0
  BY DEF AlertTypeOK
<1>8. \A i \in DOMAIN events' : i \in DOMAIN events \/ i = Len(events) + 1
  BY <1>2, <1>4
<1>9. \A i \in DOMAIN events' : events'[i].status = "resolved" <=> events'[i].resolved_at # 0
  BY <1>4, <1>6, <1>7, <1>8
<1>10. MaxEvents \in Nat
  BY AlertAssumption
<1> QED
  BY <1>2, <1>4, <1>5, <1>9, <1>10 DEF e
\* What a resolution makes of an event.
LEMMA ResolveType ==
  ASSUME AlertTypeOK, engine.st = "resolve", NEW i \in DOMAIN events,
         events' = [events EXCEPT ![i].status = "resolved", ![i].resolved_at = engine.ts]
  PROVE  /\ events' \in Seq(EventRows) /\ Len(events') = Len(events)
         /\ DOMAIN events' = DOMAIN events
         /\ \A j \in DOMAIN events : j # i => events'[j] = events[j]
         /\ events'[i].status = "resolved" /\ events'[i].resolved_at = engine.ts
         /\ engine.ts # 0 /\ events'[i].rule = events[i].rule
         /\ events'[i].acknowledged = events[i].acknowledged
<1>1. events \in Seq(EventRows) /\ events[i] \in EventRows /\ i \in DOMAIN events
  BY DEF AlertTypeOK
<1>2. engine.ts \in 1..MaxReadings /\ engine.ts # 0 /\ engine.ts \in 0..MaxReadings
  BY EventType, AlertAssumption DEF AtRule
<1> DEFINE row == [events[i] EXCEPT !.status = "resolved", !.resolved_at = engine.ts]
<1>3. /\ row \in EventRows /\ row.status = "resolved" /\ row.resolved_at = engine.ts
      /\ row.rule = events[i].rule /\ row.acknowledged = events[i].acknowledged
  BY <1>1, <1>2 DEF EventRows
<1>4. events' = [events EXCEPT ![i] = row]
  BY <1>1
<1> HIDE DEF row
<1>5. /\ DOMAIN events' = DOMAIN events
      /\ \A j \in DOMAIN events : j # i => events'[j] = events[j]
      /\ events'[i] = row
  BY <1>1, <1>4
<1>6. events' \in Seq(EventRows) /\ Len(events') = Len(events)
  <2>1. i \in 1..Len(events)
    BY <1>1
  <2>2. /\ [events EXCEPT ![i] = row] \in Seq(EventRows)
        /\ Len([events EXCEPT ![i] = row]) = Len(events)
    BY <1>1, <1>3, <2>1, ExceptSeq, Zenon
  <2> QED
    BY <1>4, <2>2, Zenon
<1> QED
  BY <1>2, <1>3, <1>5, <1>6

\* What an acknowledgement makes of an event.
LEMMA AcknowledgeType ==
  ASSUME AlertTypeOK, NEW c \in Clients, CommitAcknowledge(c)
  PROVE  /\ events' \in Seq(EventRows) /\ Len(events') = Len(events)
         /\ DOMAIN events' = DOMAIN events
         /\ \A j \in DOMAIN events :
              /\ events'[j].rule = events[j].rule /\ events'[j].status = events[j].status
              /\ events'[j].resolved_at = events[j].resolved_at
              /\ events[j].acknowledged => events'[j].acknowledged
<1> DEFINE i == request[c].event
<1>1. events \in Seq(EventRows) /\ i \in DOMAIN events
  BY DEF AlertTypeOK, CommitAcknowledge
<1>2. events[i] \in EventRows
  BY <1>1
<1> DEFINE row == [events[i] EXCEPT !.acknowledged = TRUE]
<1>3. /\ row \in EventRows /\ row.status = events[i].status /\ row.rule = events[i].rule
      /\ row.resolved_at = events[i].resolved_at /\ row.acknowledged
  BY <1>2 DEF EventRows
<1>4. events' = [events EXCEPT ![i] = row]
  BY <1>1 DEF CommitAcknowledge
<1> HIDE DEF row, i
<1>5. /\ events' \in Seq(EventRows) /\ Len(events') = Len(events)
      /\ DOMAIN events' = DOMAIN events
      /\ \A j \in DOMAIN events : j # i => events'[j] = events[j]
      /\ events'[i] = row
  BY <1>1, <1>3, <1>4
<1> QED
  BY <1>3, <1>5

LEMMA TypeStep == AlertTypeOK /\ PassInv /\ [AlertNext]_alertVars => AlertTypeOK'
<1> SUFFICES ASSUME AlertTypeOK, PassInv, [AlertNext]_alertVars PROVE AlertTypeOK'
  OBVIOUS
<1> USE DEF tables, histories
<1>1. ASSUME NEW tag \in Tags, NEW v \in Values, NEW ts \in 1..MaxReadings, StartPass(tag, v, ts)
      PROVE  AlertTypeOK'
  <2> DEFINE todo == {r \in Live : rules[r].tag = tag /\ rules[r].enabled}
  <2>1. todo \in SUBSET RuleIds /\ [r \in todo |-> rules[r]] \in Loads
    <3>1. \A r \in todo : r \in RuleIds /\ rules[r] \in Forms
      BY DEF Live
    <3>2. todo \in SUBSET RuleIds
      BY <3>1
    <3>3. [r \in todo |-> rules[r]] \in [todo -> Forms]
      BY <3>1
    <3> HIDE DEF todo
    <3> QED
      BY <3>2, <3>3, LoadsAre
  <2>2. engine' \in {Resting} \cup BetweenRules
    BY <1>1, <2>1 DEF StartPass, BetweenRules
  <2>3. /\ evaluated' \in Seq([tag : Tags, value : Values, ts : 1..MaxReadings])
        /\ Len(evaluated') = Len(evaluated) + 1
    BY <1>1 DEF StartPass, AlertTypeOK
  <2>4. since' \in [RuleIds -> 0..Len(evaluated')]
    BY <1>1, <2>3 DEF StartPass, AlertTypeOK
  <2> QED
    BY <1>1, <2>2, <2>3, <2>4 DEF StartPass, AlertTypeOK
<1>2. ASSUME NEW r \in RuleIds, Judge(r) PROVE AlertTypeOK'
  <2>1. r \in engine.todo /\ engine.st = "next" /\ Seen(r) \in Forms
    BY <1>2 DEF Judge
  <2>2. engine' \in {Resting} \cup BetweenRules \cup AtRule
    BY <1>2, <2>1, AtType, RestType DEF Judge
  <2> QED
    BY <1>2, <2>2 DEF Judge, AlertTypeOK
<1>a. ASSUME Abort PROVE since' \in [RuleIds -> 0..Len(evaluated)] /\ engine' = Resting
  BY <1>a DEF Abort, AlertTypeOK
<1>3. ASSUME NEW r \in RuleIds, JudgeDeleted(r) PROVE AlertTypeOK'
  BY <1>3, <1>a DEF JudgeDeleted, AlertTypeOK
<1>4. ASSUME InsertEvent PROVE AlertTypeOK'
  <2>1. CASE engine.rule \in Live
    <3>1. engine \in AtRule
      BY <1>4, EventType DEF InsertEvent
    <3>2. engine' \in AtRule
      BY <1>4, <2>1, <3>1 DEF InsertEvent, AtRule
    <3>3. /\ events' \in Seq(EventRows) /\ Len(events') <= MaxEvents
          /\ \A i \in DOMAIN events' : events'[i].status = "resolved" <=> events'[i].resolved_at # 0
          /\ notified' \in Seq(Nat) /\ Len(notified') = Len(events')
          /\ DOMAIN events \subseteq DOMAIN events'
      <4>1. /\ engine.st = "insert" /\ Len(events) < MaxEvents
            /\ events' = Append(events, EventOf(engine.rule, engine.form, engine.value, engine.ts))
            /\ notified' = Append(notified, 0)
        BY <1>4, <2>1 DEF InsertEvent
      <4>2. DOMAIN events' = 1..Len(events) + 1 /\ DOMAIN events = 1..Len(events) /\ Len(events) \in Nat
        BY <4>1, InsertType DEF AlertTypeOK
      <4>3. DOMAIN events \subseteq DOMAIN events'
        BY <4>2
      <4> QED
        BY <4>1, <4>3, InsertType
    <3> QED
      BY <1>4, <2>1, <3>2, <3>3 DEF InsertEvent, AlertTypeOK
  <2>2. CASE engine.rule \notin Live
    BY <1>4, <2>2, <1>a DEF InsertEvent, AlertTypeOK
  <2> QED
    BY <2>1, <2>2
<1>b. engine.st \in {"insert", "resolve", "notify"} =>
        RestAfterCommit(engine.rule) \in {Resting} \cup BetweenRules
  BY RestType
<1>5. ASSUME Notify PROVE AlertTypeOK'
  <2>1. engine' \in {Resting} \cup BetweenRules
    BY <1>5, <1>b DEF Notify
  <2>2. notified' \in Seq(Nat) /\ Len(notified') = Len(notified)
    <3>1. notified \in Seq(Nat) /\ Len(events) \in DOMAIN notified
      BY <1>5 DEF Notify, AlertTypeOK, PassInv
    <3>2. notified[Len(events)] + 1 \in Nat
      BY <3>1
    <3> QED
      BY <1>5, <3>1, <3>2 DEF Notify
  <2> QED
    BY <1>5, <2>1, <2>2 DEF Notify, AlertTypeOK
<1>6. ASSUME ResolveEvent PROVE AlertTypeOK'
  <2>1. engine' \in {Resting} \cup BetweenRules
    BY <1>6, <1>b DEF ResolveEvent
  <2>2. PICK i \in DOMAIN events :
          events' = [events EXCEPT ![i].status = "resolved", ![i].resolved_at = engine.ts]
    BY <1>6 DEF ResolveEvent, ActiveEvent, Active
  <2>3. /\ events' \in Seq(EventRows) /\ Len(events') = Len(events) /\ DOMAIN events' = DOMAIN events
        /\ \A j \in DOMAIN events : j # i => events'[j] = events[j]
        /\ events'[i].status = "resolved" /\ events'[i].resolved_at # 0
    BY <1>6, <2>2, ResolveType DEF ResolveEvent
  <2>4. \A j \in DOMAIN events' : events'[j].status = "resolved" <=> events'[j].resolved_at # 0
    <3>1. \A j \in DOMAIN events : events[j].status = "resolved" <=> events[j].resolved_at # 0
      BY DEF AlertTypeOK
    <3> QED
      BY <2>3, <3>1
  <2> QED
    BY <1>6, <2>1, <2>3, <2>4 DEF ResolveEvent, AlertTypeOK
<1>7. ASSUME PassFails PROVE AlertTypeOK'
  <2>1. faults' \in 0..MaxFaults /\ since' \in [RuleIds -> 0..Len(evaluated)] /\ engine' = Resting
    BY <1>7, <1>a, AlertAssumption DEF PassFails, AlertTypeOK
  <2>2. CASE UNCHANGED <<events, notified>>
               /\ silent' = IF engine.st = "notify" THEN silent \cup {Len(events)} ELSE silent
    <3>1. engine.st = "notify" => Len(events) \in DOMAIN events
      BY DEF PassInv, AlertTypeOK
    <3>2. silent' \subseteq DOMAIN events'
      BY <2>2, <3>1 DEF AlertTypeOK
    <3> QED
      BY <1>7, <2>1, <2>2, <3>2 DEF PassFails, AlertTypeOK
  <2>3. CASE /\ engine.st = "insert" /\ engine.rule \in Live /\ Len(events) < MaxEvents
             /\ events' = Append(events, EventOf(engine.rule, engine.form, engine.value, engine.ts))
             /\ notified' = Append(notified, 0)
             /\ silent' = silent \cup {Len(events) + 1}
    <3>1. /\ events' \in Seq(EventRows) /\ Len(events') <= MaxEvents
          /\ \A i \in DOMAIN events' : events'[i].status = "resolved" <=> events'[i].resolved_at # 0
          /\ notified' \in Seq(Nat) /\ Len(notified') = Len(events')
          /\ DOMAIN events \subseteq DOMAIN events' /\ Len(events) + 1 \in DOMAIN events'
      BY <2>3, InsertType DEF AlertTypeOK
    <3> QED
      BY <1>7, <2>1, <2>3, <3>1 DEF PassFails, AlertTypeOK
  <2> QED
    BY <1>7, <2>2, <2>3 DEF PassFails
<1>8. ASSUME NEW r \in RuleIds, NEW f \in Forms, CreateRule(r, f) PROVE AlertTypeOK'
  BY <1>8, AlertAssumption DEF CreateRule, AlertTypeOK
<1>9. ASSUME NEW c \in Clients, NEW r \in RuleIds, NEW f \in Forms, LoadUpdate(c, r, f)
      PROVE  AlertTypeOK'
  <2>1. [kind |-> "update", rule |-> r, from |-> rules[r], to |-> f] \in Requests
    BY <1>9 DEF LoadUpdate, Live, Requests
  <2> QED
    BY <1>9, <2>1, AlertAssumption DEF LoadUpdate, AlertTypeOK
<1>10. ASSUME NEW c \in Clients, NEW r \in RuleIds, LoadDelete(c, r) PROVE AlertTypeOK'
  <2>1. [kind |-> "delete", rule |-> r] \in Requests
    BY DEF Requests
  <2> QED
    BY <1>10, <2>1, AlertAssumption DEF LoadDelete, AlertTypeOK
<1>11. ASSUME NEW c \in Clients, NEW i \in DOMAIN events, LoadAcknowledge(c, i) PROVE AlertTypeOK'
  <2>1. i \in 1..MaxEvents /\ events[i] \in EventRows
    BY AlertAssumption DEF AlertTypeOK
  <2>2. [kind |-> "acknowledge", event |-> i, row |-> events[i]] \in Requests
    BY <2>1 DEF Requests
  <2> QED
    BY <1>11, <2>2 DEF LoadAcknowledge, AlertTypeOK
<1>12. ASSUME NEW c \in Clients, CommitUpdate(c) PROVE AlertTypeOK'
  <2>1. request[c].rule \in RuleIds /\ request[c].from \in Forms /\ request[c].to \in Forms
    BY <1>12 DEF CommitUpdate, AlertTypeOK, Requests, NoRequest
  <2>2. rules' \in [RuleIds -> Forms \cup {Unborn, Deleted}]
    BY <1>12, <2>1, MergedForm DEF CommitUpdate, AlertTypeOK, Live
  <2>3. since' \in [RuleIds -> 0..Len(evaluated)] /\ request' \in [Clients -> Requests]
    BY <1>12, <2>1 DEF CommitUpdate, AlertTypeOK, Requests
  <2> QED
    BY <1>12, <2>2, <2>3 DEF CommitUpdate, AlertTypeOK, NoRequest
<1>13. ASSUME NEW c \in Clients, CommitDelete(c) PROVE AlertTypeOK'
  <2>1. rules' \in [RuleIds -> Forms \cup {Unborn, Deleted}] /\ request' \in [Clients -> Requests]
    BY <1>13 DEF CommitDelete, AlertTypeOK, Requests
  <2> QED
    BY <1>13, <2>1 DEF CommitDelete, AlertTypeOK, NoRequest
<1>14. ASSUME NEW c \in Clients, CommitAcknowledge(c) PROVE AlertTypeOK'
  <2>1. /\ events' \in Seq(EventRows) /\ Len(events') = Len(events) /\ DOMAIN events' = DOMAIN events
        /\ \A j \in DOMAIN events' : events'[j].status = "resolved" <=> events'[j].resolved_at # 0
    BY <1>14, AcknowledgeType DEF AlertTypeOK
  <2>2. request' \in [Clients -> Requests]
    BY <1>14 DEF CommitAcknowledge, AlertTypeOK, Requests
  <2> QED
    BY <1>14, <2>1, <2>2 DEF CommitAcknowledge, AlertTypeOK, NoRequest
<1>15. CASE UNCHANGED alertVars
  BY <1>15 DEF alertVars, AlertTypeOK
<1> QED
  BY <1>1, <1>2, <1>3, <1>4, <1>5, <1>6, <1>7, <1>8, <1>9, <1>10, <1>11, <1>12, <1>13, <1>14,
     <1>15 DEF AlertNext
--------------------------------------------------------------------------------
(* The active events of a rule *)

\* Steps that leave the rule and the status of every event alone.
LEMMA ActiveKept ==
  ASSUME DOMAIN events' = DOMAIN events,
         \A j \in DOMAIN events :
           events'[j].rule = events[j].rule /\ events'[j].status = events[j].status
  PROVE  /\ \A r : Active(r)' = Active(r)
         /\ OneActive => OneActive'
BY DEF Active, OneActive

\* An insertion, for a rule that had no active event.
LEMMA ActiveInserted ==
  ASSUME AlertTypeOK, engine.st = "insert", Len(events) < MaxEvents,
         events' = Append(events, EventOf(engine.rule, engine.form, engine.value, engine.ts)),
         notified' = Append(notified, 0), OneActive, Active(engine.rule) = {}
  PROVE  /\ \A r : r # engine.rule => Active(r)' = Active(r)
         /\ \A r : r = engine.rule => Active(r)' # {}
         /\ OneActive'
<1> DEFINE n == Len(events) + 1
<1>1. /\ DOMAIN events' = 1..n /\ \A i \in DOMAIN events : events'[i] = events[i]
      /\ events'[n] = EventOf(engine.rule, engine.form, engine.value, engine.ts)
  BY InsertType
<1>2. n \in Nat \ {0} /\ DOMAIN events = 1..(n - 1)
  BY DEF AlertTypeOK
<1>3. events'[n].rule = engine.rule /\ events'[n].status = "active"
  BY <1>1 DEF EventOf
<1> HIDE DEF n
<1>4. \A i \in DOMAIN events' : i = n \/ i \in DOMAIN events
  BY <1>1, <1>2
<1>5. DOMAIN events \subseteq DOMAIN events' /\ n \in DOMAIN events' /\ n \notin DOMAIN events
  BY <1>1, <1>2
<1>6. \A r : r # engine.rule => Active(r)' = Active(r)
  BY <1>1, <1>3, <1>4, <1>5 DEF Active
<1>7. \A r : r = engine.rule => Active(r)' # {}
  BY <1>1, <1>3, <1>5 DEF Active
<1>8. OneActive'
  <2> SUFFICES ASSUME NEW i \in DOMAIN events', NEW j \in DOMAIN events',
                      events'[i].rule = events'[j].rule,
                      events'[i].status = "active", events'[j].status = "active"
               PROVE  i = j
    BY DEF OneActive
  <2>1. \A k \in DOMAIN events : events[k].rule = engine.rule => events[k].status # "active"
    BY DEF Active
  <2> QED
    BY <2>1, <1>1, <1>3, <1>4 DEF OneActive
<1> QED
  BY <1>6, <1>7, <1>8

\* A resolution.
LEMMA ActiveResolved ==
  ASSUME AlertTypeOK, engine.st = "resolve", OneActive, NEW i \in Active(engine.rule),
         events' = [events EXCEPT ![i].status = "resolved", ![i].resolved_at = engine.ts]
  PROVE  /\ \A r : r # engine.rule => Active(r)' = Active(r)
         /\ \A r : r = engine.rule => Active(r)' = {}
         /\ OneActive'
<1>1. i \in DOMAIN events /\ events[i].rule = engine.rule /\ events[i].status = "active"
  BY DEF Active
<1>2. /\ DOMAIN events' = DOMAIN events
      /\ \A j \in DOMAIN events : j # i => events'[j] = events[j]
      /\ events'[i].status = "resolved" /\ events'[i].rule = engine.rule
  BY <1>1, ResolveType
<1>3. \A j \in DOMAIN events : events[j].rule = engine.rule /\ events[j].status = "active" => j = i
  BY <1>1 DEF OneActive
<1> QED
  BY <1>1, <1>2, <1>3 DEF Active, OneActive

\* Where an insertion of the pass can happen, be it reported as done or as failed.
LEMMA Insertion ==
  ASSUME AlertTypeOK, PassInv, OneActive, InsertEvent \/ PassFails, events' # events
  PROVE  /\ engine.st = "insert" /\ engine.rule \in Live /\ Len(events) < MaxEvents
         /\ events' = Append(events, EventOf(engine.rule, engine.form, engine.value, engine.ts))
         /\ notified' = Append(notified, 0)
         /\ Active(engine.rule) = {}
BY DEF InsertEvent, PassFails, PassInv

\* Where the pass goes on or ends without one.
LEMMA NoInsertion ==
  ASSUME AlertTypeOK, InsertEvent \/ PassFails, events' = events
  PROVE  /\ engine' = Resting /\ UNCHANGED notified
         /\ InsertEvent => engine.st = "insert" /\ silent' = silent
         /\ PassFails => silent' = IF engine.st = "notify" THEN silent \cup {Len(events)} ELSE silent
<1>1. ~(/\ engine.st = "insert" /\ Len(events) < MaxEvents
        /\ events' = Append(events, EventOf(engine.rule, engine.form, engine.value, engine.ts)))
  <2>1. events \in Seq(EventRows)
    BY DEF AlertTypeOK
  <2>2. ASSUME engine.st = "insert"
        PROVE  Len(Append(events, EventOf(engine.rule, engine.form, engine.value, engine.ts)))
                 = Len(events) + 1
    BY <2>1, <2>2, EventType
  <2>3. Len(events) # Len(events) + 1
    BY <2>1
  <2> QED
    BY <2>2, <2>3
<1> QED
  BY <1>1 DEF InsertEvent, PassFails, Abort

LEMMA OneActiveStep ==
  AlertTypeOK /\ PassInv /\ OneActive /\ [AlertNext]_alertVars => OneActive'
<1> SUFFICES ASSUME AlertTypeOK, PassInv, OneActive, [AlertNext]_alertVars PROVE OneActive'
  OBVIOUS
<1>1. CASE events' = events
  BY <1>1, ActiveKept
<1>2. ASSUME InsertEvent \/ PassFails, events' # events PROVE OneActive'
  BY <1>2, Insertion, ActiveInserted
<1>3. ASSUME ResolveEvent PROVE OneActive'
  BY <1>3, ActiveResolved DEF ResolveEvent, ActiveEvent
<1>4. ASSUME NEW c \in Clients, CommitAcknowledge(c) PROVE OneActive'
  BY <1>4, AcknowledgeType, ActiveKept
<1>5. events' = events \/ InsertEvent \/ PassFails \/ ResolveEvent
        \/ \E c \in Clients : CommitAcknowledge(c)
  BY DEF AlertNext, alertVars, tables, histories, StartPass, Judge, JudgeDeleted, Notify,
         CreateRule, LoadUpdate, LoadDelete, LoadAcknowledge, CommitUpdate, CommitDelete
<1> QED
  BY <1>1, <1>2, <1>3, <1>4, <1>5
--------------------------------------------------------------------------------
(* The pass *)

\* The rest of a pass keeps its reading and its loaded rules.
LEMMA RestIs ==
  ASSUME engine.st # "idle", NEW r, NEW p \in {Rest(r), RestAfterCommit(r)}
  PROVE  \/ p = Resting /\ engine.todo = {r}
         \/ /\ p.st = "next" /\ p.todo = engine.todo \ {r}
            /\ p.loaded = engine.loaded /\ p.value = engine.value
<1> DEFINE rest == [st |-> "next", todo |-> engine.todo \ {r}, loaded |-> engine.loaded,
                    expired |-> engine.expired, value |-> engine.value, ts |-> engine.ts]
           after == [rest EXCEPT !.expired = TRUE]
<1>1. CASE engine.todo = {r}
  BY <1>1 DEF Rest, RestAfterCommit
<1>2. CASE engine.todo # {r}
  <2>1. Rest(r) = rest /\ rest # Resting
    BY <1>2 DEF Rest, Resting
  <2>2. RestAfterCommit(r) = after
    BY <2>1 DEF RestAfterCommit
  <2>3. \A q \in {rest, after} : /\ q.st = "next" /\ q.todo = engine.todo \ {r}
                                 /\ q.loaded = engine.loaded /\ q.value = engine.value
    OBVIOUS
  <2> QED
    BY <2>1, <2>2, <2>3
<1> QED
  BY <1>1, <1>2

\* Requests do not touch what the pass goes by.
LEMMA PassKept ==
  ASSUME PassInv, UNCHANGED <<engine, evaluated>>, events = <<>> <=> events' = <<>>,
         \A r : Active(r)' = Active(r)
  PROVE  PassInv'
<1>1. DEFINE r == engine.rule
<1>2. engine' = engine /\ evaluated' = evaluated
  OBVIOUS
<1> QED
  BY <1>2 DEF PassInv

LEMMA PassStep ==
  AlertTypeOK /\ PassInv /\ OneActive /\ [AlertNext]_alertVars => PassInv'
<1> SUFFICES ASSUME AlertTypeOK, PassInv, OneActive, [AlertNext]_alertVars PROVE PassInv'
  OBVIOUS
<1> USE DEF tables, histories
<1>r. ASSUME engine' = Resting PROVE PassInv'
  BY <1>r DEF PassInv, Resting
<1>n. ASSUME engine.st # "idle", evaluated' = evaluated,
             \E r : engine' \in {Rest(r), RestAfterCommit(r)}
      PROVE  PassInv'
  <2>1. PICK r : engine' \in {Rest(r), RestAfterCommit(r)}
    BY <1>n
  <2>2. CASE engine' = Resting
    BY <2>2, <1>r
  <2>3. CASE /\ engine'.st = "next" /\ engine'.todo = engine.todo \ {r}
             /\ engine'.loaded = engine.loaded /\ engine'.value = engine.value
    BY <1>n, <2>3 DEF PassInv
  <2> QED
    BY <1>n, <2>1, <2>2, <2>3, RestIs
<1>1. ASSUME NEW tag \in Tags, NEW v \in Values, NEW ts \in 1..MaxReadings, StartPass(tag, v, ts)
      PROVE  PassInv'
  <2>1. /\ evaluated' # <<>> /\ evaluated'[Len(evaluated')].value = v
    <3> DEFINE e == [tag |-> tag, value |-> v, ts |-> ts]
               E == [tag : Tags, value : Values, ts : 1..MaxReadings]
    <3>1. e \in E /\ e.value = v /\ evaluated \in Seq(E) /\ evaluated' = Append(evaluated, e)
      BY <1>1 DEF StartPass, AlertTypeOK
    <3> HIDE DEF e, E
    <3>2. Len(evaluated') = Len(evaluated) + 1 /\ evaluated'[Len(evaluated) + 1] = e
      BY <3>1
    <3> QED
      BY <3>1, <3>2
  <2>2. \/ engine' = Resting
        \/ engine'.st = "next" /\ engine'.value = v /\ engine'.todo = DOMAIN engine'.loaded
    BY <1>1 DEF StartPass
  <2> QED
    BY <2>1, <2>2, <1>r DEF PassInv
<1>2. ASSUME NEW r \in RuleIds, Judge(r) PROVE PassInv'
  <2>1. /\ engine.st = "next" /\ r \in engine.todo
        /\ UNCHANGED <<events, evaluated>> /\ engine \in BetweenRules
    BY <1>2 DEF Judge, AlertTypeOK, Resting, AtRule
  <2>2. CASE engine' = Rest(r)
    BY <2>1, <2>2, <1>n
  <2>3. ASSUME NEW st \in {"insert", "resolve"}, engine' = At(st, r, Seen(r)),
               st = "insert" => Active(r) = {}, st = "resolve" => Active(r) # {}
        PROVE  PassInv'
    <3>1. /\ engine'.st = st /\ engine'.rule = r /\ engine'.todo = engine.todo
          /\ engine'.loaded = engine.loaded /\ engine'.value = engine.value
      BY <2>3 DEF At
    <3>2. Active(r)' = Active(r)
      BY <2>1 DEF Active
    <3> QED
      BY <2>1, <2>3, <3>1, <3>2 DEF PassInv
  <2> QED
    BY <1>2, <2>2, <2>3 DEF Judge, ActiveEvent
<1>3. ASSUME NEW r \in RuleIds, JudgeDeleted(r) PROVE PassInv'
  BY <1>3, <1>r DEF JudgeDeleted, Abort
<1>4. ASSUME InsertEvent PROVE PassInv'
  <2>1. CASE engine.rule \in Live
    <3>1. /\ engine \in AtRule /\ engine.st = "insert" /\ evaluated' = evaluated
          /\ engine' = [engine EXCEPT !.st = "notify"]
      BY <1>4, <2>1, EventType DEF InsertEvent
    <3>2. /\ engine'.st = "notify" /\ engine'.rule = engine.rule /\ engine'.todo = engine.todo
          /\ engine'.loaded = engine.loaded /\ engine'.value = engine.value
      BY <3>1 DEF AtRule
    <3>3. events' # <<>> /\ \A r : r = engine.rule => Active(r)' # {}
      BY <1>4, <2>1, <3>1, InsertType, ActiveInserted DEF InsertEvent, PassInv
    <3>4. (Active(engine.rule) # {})'
      BY <3>2, <3>3 DEF Active
    <3> QED
      BY <3>1, <3>2, <3>3, <3>4 DEF PassInv
  <2>2. CASE engine.rule \notin Live
    BY <1>4, <2>2, <1>r DEF InsertEvent, Abort
  <2> QED
    BY <2>1, <2>2
<1>5. ASSUME Notify \/ ResolveEvent PROVE PassInv'
  BY <1>5, <1>n DEF Notify, ResolveEvent
<1>6. ASSUME PassFails PROVE PassInv'
  BY <1>6, <1>r DEF PassFails, Abort
<1>7. ASSUME UNCHANGED <<engine, evaluated, events>> PROVE PassInv'
  BY <1>7, PassKept, ActiveKept
<1>8. ASSUME NEW c \in Clients, CommitAcknowledge(c) PROVE PassInv'
  <2>1. events \in Seq(EventRows) /\ events' \in Seq(EventRows) /\ Len(events') = Len(events)
    BY <1>8, AcknowledgeType DEF AlertTypeOK
  <2>2. events = <<>> <=> events' = <<>>
    BY <2>1
  <2> QED
    BY <1>8, <2>2, AcknowledgeType, ActiveKept, PassKept DEF CommitAcknowledge
<1> QED
  BY <1>1, <1>2, <1>3, <1>4, <1>5, <1>6, <1>7, <1>8
     DEF AlertNext, alertVars, CreateRule, LoadUpdate, LoadDelete, LoadAcknowledge,
         CommitUpdate, CommitDelete
--------------------------------------------------------------------------------
(* Events keep their rule, and are notified once *)

\* Only a deletion takes a rule away, and it is refused while an event refers to it.
LEMMA RuleStep ==
  AlertTypeOK /\ PassInv /\ OneActive /\ EventsKeepTheirRule /\ [AlertNext]_alertVars
    => EventsKeepTheirRule'
<1> SUFFICES ASSUME AlertTypeOK, PassInv, OneActive, EventsKeepTheirRule, [AlertNext]_alertVars
             PROVE  EventsKeepTheirRule'
  OBVIOUS
<1> USE DEF tables, histories
<1>1. ASSUME Live \subseteq Live', DOMAIN events' = DOMAIN events,
             \A i \in DOMAIN events : events'[i].rule = events[i].rule
      PROVE  EventsKeepTheirRule'
  BY <1>1 DEF EventsKeepTheirRule
<1>2. ASSUME InsertEvent \/ PassFails, events' # events PROVE EventsKeepTheirRule'
  <2>1. /\ engine.rule \in Live /\ Live' = Live
        /\ DOMAIN events' = 1..Len(events) + 1
        /\ \A i \in DOMAIN events : events'[i] = events[i]
        /\ events'[Len(events) + 1].rule = engine.rule
    BY <1>2, Insertion, InsertType DEF InsertEvent, PassFails, Live, EventOf
  <2>2. \A i \in DOMAIN events' : i \in DOMAIN events \/ i = Len(events) + 1
    BY <2>1 DEF AlertTypeOK
  <2> QED
    BY <2>1, <2>2 DEF EventsKeepTheirRule
<1>3. ASSUME ResolveEvent PROVE EventsKeepTheirRule'
  <2>1. PICK i \in Active(engine.rule) :
          events' = [events EXCEPT ![i].status = "resolved", ![i].resolved_at = engine.ts]
    BY <1>3 DEF ResolveEvent, ActiveEvent
  <2>2. i \in DOMAIN events
    BY DEF Active
  <2>3. DOMAIN events' = DOMAIN events /\ \A j \in DOMAIN events : events'[j].rule = events[j].rule
    BY <1>3, <2>1, <2>2, ResolveType DEF ResolveEvent
  <2> QED
    BY <1>1, <1>3, <2>3 DEF ResolveEvent, Live
<1>4. ASSUME NEW c \in Clients, CommitAcknowledge(c) PROVE EventsKeepTheirRule'
  BY <1>1, <1>4, AcknowledgeType DEF CommitAcknowledge, Live
<1>5. ASSUME NEW r \in RuleIds, NEW f \in Forms, CreateRule(r, f) PROVE EventsKeepTheirRule'
  <2>1. Live \subseteq Live'
    BY <1>5, AlertAssumption DEF CreateRule, Live, AlertTypeOK
  <2> QED
    BY <1>1, <1>5, <2>1 DEF CreateRule
<1>6. ASSUME NEW c \in Clients, CommitUpdate(c) PROVE EventsKeepTheirRule'
  <2>1. request[c].rule \in RuleIds /\ request[c].from \in Forms /\ request[c].to \in Forms
    BY <1>6 DEF CommitUpdate, AlertTypeOK, Requests, NoRequest
  <2>2. Live \subseteq Live'
    BY <1>6, <2>1, MergedForm DEF CommitUpdate, Live, AlertTypeOK
  <2> QED
    BY <1>1, <1>6, <2>2 DEF CommitUpdate
<1>7. ASSUME NEW c \in Clients, CommitDelete(c) PROVE EventsKeepTheirRule'
  <2>1. \A r \in Live : r # request[c].rule => r \in Live'
    BY <1>7 DEF CommitDelete, Live, AlertTypeOK
  <2>2. AnyEvent(request[c].rule) # {} => Live' = Live
    BY <1>7 DEF CommitDelete, Live
  <2> QED
    BY <1>7, <2>1, <2>2 DEF CommitDelete, EventsKeepTheirRule, AnyEvent
<1>8. ASSUME UNCHANGED <<rules, events>> PROVE EventsKeepTheirRule'
  BY <1>8 DEF EventsKeepTheirRule, Live
<1> QED
  BY <1>2, <1>3, <1>4, <1>5, <1>6, <1>7, <1>8
     DEF AlertNext, alertVars, StartPass, Judge, JudgeDeleted, InsertEvent, Notify, PassFails,
         LoadUpdate, LoadDelete, LoadAcknowledge
LEMMA NotifiedStep ==
  AlertTypeOK /\ PassInv /\ OneActive /\ NotifiedOnce /\ ToNotify /\ [AlertNext]_alertVars
    => NotifiedOnce' /\ ToNotify'
<1> SUFFICES ASSUME AlertTypeOK, PassInv, OneActive, NotifiedOnce, ToNotify, [AlertNext]_alertVars
             PROVE  NotifiedOnce' /\ ToNotify'
  OBVIOUS
<1> USE DEF tables, histories
<1>t. /\ events \in Seq(EventRows) /\ notified \in Seq(Nat) /\ Len(notified) = Len(events)
      /\ DOMAIN notified = DOMAIN events /\ silent \subseteq DOMAIN events
      /\ Len(events) \in Nat /\ DOMAIN events = 1..Len(events)
  BY DEF AlertTypeOK
<1>c. engine.st # "idle" => RestAfterCommit(engine.rule).st # "notify"
  BY RestIs DEF Resting
<1>1. ASSUME UNCHANGED <<notified, silent>>, DOMAIN events' = DOMAIN events, Len(events') = Len(events),
             (engine.st # "notify" /\ engine'.st # "notify") \/ engine' = engine
      PROVE  NotifiedOnce' /\ ToNotify'
  BY <1>1 DEF NotifiedOnce, ToNotify
<1>2. ASSUME InsertEvent \/ PassFails, events' # events PROVE NotifiedOnce' /\ ToNotify'
  <2> DEFINE n == Len(events) + 1
  <2>1. /\ DOMAIN events' = 1..n /\ Len(events') = n /\ notified'[n] = 0
        /\ \A i \in DOMAIN events : notified'[i] = notified[i]
    BY <1>2, Insertion, InsertType
  <2>2. engine.st = "insert"
    BY <1>2, Insertion
  <2>3. \/ silent' = silent /\ engine'.st = "notify"
        \/ silent' = silent \cup {n} /\ engine'.st = "idle"
    <3>1. CASE InsertEvent
      <4>1. engine' = [engine EXCEPT !.st = "notify"] /\ silent' = silent
        BY <1>2, <3>1 DEF InsertEvent
      <4>2. engine \in AtRule
        BY <2>2, EventType
      <4> QED
        BY <4>1, <4>2 DEF AtRule
    <3>2. CASE PassFails
      BY <1>2, <2>2, <3>2 DEF PassFails, Abort, Resting
    <3> QED
      BY <1>2, <3>1, <3>2
  <2>4. n \notin silent /\ n \notin DOMAIN events
    BY <1>t
  <2>5. \A i \in DOMAIN events' : i = n \/ i \in DOMAIN events
    BY <1>t, <2>1
  <2> HIDE DEF n
  <2>6. \A i \in DOMAIN events : \/ notified[i] = 1 /\ i \notin silent
                                 \/ notified[i] = 0 /\ i \in silent
    BY <2>2 DEF NotifiedOnce, ToNotify
  <2> QED
    BY <2>1, <2>3, <2>4, <2>5, <2>6 DEF NotifiedOnce, ToNotify
<1>3. ASSUME InsertEvent, events' = events PROVE NotifiedOnce' /\ ToNotify'
  BY <1>1, <1>3, NoInsertion DEF Resting
<1>4. ASSUME PassFails, events' = events PROVE NotifiedOnce' /\ ToNotify'
  <2>1. /\ UNCHANGED notified /\ engine'.st = "idle"
        /\ silent' = IF engine.st = "notify" THEN silent \cup {Len(events)} ELSE silent
    BY <1>4, NoInsertion DEF Resting
  <2> QED
    BY <1>4, <1>t, <2>1 DEF NotifiedOnce, ToNotify
<1>5. ASSUME Notify PROVE NotifiedOnce' /\ ToNotify'
  <2> DEFINE n == Len(events)
  <2>1. n \in DOMAIN events /\ notified' = [notified EXCEPT ![n] = @ + 1]
        /\ UNCHANGED <<events, silent>> /\ engine.st = "notify" /\ engine'.st # "notify"
    BY <1>5, <1>t, <1>c DEF Notify, PassInv
  <2>2. notified[n] = 0 /\ n \notin silent
    BY <1>5, <1>t, <2>1 DEF NotifiedOnce, ToNotify
  <2>3. notified'[n] = 1 /\ \A i \in DOMAIN events : i # n => notified'[i] = notified[i]
    BY <1>t, <2>1, <2>2
  <2> HIDE DEF n
  <2> QED
    BY <2>1, <2>2, <2>3 DEF NotifiedOnce, ToNotify, n
<1>6. ASSUME ResolveEvent PROVE NotifiedOnce' /\ ToNotify'
  <2>1. PICK i \in DOMAIN events :
          events' = [events EXCEPT ![i].status = "resolved", ![i].resolved_at = engine.ts]
    BY <1>6 DEF ResolveEvent, ActiveEvent, Active
  <2>2. DOMAIN events' = DOMAIN events /\ Len(events') = Len(events)
    BY <1>6, <2>1, ResolveType DEF ResolveEvent
  <2> QED
    BY <1>1, <1>6, <1>c, <2>2 DEF ResolveEvent
<1>7. ASSUME NEW c \in Clients, CommitAcknowledge(c) PROVE NotifiedOnce' /\ ToNotify'
  BY <1>1, <1>7, AcknowledgeType DEF CommitAcknowledge
<1>8. ASSUME UNCHANGED <<events, notified, silent>>,
             (engine.st # "notify" /\ engine'.st # "notify") \/ engine' = engine
      PROVE  NotifiedOnce' /\ ToNotify'
  BY <1>1, <1>8
<1>9. \/ InsertEvent \/ PassFails \/ Notify \/ ResolveEvent
      \/ \E c \in Clients : CommitAcknowledge(c)
      \/ /\ UNCHANGED <<events, notified, silent>>
         /\ (engine.st # "notify" /\ engine'.st # "notify") \/ engine' = engine
  <2>1. ASSUME NEW tag, NEW v, NEW ts, StartPass(tag, v, ts)
        PROVE  UNCHANGED <<events, notified, silent>> /\ engine.st # "notify" /\ engine'.st # "notify"
    BY <2>1 DEF StartPass, Resting
  <2>2. ASSUME NEW r, Judge(r)
        PROVE  UNCHANGED <<events, notified, silent>> /\ engine.st # "notify" /\ engine'.st # "notify"
    <3>1. Rest(r).st # "notify"
      BY <2>2, RestIs DEF Judge, Resting
    <3> QED
      BY <2>2, <3>1 DEF Judge, At
  <2>3. ASSUME NEW r, JudgeDeleted(r)
        PROVE  UNCHANGED <<events, notified, silent>> /\ engine.st # "notify" /\ engine'.st # "notify"
    BY <2>3 DEF JudgeDeleted, Abort, Resting
  <2> QED
    BY <2>1, <2>2, <2>3 DEF AlertNext, alertVars, CreateRule, LoadUpdate, LoadDelete,
       LoadAcknowledge, CommitUpdate, CommitDelete
<1> QED
  BY <1>2, <1>3, <1>4, <1>5, <1>6, <1>7, <1>8, <1>9
--------------------------------------------------------------------------------
(* Rules follow the readings *)

\* A rule that was just saved, or whose pass ended before it, has nothing to follow.
LEMMA NothingToFollow ==
  ASSUME NEW r, since'[r] = Len(evaluated'), evaluated' \in Seq([tag : Tags, value : Values, ts : 1..MaxReadings])
  PROVE  Follows(r)' /\ Awaits(r)'
<1>1. \A i \in DOMAIN evaluated' : ~(i > since'[r])
  OBVIOUS
<1> QED
  BY <1>1 DEF Follows, Awaits, LastFor

\* A rule that is done stays so through steps that do not concern it.
LEMMA StillFollows ==
  ASSUME NEW r, Follows(r), evaluated' = evaluated, rules'[r] = rules[r], since'[r] = since[r],
         Active(r)' = Active(r)
  PROVE  Follows(r)'
<1>1. \A i : LastFor(r, i)' = LastFor(r, i)
  BY DEF LastFor
<1>2. \A v : Breached(rules[r], v)' = Breached(rules[r], v)
  BY DEF Breached
<1> QED
  BY <1>1, <1>2 DEF Follows

\* What a rule that the pass is not done with has to follow is the pass's reading.
LEMMA FollowsThePass ==
  ASSUME AlertTypeOK, PassInv, NEW r \in Live, r \in Todo, Awaits(r), NEW i, LastFor(r, i)
  PROVE  /\ since[r] # Len(evaluated) /\ evaluated[i].value = engine.value
         /\ engine.loaded[r] = rules[r] /\ Seen(r) = rules[r]
<1>1. evaluated # <<>> /\ engine.value = evaluated[Len(evaluated)].value
  BY DEF PassInv, Todo
<1>2. /\ evaluated \in Seq([tag : Tags, value : Values, ts : 1..MaxReadings])
      /\ since[r] \in 0..Len(evaluated)
  BY DEF AlertTypeOK, Live
<1>3. i \in DOMAIN evaluated /\ i > since[r]
  BY DEF LastFor
<1>4. since[r] # Len(evaluated)
  BY <1>2, <1>3
<1>5. engine.loaded[r] = rules[r] /\ evaluated[Len(evaluated)].tag = rules[r].tag
  BY <1>4 DEF Awaits
<1>6. ~(Len(evaluated) > i)
  BY <1>1, <1>2, <1>5 DEF LastFor
<1>7. i = Len(evaluated)
  BY <1>2, <1>3, <1>6
<1> QED
  BY <1>1, <1>4, <1>5, <1>7 DEF Seen

\* The pass is done with rule r: it has one event if the reading is in breach and none
\* otherwise.
LEMMA RuleDone ==
  ASSUME AlertTypeOK, PassInv, RulesInv, NEW r \in Live, r \in Todo,
         UNCHANGED <<rules, evaluated, since>>,
         Seen(r) = rules[r] => (Active(r)' # {} <=> Breached(rules[r], engine.value))
  PROVE  Follows(r)'
<1> SUFFICES ASSUME NEW i \in DOMAIN evaluated, LastFor(r, i)
             PROVE  Active(r)' # {} <=> Breached(rules[r], evaluated[i].value)
  BY DEF Follows, LastFor, Breached
<1>1. Awaits(r)
  BY DEF RulesInv
<1> QED
  BY <1>1, FollowsThePass

\* The pass goes on with the rules that are left.
LEMMA RulesGoOn ==
  ASSUME AlertTypeOK, PassInv, RulesInv, engine.st # "idle",
         NEW r \in engine.todo, engine' \in {Rest(r), RestAfterCommit(r)},
         UNCHANGED <<rules, evaluated, since>>,
         \A x : x # r => Active(x)' = Active(x),
         r \in Live => Follows(r)'
  PROVE  RulesInv'
<1>1. /\ Todo' = Todo \ {r}
      /\ Todo' # {} => engine'.st = "next" /\ engine'.loaded = engine.loaded
  BY RestIs DEF Todo, Resting
<1> SUFFICES ASSUME NEW x \in Live PROVE (IF x \in Todo THEN Awaits(x) ELSE Follows(x))'
  BY DEF RulesInv, Live
<1>2. CASE x = r
  BY <1>1, <1>2
<1>3. CASE x # r /\ x \in Todo
  <2>1. Awaits(x)
    BY <1>3 DEF RulesInv
  <2>2. Awaits(x)'
    BY <1>1, <1>3, <2>1 DEF Awaits
  <2> QED
    BY <1>1, <1>3, <2>2
<1>4. CASE x # r /\ x \notin Todo
  <2>1. Follows(x)'
    BY <1>4, StillFollows DEF RulesInv
  <2> QED
    BY <1>1, <1>4, <2>1
<1> QED
  BY <1>2, <1>3, <1>4

\* The pass ends before its remaining rules are done.
LEMMA RulesAbort ==
  ASSUME AlertTypeOK, PassInv, RulesInv, engine.st # "idle", Abort, UNCHANGED <<rules, evaluated>>,
         \A x : x \notin Todo => Active(x)' = Active(x)
  PROVE  RulesInv'
<1>1. Todo = engine.todo /\ Todo' = {}
  BY DEF Abort, Todo, Resting
<1> SUFFICES ASSUME NEW x \in Live PROVE Follows(x)'
  BY <1>1 DEF RulesInv, Live
<1>2. CASE x \in Todo
  <2>1. since'[x] = Len(evaluated')
    BY <1>1, <1>2 DEF Abort, Live
  <2> QED
    BY <2>1, NothingToFollow DEF AlertTypeOK
<1>3. CASE x \notin Todo
  <2>1. since'[x] = since[x]
    BY <1>1, <1>3 DEF Abort, Live
  <2> QED
    BY <1>3, <2>1, StillFollows DEF RulesInv
<1> QED
  BY <1>2, <1>3

\* Steps of requests: a rule is as it was, or was just saved.
LEMMA RulesSaved ==
  ASSUME AlertTypeOK, RulesInv, UNCHANGED <<engine, evaluated>>,
         \A x : Active(x)' = Active(x),
         \A x \in Live' : \/ since'[x] = Len(evaluated)
                          \/ x \in Live /\ rules'[x] = rules[x] /\ since'[x] = since[x]
  PROVE  RulesInv'
<1>1. Todo' = Todo
  BY DEF Todo
<1> SUFFICES ASSUME NEW x \in Live' PROVE (IF x \in Todo THEN Awaits(x) ELSE Follows(x))'
  BY DEF RulesInv
<1>2. CASE since'[x] = Len(evaluated)
  BY <1>2, NothingToFollow DEF AlertTypeOK
<1>3. CASE x \in Live /\ rules'[x] = rules[x] /\ since'[x] = since[x]
  <2>1. CASE x \in Todo
    <3>1. Awaits(x)
      BY <1>3, <2>1 DEF RulesInv
    <3>2. Awaits(x)'
      BY <1>3, <3>1 DEF Awaits, Breached
    <3> QED
      BY <1>1, <2>1, <3>2
  <2>2. CASE x \notin Todo
    <3>1. Follows(x)'
      BY <1>3, <2>2, StillFollows DEF RulesInv
    <3> QED
      BY <1>1, <2>2, <3>1
  <2> QED
    BY <2>1, <2>2
<1> QED
  BY <1>2, <1>3
LEMMA RulesStep ==
  AlertTypeOK /\ PassInv /\ OneActive /\ RulesInv /\ [AlertNext]_alertVars => RulesInv'
<1> SUFFICES ASSUME AlertTypeOK, PassInv, OneActive, RulesInv, [AlertNext]_alertVars
             PROVE  RulesInv'
  OBVIOUS
<1> USE DEF tables, histories
<1>1. ASSUME NEW tag \in Tags, NEW v \in Values, NEW ts \in 1..MaxReadings, StartPass(tag, v, ts)
      PROVE  RulesInv'
  <2> DEFINE e == [tag |-> tag, value |-> v, ts |-> ts]
             E == [tag : Tags, value : Values, ts : 1..MaxReadings]
             n == Len(evaluated) + 1
             todo == {r \in Live : rules[r].tag = tag /\ rules[r].enabled}
  <2>1. e \in E /\ e.tag = tag /\ evaluated \in Seq(E) /\ evaluated' = Append(evaluated, e)
    BY <1>1 DEF StartPass, AlertTypeOK
  <2> HIDE DEF e, E
  <2>2. /\ Len(evaluated') = n /\ evaluated'[n] = e /\ DOMAIN evaluated' = 1..n
        /\ \A i \in DOMAIN evaluated : evaluated'[i] = evaluated[i]
        /\ n \in Nat /\ DOMAIN evaluated = 1..(n - 1)
    BY <2>1
  <2>3. /\ engine.st = "idle" /\ UNCHANGED <<rules, events, since>>
        /\ \A r : Active(r)' = Active(r)
    BY <1>1 DEF StartPass, Active
  <2>4. Todo = {} /\ Live' = Live
    BY <2>3 DEF Todo, Live
  <2>5. engine' = IF todo = {} THEN Resting
                  ELSE [st |-> "next", todo |-> todo, loaded |-> [r \in todo |-> rules[r]],
                        expired |-> FALSE, value |-> v, ts |-> ts]
    BY <1>1 DEF StartPass
  <2> HIDE DEF todo
  <2>6. /\ Todo' = todo
        /\ todo # {} => engine'.st = "next" /\ engine'.loaded = [r \in todo |-> rules[r]]
    BY <2>5 DEF Todo, Resting
  <2> SUFFICES ASSUME NEW x \in Live PROVE (IF x \in Todo THEN Awaits(x) ELSE Follows(x))'
    BY <2>4 DEF RulesInv
  <2>7. CASE x \in todo
    <3>1. rules[x].tag = tag
      BY <2>7 DEF todo
    <3>2. Awaits(x)'
      BY <2>1, <2>2, <2>3, <2>6, <2>7, <3>1 DEF Awaits
    <3> QED
      BY <2>6, <2>7, <3>2
  <2>8. CASE x \notin todo
    <3>1. rules[x].tag # tag \/ ~rules[x].enabled
      BY <2>8 DEF todo
    <3> SUFFICES ASSUME NEW i \in DOMAIN evaluated', LastFor(x, i)'
                 PROVE  Active(x) # {} <=> Breached(rules[x], evaluated'[i].value)
      BY <2>3, <2>6, <2>8 DEF Follows, Breached
    <3>2. rules[x].enabled /\ evaluated'[i].tag = rules[x].tag /\ i > since[x]
          /\ \A j \in DOMAIN evaluated' : j > i => evaluated'[j].tag # rules[x].tag
      BY <2>3 DEF LastFor
    <3>3. i # n
      BY <2>1, <2>2, <3>1, <3>2
    <3>4. i \in DOMAIN evaluated /\ DOMAIN evaluated \subseteq DOMAIN evaluated'
      BY <2>2, <3>3
    <3>5. LastFor(x, i)
      BY <2>2, <3>2, <3>4 DEF LastFor
    <3>6. Follows(x)
      BY <2>4 DEF RulesInv
    <3> QED
      BY <2>2, <3>4, <3>5, <3>6 DEF Follows
  <2> QED
    BY <2>7, <2>8
<1>2. ASSUME NEW r \in RuleIds, Judge(r) PROVE RulesInv'
  <2>1. /\ engine.st = "next" /\ r \in engine.todo /\ r \in Todo /\ engine.st # "idle"
        /\ UNCHANGED <<rules, evaluated, since, events>>
        /\ \A x : Active(x)' = Active(x)
    BY <1>2 DEF Judge, Todo, Active
  <2>2. CASE engine' = Rest(r) /\ (Active(r) # {} <=> Breached(Seen(r), engine.value))
    <3>1. r \in Live => Follows(r)'
      BY <2>1, <2>2, RuleDone
    <3> QED
      BY <2>1, <2>2, <3>1, RulesGoOn
  <2>3. ASSUME NEW st \in {"insert", "resolve"}, engine' = At(st, r, Seen(r)),
               st = "insert" => Breached(Seen(r), engine.value),
               st = "resolve" => ~Breached(Seen(r), engine.value)
        PROVE  RulesInv'
    <3>1. /\ engine'.st = st /\ engine'.rule = r /\ engine'.form = Seen(r)
          /\ engine'.loaded = engine.loaded /\ engine'.value = engine.value /\ Todo' = Todo
      BY <2>1, <2>3 DEF At, Todo
    <3> SUFFICES ASSUME NEW x \in Live PROVE (IF x \in Todo THEN Awaits(x) ELSE Follows(x))'
      BY <2>1 DEF RulesInv, Live
    <3>2. CASE x \in Todo
      <4>1. Awaits(x)
        BY <3>2 DEF RulesInv
      <4>2. engine.loaded[x] = rules[x] => Seen(x) = rules[x]
        BY DEF Seen
      <4>3. Awaits(x)'
        BY <2>1, <2>3, <3>1, <4>1, <4>2 DEF Awaits, Breached
      <4> QED
        BY <3>1, <3>2, <4>3
    <3>3. CASE x \notin Todo
      <4>1. Follows(x)'
        BY <2>1, <3>3, StillFollows DEF RulesInv
      <4> QED
        BY <3>1, <3>3, <4>1
    <3> QED
      BY <3>2, <3>3
  <2> QED
    BY <1>2, <2>2, <2>3 DEF Judge, ActiveEvent
<1>3. ASSUME NEW r \in RuleIds, JudgeDeleted(r) PROVE RulesInv'
  <2>1. engine.st # "idle" /\ Abort /\ UNCHANGED <<rules, evaluated, events>>
    BY <1>3 DEF JudgeDeleted
  <2>2. \A x : Active(x)' = Active(x)
    BY <2>1, ActiveKept
  <2> QED
    BY <2>1, <2>2, RulesAbort
<1>4. ASSUME InsertEvent \/ PassFails, Abort PROVE RulesInv'
  <2>1. engine.st # "idle" /\ UNCHANGED <<rules, evaluated>>
    BY <1>4 DEF InsertEvent, PassFails
  <2>2. CASE events' = events
    <3>1. \A x : Active(x)' = Active(x)
      BY <2>2, ActiveKept
    <3> QED
      BY <1>4, <2>1, <3>1, RulesAbort
  <2>3. CASE events' # events
    <3>1. \A x : x # engine.rule => Active(x)' = Active(x)
      BY <1>4, <2>3, Insertion, ActiveInserted
    <3>2. engine.rule \in Todo
      BY <1>4, <2>1, <2>3, Insertion DEF PassInv, Todo
    <3> QED
      BY <1>4, <2>1, <3>1, <3>2, RulesAbort
  <2> QED
    BY <2>2, <2>3
<1>5. ASSUME InsertEvent, ~Abort PROVE RulesInv'
  <2>1. /\ engine.st = "insert" /\ engine.rule \in Live /\ engine' = [engine EXCEPT !.st = "notify"]
        /\ UNCHANGED <<rules, evaluated, since>>
    BY <1>5 DEF InsertEvent
  <2>2. engine \in AtRule /\ engine.rule \in Todo
    BY <2>1, EventType DEF PassInv, Todo
  <2>3. /\ engine'.st = "notify" /\ engine'.rule = engine.rule /\ engine'.form = engine.form
        /\ engine'.loaded = engine.loaded /\ engine'.value = engine.value /\ Todo' = Todo
    BY <2>1, <2>2 DEF AtRule, Todo
  <2>4. \A x : x # engine.rule => Active(x)' = Active(x)
    BY <1>5, <2>1, ActiveInserted DEF InsertEvent, PassInv
  <2> SUFFICES ASSUME NEW x \in Live PROVE (IF x \in Todo THEN Awaits(x) ELSE Follows(x))'
    BY <2>1 DEF RulesInv, Live
  <2>5. CASE x \in Todo
    <3>1. Awaits(x)
      BY <2>5 DEF RulesInv
    <3>2. Awaits(x)'
      BY <2>1, <2>3, <3>1 DEF Awaits, Breached
    <3> QED
      BY <2>3, <2>5, <3>2
  <2>6. CASE x \notin Todo
    <3>1. Follows(x)'
      BY <2>1, <2>2, <2>4, <2>6, StillFollows DEF RulesInv
    <3> QED
      BY <2>3, <2>6, <3>1
  <2> QED
    BY <2>5, <2>6
<1>6. ASSUME Notify PROVE RulesInv'
  <2> DEFINE r == engine.rule
  <2>1. /\ engine.st = "notify" /\ engine.st # "idle" /\ r \in engine.todo /\ r \in Todo
        /\ Active(r) # {} /\ engine' = RestAfterCommit(r)
        /\ UNCHANGED <<rules, evaluated, since, events>>
    BY <1>6 DEF Notify, PassInv, Todo
  <2>2. \A x : Active(x)' = Active(x)
    BY <2>1, ActiveKept
  <2>3. \A x \in Live : x = r => Follows(x)'
    <3> SUFFICES ASSUME NEW x \in Live, x = r PROVE Follows(x)'
      OBVIOUS
    <3> SUFFICES ASSUME NEW i \in DOMAIN evaluated, LastFor(x, i)
                 PROVE  Breached(rules[x], evaluated[i].value)
      BY <2>1, <2>2 DEF Follows, LastFor, Breached
    <3>1. Awaits(x)
      BY <2>1 DEF RulesInv
    <3> QED
      BY <2>1, <3>1, FollowsThePass DEF Awaits
  <2>4. \A x : x = r => (x \in Live => Follows(x)')
    BY <2>3
  <2> HIDE DEF r
  <2> QED
    BY <2>1, <2>2, <2>4, RulesGoOn
<1>7. ASSUME ResolveEvent PROVE RulesInv'
  <2> DEFINE r == engine.rule
  <2>1. PICK i \in Active(engine.rule) :
          events' = [events EXCEPT ![i].status = "resolved", ![i].resolved_at = engine.ts]
    BY <1>7 DEF ResolveEvent, ActiveEvent
  <2>2. /\ engine.st = "resolve" /\ engine.st # "idle" /\ r \in engine.todo /\ r \in Todo
        /\ engine' = RestAfterCommit(r)
        /\ UNCHANGED <<rules, evaluated, since>>
    BY <1>7 DEF ResolveEvent, PassInv, Todo
  <2>3. /\ \A x : x # r => Active(x)' = Active(x)
        /\ \A x : x = r => Active(x)' = {}
    BY <2>1, <2>2, ActiveResolved
  <2>4. \A x \in Live : x = r => Follows(x)'
    <3> SUFFICES ASSUME NEW x \in Live, x = r PROVE Follows(x)'
      OBVIOUS
    <3> SUFFICES ASSUME NEW k \in DOMAIN evaluated, LastFor(x, k)
                 PROVE  ~Breached(rules[x], evaluated[k].value)
      BY <2>2, <2>3 DEF Follows, LastFor, Breached
    <3>1. Awaits(x)
      BY <2>2 DEF RulesInv
    <3> QED
      BY <2>2, <3>1, FollowsThePass DEF Awaits
  <2>5. \A x : x = r => (x \in Live => Follows(x)')
    BY <2>4
  <2> HIDE DEF r
  <2> QED
    BY <2>2, <2>3, <2>5, RulesGoOn
<1>8. ASSUME UNCHANGED <<engine, evaluated, events>>,
             \A x \in Live' : \/ since'[x] = Len(evaluated)
                              \/ x \in Live /\ rules'[x] = rules[x] /\ since'[x] = since[x]
      PROVE  RulesInv'
  BY <1>8, ActiveKept, RulesSaved
<1>9. ASSUME NEW r \in RuleIds, NEW f \in Forms, CreateRule(r, f) PROVE RulesInv'
  BY <1>8, <1>9 DEF CreateRule, Live, AlertTypeOK
<1>10. ASSUME NEW c \in Clients, CommitUpdate(c) PROVE RulesInv'
  BY <1>8, <1>10 DEF CommitUpdate, Live, AlertTypeOK
<1>11. ASSUME NEW c \in Clients, CommitDelete(c) PROVE RulesInv'
  <2>1. \A x \in Live' : x \in Live /\ rules'[x] = rules[x]
    BY <1>11, AlertAssumption DEF CommitDelete, Live, AlertTypeOK
  <2> QED
    BY <1>8, <1>11, <2>1 DEF CommitDelete
<1>12. ASSUME NEW c \in Clients, CommitAcknowledge(c) PROVE RulesInv'
  <2>1. \A x : Active(x)' = Active(x)
    BY <1>12, AcknowledgeType, ActiveKept
  <2> QED
    BY <1>12, <2>1, RulesSaved DEF CommitAcknowledge, Live
<1>13. ASSUME UNCHANGED <<engine, evaluated, events, rules, since>> PROVE RulesInv'
  BY <1>8, <1>13 DEF Live
<1> QED
  BY <1>1, <1>2, <1>3, <1>4, <1>5, <1>6, <1>7, <1>9, <1>10, <1>11, <1>12, <1>13
     DEF AlertNext, alertVars, PassFails, LoadUpdate, LoadDelete, LoadAcknowledge
--------------------------------------------------------------------------------
(* Theorems *)

LEMMA AlertInvInit == AlertInit => AlertInv
<1> SUFFICES ASSUME AlertInit PROVE AlertInv
  OBVIOUS
<1>1. engine = Resting /\ events = <<>> /\ DOMAIN events = {} /\ \A r : Active(r) = {}
  BY DEF AlertInit, Active
<1>2. Live = {}
  BY AlertAssumption DEF AlertInit, Live
<1> QED
  BY <1>1, <1>2, InitType
     DEF AlertInv, OneActive, PassInv, RulesInv, EventsKeepTheirRule, NotifiedOnce, ToNotify, Resting

\* The state of the evaluator and of the requests stays consistent with the tables, for
\* any number of rules, readings, edits, deletions and failures.
THEOREM AlertInvariance == AlertSpec => []AlertInv
<1>1. AlertInv /\ [AlertNext]_alertVars => AlertInv'
  BY TypeStep, OneActiveStep, PassStep, RulesStep, RuleStep, NotifiedStep DEF AlertInv
<1> QED
  BY <1>1, AlertInvInit, PTL DEF AlertSpec

\* The tables, the pass and the requests keep their types; an event carries the time of
\* its end exactly when it is resolved.
THEOREM AlertTypes == AlertSpec => []AlertTypeOK
<1>1. AlertInv => AlertTypeOK
  BY DEF AlertInv
<1> QED
  BY <1>1, AlertInvariance, PTL

\* A saved rule takes effect on the next reading of its tag, whatever edits, deletions,
\* acknowledgements and failed passes came before.
THEOREM RulesTakeEffect == AlertSpec => []AlertFollowsReadings
<1>1. AlertInv => AlertFollowsReadings
  <2> SUFFICES ASSUME AlertInv, engine.st = "idle", NEW r \in Live,
                      NEW i \in since[r] + 1 .. Len(evaluated),
                      rules[r].enabled, evaluated[i].tag = rules[r].tag,
                      \A j \in i + 1 .. Len(evaluated) : evaluated[j].tag # rules[r].tag
               PROVE  Cardinality(Active(r)) = IF Breached(rules[r], evaluated[i].value) THEN 1 ELSE 0
    BY DEF AlertFollowsReadings
  <2>1. Follows(r)
    BY DEF AlertInv, RulesInv, Todo
  <2>2. /\ evaluated \in Seq([tag : Tags, value : Values, ts : 1..MaxReadings])
        /\ since[r] \in 0..Len(evaluated)
    BY DEF AlertInv, AlertTypeOK, Live
  <2>3. i \in DOMAIN evaluated /\ i > since[r]
    BY <2>2
  <2>4. \A j \in DOMAIN evaluated : j > i => j \in i + 1 .. Len(evaluated)
    BY <2>2, <2>3
  <2>5. LastFor(r, i)
    BY <2>3, <2>4 DEF LastFor
  <2>6. Active(r) # {} <=> Breached(rules[r], evaluated[i].value)
    BY <2>1, <2>3, <2>5 DEF Follows
  <2>7. ASSUME NEW e \in Active(r) PROVE Active(r) = {e}
    BY <2>7 DEF AlertInv, OneActive, Active
  <2>8. Active(r) # {} => Cardinality(Active(r)) = 1
    BY <2>7, FS_Singleton
  <2> QED
    BY <2>6, <2>8, FS_EmptySet
<1> QED
  BY <1>1, AlertInvariance, PTL

\* An event never outlives its rule, however a deletion meets an insertion.
THEOREM EventsHaveRules == AlertSpec => []EventsKeepTheirRule
<1>1. AlertInv => EventsKeepTheirRule
  BY DEF AlertInv
<1> QED
  BY <1>1, AlertInvariance, PTL

\* notify is called once for each event, unless a failure cut the pass between the commit
\* of the event and the call.
THEOREM BreachesNotifiedOnce == AlertSpec => []NotifiedOnce
<1>1. AlertInv => NotifiedOnce
  BY DEF AlertInv
<1> QED
  BY <1>1, AlertInvariance, PTL

\* No step of a pass or a request takes back an acknowledgement or a resolution.
THEOREM MarksStay == AlertSpec => MarksAreFinal
<1> DEFINE Final ==
      \A i \in DOMAIN events :
        /\ events[i].acknowledged => events'[i].acknowledged
        /\ events[i].status = "resolved" =>
             events'[i].status = "resolved" /\ events'[i].resolved_at = events[i].resolved_at
<1>1. AlertInv /\ [AlertNext]_alertVars => Final
  <2> SUFFICES ASSUME AlertInv, [AlertNext]_alertVars PROVE Final
    OBVIOUS
  <2>t. AlertTypeOK /\ PassInv /\ OneActive
    BY DEF AlertInv
  <2>1. CASE events' = events
    BY <2>1
  <2>2. ASSUME InsertEvent \/ PassFails, events' # events PROVE Final
    BY <2>t, <2>2, Insertion, InsertType
  <2>3. ASSUME ResolveEvent PROVE Final
    <3>1. PICK i \in Active(engine.rule) :
            events' = [events EXCEPT ![i].status = "resolved", ![i].resolved_at = engine.ts]
      BY <2>3 DEF ResolveEvent, ActiveEvent
    <3>2. i \in DOMAIN events /\ events[i].status = "active"
      BY DEF Active
    <3>3. /\ \A j \in DOMAIN events : j # i => events'[j] = events[j]
          /\ events'[i].acknowledged = events[i].acknowledged
      BY <2>t, <2>3, <3>1, <3>2, ResolveType DEF ResolveEvent
    <3> QED
      BY <3>2, <3>3
  <2>4. ASSUME NEW c \in Clients, CommitAcknowledge(c) PROVE Final
    BY <2>t, <2>4, AcknowledgeType
  <2> QED
    BY <2>1, <2>2, <2>3, <2>4
       DEF AlertNext, alertVars, tables, histories, StartPass, Judge, JudgeDeleted, Notify,
           CreateRule, LoadUpdate, LoadDelete, LoadAcknowledge, CommitUpdate, CommitDelete
<1>2. AlertInv /\ [AlertNext]_alertVars => [Final]_alertVars
  BY <1>1
<1> QED
  BY <1>2, AlertInvariance, PTL DEF AlertSpec, MarksAreFinal
================================================================================
