------------------------------- MODULE AlertEngine -------------------------------
(***************************************************************************)
(* Threshold alerts (backend/app/mqtt_ingest.py _evaluate_alerts, the      *)
(* routers of backend/app/routers/alerts.py, the tables of models.py).     *)
(*                                                                         *)
(* One evaluator, the ingest task, works through the rules of a reading's  *)
(* tag; request handlers run in threads of their own.  They meet in the    *)
(* database (READ COMMITTED), so a step is one statement with its commit.  *)
(* The evaluator's session expires its objects at every commit: a rule is  *)
(* used as it was loaded until the first commit of the pass, and as it is  *)
(* in the table after that.                                                *)
(***************************************************************************)
EXTENDS Naturals, Sequences, FiniteSets

CONSTANTS
  RuleIds,     \* the ids that rules can get; an id is never used twice
  Tags,        \* tags that rules may watch
  RuleConditions, \* conditions that rules may have
  Thresholds,  \* their thresholds
  Unborn, Deleted, \* what the table holds of a rule before and after its life
  Values,      \* values of readings
  Clients,     \* requests that may be under way at once
  MaxReadings, \* bound: readings evaluated; they carry timestamps 1..MaxReadings
  MaxEvents,   \* bound: alert events
  MaxEdits,    \* bound: rule requests (create, update, delete)
  MaxFaults    \* bound: failures of the database and crashes of the backend

Conditions == {"gt", "gte", "lt", "lte"}

\* The bodies of a rule that clients may save: any combination of its columns.
Forms == [tag : Tags, condition : RuleConditions, threshold : Thresholds, enabled : BOOLEAN]

ASSUME AlertAssumption ==
  /\ Values \subseteq Nat /\ Thresholds \subseteq Nat /\ RuleConditions \subseteq Conditions
  /\ Unborn # Deleted /\ Unborn \notin Forms /\ Deleted \notin Forms
  /\ MaxReadings \in Nat /\ MaxEvents \in Nat /\ MaxEdits \in Nat /\ MaxFaults \in Nat

VARIABLES
  rules,    \* rules[r]: the saved form of rule r, or Unborn, or Deleted
  events,   \* the rows of "alert_events" in the order of their insertion
  engine,   \* where the pass over a reading's rules stands
  request,  \* request[c]: the request of client c that has loaded its row
  evaluated,\* history: readings evaluated, [tag, value, ts], in the order of evaluation
  since,    \* history: readings up to evaluated[since[r]] say nothing about rule r: it was
            \* saved after them, or the pass over them ended before it
  notified, \* history: notified[i]: times notify was called for event i
  silent,   \* history: events whose insertion or notification was cut short
  edits, faults

tables == <<rules, events>>
histories == <<evaluated, since, notified, silent>>
alertVars == <<rules, events, engine, request, evaluated, since, notified, silent, edits, faults>>

Live == {r \in RuleIds : rules[r] \in Forms}

Resting == [st |-> "idle"]
NoRequest == [kind |-> "none"]

Breached(f, v) ==
  \/ f.condition = "gt" /\ v > f.threshold
  \/ f.condition = "gte" /\ v >= f.threshold
  \/ f.condition = "lt" /\ v < f.threshold
  \/ f.condition = "lte" /\ v <= f.threshold

EventOf(r, f, v, ts) ==
  [rule |-> r, form |-> f, value |-> v, status |-> "active", acknowledged |-> FALSE,
   triggered_at |-> ts, resolved_at |-> 0]

Active(r) == {i \in DOMAIN events : events[i].rule = r /\ events[i].status = "active"}

EventRows ==
  [rule : RuleIds, form : Forms, value : Values, status : {"active", "resolved"},
   acknowledged : BOOLEAN, triggered_at : 1..MaxReadings, resolved_at : 0..MaxReadings]

\* What a session has of the rules it loaded.
Loads == UNION {[todo -> Forms] : todo \in SUBSET RuleIds}

\* A pass between two rules, and one that is at a rule.
BetweenRules ==
  [st : {"next"}, todo : SUBSET RuleIds, loaded : Loads, expired : BOOLEAN,
   value : Values, ts : 1..MaxReadings]
AtRule ==
  [st : {"insert", "resolve", "notify"}, rule : RuleIds, form : Forms, todo : SUBSET RuleIds,
   loaded : Loads, expired : BOOLEAN, value : Values, ts : 1..MaxReadings]

Requests ==
  {NoRequest} \cup [kind : {"update"}, rule : RuleIds, from : Forms, to : Forms]
              \cup [kind : {"delete"}, rule : RuleIds]
              \cup [kind : {"acknowledge"}, event : 1..MaxEvents, row : EventRows]

AlertTypeOK ==
  /\ rules \in [RuleIds -> Forms \cup {Unborn, Deleted}]
  /\ events \in Seq(EventRows) /\ Len(events) <= MaxEvents
  /\ \A i \in DOMAIN events : events[i].status = "resolved" <=> events[i].resolved_at # 0
  /\ engine \in {Resting} \cup BetweenRules \cup AtRule
  /\ request \in [Clients -> Requests]
  /\ \A c \in Clients : request[c].kind = "acknowledge" => request[c].event \in DOMAIN events
  /\ evaluated \in Seq([tag : Tags, value : Values, ts : 1..MaxReadings])
  /\ since \in [RuleIds -> 0..Len(evaluated)]
  /\ notified \in Seq(Nat) /\ Len(notified) = Len(events)
  /\ silent \subseteq DOMAIN events
  /\ edits \in 0..MaxEdits /\ faults \in 0..MaxFaults

AlertInit ==
  /\ rules = [r \in RuleIds |-> Unborn] /\ events = <<>>
  /\ engine = Resting /\ request = [c \in Clients |-> NoRequest]
  /\ evaluated = <<>> /\ since = [r \in RuleIds |-> 0]
  /\ notified = <<>> /\ silent = {}
  /\ edits = 0 /\ faults = 0
--------------------------------------------------------------------------------
(* _evaluate_alerts *)

\* A reading is stored and its tag's enabled rules are loaded.  Readings of a device come
\* in any order of their timestamps: replayed ones come after live ones.
StartPass(tag, v, ts) ==
  /\ engine.st = "idle" /\ \A i \in DOMAIN evaluated : evaluated[i].ts # ts
  /\ evaluated' = Append(evaluated, [tag |-> tag, value |-> v, ts |-> ts])
  /\ LET todo == {r \in Live : rules[r].tag = tag /\ rules[r].enabled}
     IN  engine' = IF todo = {} THEN Resting
                   ELSE [st |-> "next", todo |-> todo, loaded |-> [r \in todo |-> rules[r]],
                         expired |-> FALSE, value |-> v, ts |-> ts]
  /\ UNCHANGED <<request, since, notified, silent, edits, faults>> /\ UNCHANGED tables

\* The rest of a pass whose rule r is done.
Rest(r) ==
  IF engine.todo = {r} THEN Resting
  ELSE [st |-> "next", todo |-> engine.todo \ {r}, loaded |-> engine.loaded,
        expired |-> engine.expired, value |-> engine.value, ts |-> engine.ts]

RestAfterCommit(r) == IF Rest(r) = Resting THEN Resting ELSE [Rest(r) EXCEPT !.expired = TRUE]

At(st, r, f) ==
  [st |-> st, rule |-> r, form |-> f, todo |-> engine.todo, loaded |-> engine.loaded,
   expired |-> engine.expired, value |-> engine.value, ts |-> engine.ts]

\* The form the session has for rule r: as loaded, or read again after a commit.
Seen(r) == IF engine.expired THEN rules[r] ELSE engine.loaded[r]

\* A wrong variant: any event of the rule counts, whatever its status.
AnyEvent(r) == {i \in DOMAIN events : events[i].rule = r}

\* The session's query for the rule's active event.
ActiveEvent(r) == Active(r)

\* The next rule is compared with the value and its active event is looked up.
Judge(r) ==
  /\ engine.st = "next" /\ r \in engine.todo /\ Seen(r) \in Forms
  /\ LET breached == Breached(Seen(r), engine.value)
         found == ActiveEvent(r) # {}
     IN  engine' = IF breached /\ ~found THEN At("insert", r, Seen(r))
                   ELSE IF ~breached /\ found THEN At("resolve", r, Seen(r)) ELSE Rest(r)
  /\ UNCHANGED <<request, edits, faults>> /\ UNCHANGED tables /\ UNCHANGED histories

\* The pass ends before its remaining rules are done.
Abort ==
  /\ engine' = Resting
  /\ since' = [r \in RuleIds |-> IF r \in engine.todo THEN Len(evaluated) ELSE since[r]]

\* A rule that was deleted since the pass began is not found when it is read again, and
\* the exception ends the pass for the rules after it too.
JudgeDeleted(r) ==
  /\ engine.st = "next" /\ r \in engine.todo /\ Seen(r) = Deleted
  /\ Abort
  /\ UNCHANGED <<request, evaluated, notified, silent, edits, faults>> /\ UNCHANGED tables

\* The event is inserted and committed, if its rule is still there to refer to.
InsertEvent ==
  /\ engine.st = "insert" /\ Len(events) < MaxEvents
  /\ IF engine.rule \in Live
       THEN /\ events' = Append(events, EventOf(engine.rule, engine.form, engine.value, engine.ts))
            /\ notified' = Append(notified, 0)
            /\ engine' = [engine EXCEPT !.st = "notify"]
            /\ UNCHANGED since
       ELSE Abort /\ UNCHANGED <<events, notified>>
  /\ UNCHANGED <<rules, request, evaluated, silent, edits, faults>>

\* notify and broadcast for the event just committed.
Notify ==
  /\ engine.st = "notify"
  /\ notified' = [notified EXCEPT ![Len(events)] = @ + 1]
  /\ engine' = RestAfterCommit(engine.rule)
  /\ UNCHANGED <<request, evaluated, since, silent, edits, faults>> /\ UNCHANGED tables

\* A wrong variant: the end of a breach is notified as well.
ResolveNotifies ==
  /\ engine.st = "resolve"
  /\ \E i \in ActiveEvent(engine.rule) :
       /\ events' = [events EXCEPT ![i].status = "resolved", ![i].resolved_at = engine.ts]
       /\ notified' = [notified EXCEPT ![i] = @ + 1]
  /\ engine' = RestAfterCommit(engine.rule)
  /\ UNCHANGED <<rules, request, evaluated, since, silent, edits, faults>>

\* A wrong variant: the time of the end is not set.
ResolvesWithoutTime ==
  /\ engine.st = "resolve"
  /\ \E i \in ActiveEvent(engine.rule) : events' = [events EXCEPT ![i].status = "resolved"]
  /\ engine' = RestAfterCommit(engine.rule)
  /\ UNCHANGED <<rules, request, edits, faults>> /\ UNCHANGED histories

\* The active event is marked resolved and committed, and broadcast.
ResolveEvent ==
  /\ engine.st = "resolve"
  /\ \E i \in ActiveEvent(engine.rule) :
       events' = [events EXCEPT ![i].status = "resolved", ![i].resolved_at = engine.ts]
  /\ engine' = RestAfterCommit(engine.rule)
  /\ UNCHANGED <<rules, request, edits, faults>> /\ UNCHANGED histories

\* A statement fails or the backend dies: the pass ends.  A failed commit may have
\* reached the database all the same.
PassFails ==
  /\ engine.st # "idle" /\ faults < MaxFaults
  /\ faults' = faults + 1
  /\ Abort
  /\ \/ /\ silent' = IF engine.st = "notify" THEN silent \cup {Len(events)} ELSE silent
        /\ UNCHANGED <<events, notified>>
     \/ /\ engine.st = "insert" /\ engine.rule \in Live /\ Len(events) < MaxEvents
        /\ events' = Append(events, EventOf(engine.rule, engine.form, engine.value, engine.ts))
        /\ notified' = Append(notified, 0)
        /\ silent' = silent \cup {Len(events) + 1}
  /\ UNCHANGED <<rules, request, evaluated, edits>>
--------------------------------------------------------------------------------
(* routers/alerts.py: the rules and the acknowledgement *)

CreateRule(r, f) ==
  /\ rules[r] = Unborn /\ edits < MaxEdits
  /\ rules' = [rules EXCEPT ![r] = f]
  /\ edits' = edits + 1
  /\ since' = [since EXCEPT ![r] = Len(evaluated)]
  /\ UNCHANGED <<events, engine, request, evaluated, notified, silent, faults>>

\* A handler loads the rule and will write the columns in which form f differs.
LoadUpdate(c, r, f) ==
  /\ request[c] = NoRequest /\ r \in Live /\ edits < MaxEdits
  /\ request' = [request EXCEPT ![c] = [kind |-> "update", rule |-> r, from |-> rules[r], to |-> f]]
  /\ edits' = edits + 1
  /\ UNCHANGED <<engine, faults>> /\ UNCHANGED tables /\ UNCHANGED histories

LoadDelete(c, r) ==
  /\ request[c] = NoRequest /\ r \in Live /\ edits < MaxEdits
  /\ request' = [request EXCEPT ![c] = [kind |-> "delete", rule |-> r]]
  /\ edits' = edits + 1
  /\ UNCHANGED <<engine, faults>> /\ UNCHANGED tables /\ UNCHANGED histories

LoadAcknowledge(c, i) ==
  /\ request[c] = NoRequest /\ ~events[i].acknowledged
  /\ request' = [request EXCEPT ![c] = [kind |-> "acknowledge", event |-> i, row |-> events[i]]]
  /\ UNCHANGED <<engine, edits, faults>> /\ UNCHANGED tables /\ UNCHANGED histories

Merged(now, from, to) ==
  [col \in DOMAIN now |-> IF to[col] = from[col] THEN now[col] ELSE to[col]]

\* The UPDATE of the changed columns; nothing is written if the row is gone.
CommitUpdate(c) ==
  /\ request[c].kind = "update"
  /\ LET q == request[c]
     IN  /\ rules' = IF q.rule \in Live
                     THEN [rules EXCEPT ![q.rule] = Merged(@, q.from, q.to)] ELSE rules
         /\ since' = [since EXCEPT ![q.rule] = Len(evaluated)]
  /\ request' = [request EXCEPT ![c] = NoRequest]
  /\ UNCHANGED <<events, engine, evaluated, notified, silent, edits, faults>>

\* A wrong variant: events do not refer to their rule.
DeletesReferenced(c) ==
  /\ request[c].kind = "delete"
  /\ rules' = [rules EXCEPT ![request[c].rule] = Deleted]
  /\ request' = [request EXCEPT ![c] = NoRequest]
  /\ UNCHANGED <<events, engine, edits, faults>> /\ UNCHANGED histories

\* The DELETE, refused while an event refers to the rule.
CommitDelete(c) ==
  /\ request[c].kind = "delete"
  /\ rules' = IF AnyEvent(request[c].rule) = {}
                THEN [rules EXCEPT ![request[c].rule] = Deleted] ELSE rules
  /\ request' = [request EXCEPT ![c] = NoRequest]
  /\ UNCHANGED <<events, engine, edits, faults>> /\ UNCHANGED histories

\* A wrong variant: the whole row is written back as it was loaded.
AcknowledgesWholeRow(c) ==
  /\ request[c].kind = "acknowledge"
  /\ events' = [events EXCEPT ![request[c].event] = [request[c].row EXCEPT !.acknowledged = TRUE]]
  /\ request' = [request EXCEPT ![c] = NoRequest]
  /\ UNCHANGED <<rules, engine, edits, faults>> /\ UNCHANGED histories

CommitAcknowledge(c) ==
  /\ request[c].kind = "acknowledge"
  /\ events' = [events EXCEPT ![request[c].event].acknowledged = TRUE]
  /\ request' = [request EXCEPT ![c] = NoRequest]
  /\ UNCHANGED <<rules, engine, edits, faults>> /\ UNCHANGED histories

AlertNext ==
  \/ \E tag \in Tags, v \in Values, ts \in 1..MaxReadings : StartPass(tag, v, ts)
  \/ \E r \in RuleIds : Judge(r) \/ JudgeDeleted(r)
  \/ InsertEvent \/ Notify \/ ResolveEvent \/ PassFails
  \/ \E r \in RuleIds, f \in Forms : CreateRule(r, f) \/ \E c \in Clients : LoadUpdate(c, r, f)
  \/ \E c \in Clients : \/ \E r \in RuleIds : LoadDelete(c, r)
                        \/ \E i \in DOMAIN events : LoadAcknowledge(c, i)
                        \/ CommitUpdate(c) \/ CommitDelete(c) \/ CommitAcknowledge(c)

AlertSpec == AlertInit /\ [][AlertNext]_alertVars
--------------------------------------------------------------------------------
(* Properties *)

\* A saved rule takes effect on the next reading: whenever no pass is under way, it has
\* one active event if the last reading of its tag since it was saved is in breach and
\* none otherwise, whatever edits, deletions and failed passes came before.
AlertFollowsReadings ==
  engine.st = "idle" =>
    \A r \in Live :
      \A i \in since[r] + 1 .. Len(evaluated) :
        /\ rules[r].enabled /\ evaluated[i].tag = rules[r].tag
        /\ \A j \in i + 1 .. Len(evaluated) : evaluated[j].tag # rules[r].tag
        => Cardinality(Active(r)) = IF Breached(rules[r], evaluated[i].value) THEN 1 ELSE 0

\* An event never outlives the rule it refers to, however a deletion meets an insertion.
EventsKeepTheirRule == \A i \in DOMAIN events : events[i].rule \in Live

\* notify is called once per breach; only a failure after the insertion leaves it out.
NotifiedOnce ==
  \A i \in DOMAIN events :
    \/ notified[i] = 1 /\ i \notin silent
    \/ notified[i] = 0 /\ (i \in silent \/ (engine.st = "notify" /\ i = Len(events)))

\* Acknowledging and resolving do not undo each other, in whatever order their
\* statements meet: both marks of an event are final, and so is the time of its end.
MarksAreFinal ==
  [][\A i \in DOMAIN events :
       /\ events[i].acknowledged => events'[i].acknowledged
       /\ events[i].status = "resolved" =>
            events'[i].status = "resolved" /\ events'[i].resolved_at = events[i].resolved_at]_alertVars

\* An alert stays active until a later reading is back within its threshold.
ClearedByLaterReading ==
  \A i \in DOMAIN events :
    events[i].status = "resolved" => events[i].resolved_at > events[i].triggered_at
================================================================================
