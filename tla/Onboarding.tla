------------------------------- MODULE Onboarding -------------------------------
(***************************************************************************)
(* How devices get into the database: the backend's start (init_db of      *)
(* backend/app/db.py, seed_if_empty of seed.py, called by lifespan of      *)
(* main.py), and the requests that create templates and devices            *)
(* (routers/templates.py, routers/instances.py), against the tables of     *)
(* models.py and the configuration that gateways fetch                     *)
(* (routers/gateways.py).                                                  *)
(*                                                                         *)
(* A session inserts what was added to it when it is flushed, in an order  *)
(* that SQLAlchemy takes from the relationships and not from the foreign   *)
(* keys; the table checks a foreign key at each insert.  Nothing is seen   *)
(* by others before the commit.  A flush that fails rolls the transaction  *)
(* back, and every later use of the session raises until it is rolled back *)
(* by its owner.  The tags of one template or device are one row here.     *)
(***************************************************************************)
EXTENDS Naturals, FiniteSets, SequencesExt

CONSTANTS
  Retries,     \* attempts of init_db
  MaxRequests, \* bound: requests
  MaxLines,    \* bound: lines of a CSV file
  MaxFaults,   \* bound: failures of the connection to the database
  MaxCrashes   \* bound: deaths of the backend while it starts or serves

ASSUME OnboardingAssumption ==
  /\ Retries \in Nat \ {0} /\ MaxRequests \in Nat /\ MaxLines \in Nat
  /\ MaxFaults \in Nat /\ MaxCrashes \in Nat

VARIABLES
  db,       \* the committed rows
  process,  \* the backend: "down", "connect", "extend", "look", "seed" or "serve"
  attempt,  \* attempts of init_db so far
  seed,     \* the session of seed_if_empty
  req,      \* req[u]: request u with its session
  refused,  \* history: rows of the seed that the database refused
  unsure,   \* history: requests whose commit took effect and was reported as failed
  faults, crashes

vars == <<db, process, attempt, seed, req, refused, unsure, faults, crashes>>

RequestIds == 1..MaxRequests
Lines == 1..MaxLines

\* Row n of a table, written by request "of", or by the seed (0).
Row(table, of, n) == [table |-> table, of |-> of, n |-> n]
Org == Row("organizations", 0, 1)
Site == Row("sites", 0, 1)
Gateway == Row("gateways", 0, 1)
Template(u, n) == Row("device_templates", u, n)
TemplateTags(u, n) == Row("template_tags", u, n)
Device(u, n) == Row("device_instances", u, n)
DeviceTags(u, n) == Row("device_instance_tags", u, n)

\* The rows that row must find in the database; "template" is a device's.
Refs(row, template) ==
  CASE row.table = "sites" -> {Org}
    [] row.table = "gateways" -> {Site}
    [] row.table = "template_tags" -> {Template(row.of, row.n)}
    [] row.table = "device_instances" -> {Org, Site, Gateway, template}
    [] row.table = "device_instance_tags" -> {Device(row.of, row.n)}
    [] OTHER -> {}

\* A relationship puts the parents' table before the children's in a flush.
Parent == [template_tags |-> "device_templates", device_instance_tags |-> "device_instances"]

\* A wrong variant: two flushes less.
FlushedTogether ==
  << {Org}, {Site, Gateway}, {Template(0, 1), TemplateTags(0, 1), Template(0, 2)},
     {TemplateTags(0, 2)}, {Device(0, 1)}, {DeviceTags(0, 1), Device(0, 2)}, {DeviceTags(0, 2)} >>

\* What seed_if_empty adds between one flush and the next; the commit is the last flush.
Blocks ==
  << {Org}, {Site}, {Gateway}, {Template(0, 1)}, {TemplateTags(0, 1), Template(0, 2)},
     {TemplateTags(0, 2)}, {Device(0, 1)}, {DeviceTags(0, 1), Device(0, 2)}, {DeviceTags(0, 2)} >>

SeedRows == UNION ToSet(Blocks)

NoSeed == [block |-> 0, new |-> {}, inserted |-> {}]
Unsent == [kind |-> "none", st |-> "new"]

Kinds == {"template", "single", "bulk"}
LineKinds == {"good", "unparsable", "refused"}
Templates == {row \in db : row.table = "device_templates"}

OnboardingTypeOK ==
  /\ process \in {"down", "connect", "extend", "look", "seed", "serve"}
  /\ attempt \in 0..Retries
  /\ seed.block \in 0..Len(Blocks) /\ seed.new \cap seed.inserted = {}
  /\ seed # NoSeed => process = "seed"
  /\ \A u \in RequestIds :
       \/ req[u] = Unsent
       \/ /\ req[u].kind \in Kinds
          /\ req[u].st \in {"open", "ok", "rejected", "error", "cut"}
          /\ req[u].st = "open" => process = "serve"
          /\ req[u].inserted # {} => req[u].st = "open" /\ ~req[u].failed
  /\ faults \in 0..MaxFaults /\ crashes \in 0..MaxCrashes

Init ==
  /\ db = {} /\ process = "down" /\ attempt = 0 /\ seed = NoSeed
  /\ req = [u \in RequestIds |-> Unsent]
  /\ refused = {} /\ unsure = {} /\ faults = 0 /\ crashes = 0

Fault == faults < MaxFaults /\ faults' = faults + 1
NoFault == UNCHANGED faults
--------------------------------------------------------------------------------
(* The start: init_db *)

\* The process is started: by compose, by the container's supervisor or by hand.
Boot ==
  /\ process = "down"
  /\ process' = "connect" /\ attempt' = 0
  /\ UNCHANGED <<db, seed, req, refused, unsure, faults, crashes>>

\* create_all finds the database.
CreateTables ==
  /\ process = "connect"
  /\ process' = "extend"
  /\ UNCHANGED <<db, attempt, seed, req, refused, unsure, faults, crashes>>

\* A wrong variant: the attempts are counted one too far.
TriesOnceMore ==
  /\ process = "connect" /\ Fault
  /\ attempt' = attempt + 1
  /\ process' = IF attempt = Retries THEN "down" ELSE "connect"
  /\ UNCHANGED <<db, seed, req, refused, unsure, crashes>>

\* It does not: the next attempt, or the end of the process after the last one.
CreateTablesFails ==
  /\ process = "connect" /\ Fault
  /\ attempt' = attempt + 1
  /\ process' = IF attempt' = Retries THEN "down" ELSE "connect"
  /\ UNCHANGED <<db, seed, req, refused, unsure, crashes>>

\* The extension and the hypertable are created; a failure here is not tried again.
Extend ==
  /\ process = "extend"
  /\ \/ process' = "look" /\ NoFault
     \/ process' = "down" /\ Fault
  /\ UNCHANGED <<db, attempt, seed, req, refused, unsure, crashes>>
--------------------------------------------------------------------------------
(* seed_if_empty *)

\* A wrong variant: the rows are added at every start.
SeedAlways ==
  /\ process = "look"
  /\ process' = "seed" /\ seed' = [NoSeed EXCEPT !.block = 1, !.new = Blocks[1]] /\ NoFault
  /\ UNCHANGED <<db, attempt, req, refused, unsure, crashes>>

\* The database is seeded if it has no demo organization.
Look ==
  /\ process = "look"
  /\ \/ /\ Org \in db /\ process' = "serve" /\ UNCHANGED seed /\ NoFault
     \/ /\ Org \notin db /\ process' = "seed" /\ NoFault
        /\ seed' = [NoSeed EXCEPT !.block = 1, !.new = Blocks[1]]
     \/ process' = "down" /\ UNCHANGED seed /\ Fault
  /\ UNCHANGED <<db, attempt, req, refused, unsure, crashes>>

\* The flush under way inserts a row: any that has no parent left to insert.
SeedInsert(row) ==
  /\ row \in seed.new
  /\ row.table \in DOMAIN Parent => \A other \in seed.new : other.table # Parent[row.table]
  /\ LET there == db \cup seed.inserted
     IN  IF row \notin there /\ Refs(row, Template(0, row.n)) \subseteq there
           THEN /\ seed' = [seed EXCEPT !.new = @ \ {row}, !.inserted = @ \cup {row}]
                /\ UNCHANGED <<process, refused>>
           ELSE /\ process' = "down" /\ seed' = NoSeed /\ refused' = refused \cup {row}
  /\ UNCHANGED <<db, attempt, req, unsure, faults, crashes>>

\* The connection fails: the exception ends the start, and the process.
SeedFails ==
  /\ process = "seed" /\ Fault
  /\ process' = "down" /\ seed' = NoSeed
  /\ UNCHANGED <<db, attempt, req, refused, unsure, crashes>>

\* A wrong variant: each part is committed.
SeedCommitsParts ==
  /\ process = "seed" /\ seed.new = {} /\ seed.block < Len(Blocks)
  /\ db' = db \cup seed.inserted
  /\ seed' = [seed EXCEPT !.block = @ + 1, !.new = Blocks[seed.block + 1]]
  /\ UNCHANGED <<process, attempt, req, refused, unsure, faults, crashes>>

\* The flush is done, and the next part is added.
SeedGoesOn ==
  /\ process = "seed" /\ seed.new = {} /\ seed.block < Len(Blocks)
  /\ seed' = [seed EXCEPT !.block = @ + 1, !.new = Blocks[seed.block + 1]]
  /\ UNCHANGED <<db, process, attempt, req, refused, unsure, faults, crashes>>

\* The one commit; reported as failed, it may have taken effect.
SeedCommit ==
  /\ process = "seed" /\ seed.new = {} /\ seed.block = Len(Blocks)
  /\ seed' = NoSeed
  /\ \/ db' = db \cup seed.inserted /\ process' = "serve" /\ NoFault
     \/ db' \in {db, db \cup seed.inserted} /\ process' = "down" /\ Fault
  /\ UNCHANGED <<attempt, req, refused, unsure, crashes>>
--------------------------------------------------------------------------------
(* The requests *)

\* Request u begins: the next one, with a session of its own.
Begins(u, q) ==
  /\ process = "serve" /\ req[u] = Unsent /\ \A v \in 1..u-1 : req[v] # Unsent
  /\ req' = [req EXCEPT ![u] = q]
  /\ UNCHANGED <<db, process, attempt, seed, refused, unsure, crashes>>

Session(kind, st, template, lines, inserted) ==
  [kind |-> kind, st |-> st, template |-> template, lines |-> lines, next |-> 1,
   inserted |-> inserted, failed |-> FALSE, created |-> {}, errors |-> {}]

\* Request u ends with an answer.
Answered(u, st) == req' = [req EXCEPT ![u].st = st, ![u].inserted = {}]

\* The session of request u commits its rows.  The commit, or the refresh that follows it
\* in some handlers, may fail; the rows may be there all the same.
Commits(u, rows) ==
  /\ \/ db' = db \cup rows /\ Answered(u, "ok") /\ NoFault /\ UNCHANGED unsure
     \/ db' = db /\ Answered(u, "error") /\ Fault /\ UNCHANGED unsure
     \/ db' = db \cup rows /\ Answered(u, "error") /\ Fault /\ unsure' = unsure \cup {u}
  /\ UNCHANGED <<process, attempt, seed, refused, crashes>>

\* A wrong variant: the template is committed for its id.
CommitsTemplateFirst(u) ==
  /\ NoFault
  /\ process = "serve" /\ req[u] = Unsent /\ \A v \in 1..u-1 : req[v] # Unsent
  /\ req' = [req EXCEPT ![u] = Session("template", "open", Template(u, 1), <<>>, {})]
  /\ db' = db \cup {Template(u, 1)}
  /\ UNCHANGED <<process, attempt, seed, refused, unsure, crashes>>

\* create_template: the template is flushed for its id.
CreateTemplate(u) ==
  \/ NoFault /\ Begins(u, Session("template", "open", Template(u, 1), <<>>, {Template(u, 1)}))
  \/ Fault /\ Begins(u, Session("template", "error", Template(u, 1), <<>>, {}))

\* Its tags are added and everything is committed.
CommitTemplate(u) ==
  /\ req[u].st = "open" /\ req[u].kind = "template"
  /\ Commits(u, req[u].inserted \cup {TemplateTags(u, 1)})

\* Device n of request u, with the copies of the tags its template has by now.
FromTemplate(u, n, template) ==
  {Device(u, n)} \cup
    IF TemplateTags(template.of, template.n) \in db THEN {DeviceTags(u, n)} ELSE {}

\* create_instance: the template's tags are copied; an unknown template is rejected, and
\* references the client made up are refused by the database.
CreateInstance(u) ==
  /\ NoFault
  /\ \/ \E template \in Templates :
          Begins(u, Session("single", "open", template, <<>>, FromTemplate(u, 1, template)))
     \/ Begins(u, Session("single", "rejected", Template(u, 1), <<>>, {}))
     \/ Begins(u, Session("single", "error", Template(u, 1), <<>>, {}))

CommitInstance(u) ==
  /\ req[u].st = "open" /\ req[u].kind = "single"
  /\ Commits(u, req[u].inserted)

\* bulk_create_from_csv: the template is looked up and the file read.
StartBulk(u) ==
  /\ NoFault
  /\ \/ \E template \in Templates, n \in Lines : \E lines \in [1..n -> LineKinds] :
          Begins(u, Session("bulk", "open", template, lines, {}))
     \/ Begins(u, Session("bulk", "rejected", Template(u, 1), <<>>, {}))

Reading(u) == req[u].st = "open" /\ req[u].kind = "bulk" /\ req[u].next <= Len(req[u].lines)

\* A wrong variant: the transaction is rolled back for the lines to come.
LineRollsBack(u, failed) ==
  req' = [req EXCEPT ![u].next = @ + 1, ![u].errors = @ \cup {req[u].next},
                     ![u].inserted = IF failed THEN {} ELSE @]

\* The line at hand becomes an error of the answer; "failed": the session is of no use.
LineFails(u, failed) ==
  req' = [req EXCEPT ![u].next = @ + 1, ![u].errors = @ \cup {req[u].next},
                     ![u].failed = failed, ![u].inserted = IF failed THEN {} ELSE @]

\* The line is flushed: a device and the copies of its template's tags.
LineCreates(u) ==
  LET n == req[u].next
  IN  req' = [req EXCEPT ![u].next = @ + 1, ![u].created = @ \cup {n},
                         ![u].inserted = @ \cup FromTemplate(u, n, req[u].template)]

\* The next line: it cannot be read (a port that is no number) and touches no session, or
\* the database refuses it (a name that is missing from a short line, or holds a NUL), or
\* the session failed at an earlier line, or the connection fails now, or it is created.
ReadLine(u) ==
  /\ Reading(u)
  /\ LET line == req[u].lines[req[u].next]
     IN  \/ req[u].failed /\ LineFails(u, TRUE) /\ NoFault
         \/ ~req[u].failed /\ line = "unparsable" /\ LineFails(u, FALSE) /\ NoFault
         \/ ~req[u].failed /\ line = "refused" /\ LineFails(u, TRUE) /\ NoFault
         \/ ~req[u].failed /\ line = "good" /\ LineCreates(u) /\ NoFault
         \/ ~req[u].failed /\ line # "unparsable" /\ LineFails(u, TRUE) /\ Fault
  /\ UNCHANGED <<db, process, attempt, seed, refused, unsure, crashes>>

\* After the last line: one commit, which raises if the session failed.
CommitBulk(u) ==
  /\ req[u].st = "open" /\ req[u].kind = "bulk" /\ ~Reading(u)
  /\ \/ ~req[u].failed /\ Commits(u, req[u].inserted)
     \/ /\ req[u].failed /\ Answered(u, "error") /\ NoFault
        /\ UNCHANGED <<db, process, attempt, seed, refused, unsure, crashes>>

\* The backend dies: open transactions are rolled back.
Crash ==
  /\ process # "down" /\ crashes < MaxCrashes
  /\ crashes' = crashes + 1
  /\ process' = "down" /\ seed' = NoSeed
  /\ req' = [u \in RequestIds |->
               IF req[u].st = "open" THEN [req[u] EXCEPT !.st = "cut", !.inserted = {}] ELSE req[u]]
  /\ UNCHANGED <<db, attempt, refused, unsure, faults>>

StartStep ==
  \/ Boot \/ CreateTables \/ CreateTablesFails \/ Extend \/ Look
  \/ \E row \in seed.new : SeedInsert(row)
  \/ SeedFails \/ SeedGoesOn \/ SeedCommit

Next ==
  \/ StartStep
  \/ \E u \in RequestIds :
       \/ CreateTemplate(u) \/ CommitTemplate(u) \/ CreateInstance(u) \/ CommitInstance(u)
       \/ StartBulk(u) \/ ReadLine(u) \/ CommitBulk(u)
  \/ Crash

Spec == Init /\ [][Next]_vars

\* Somebody starts the backend again, and its start goes on.
FairSpec == Spec /\ WF_vars(StartStep)
--------------------------------------------------------------------------------
(* Properties *)

\* In whatever order a flush writes its rows, the seed never offends a key: each part is
\* flushed after what it refers to, and no start adds it again.
SeedNeverRefused == refused = {}

\* A start that is cut short leaves no part of the seed behind, which the next start
\* would take for the whole: it looks for the organization only.
SeedAllOrNothing == db \cap SeedRows \in {{}, SeedRows}

\* The devices a gateway is told of, with the tags it is told to read.
Config == {row \in db : row.table = "device_instances"}

\* A gateway is never told of a device whose tags are not there yet: it would connect,
\* know the device from then on, and never look at its configuration again.
ConfigComplete == \A device \in Config : DeviceTags(device.of, device.n) \in db

\* The answer to an upload is true: with 200 the devices of "created" are all in the
\* database, the other lines all have their error; without it nothing is there, but for
\* a commit whose outcome got lost.  Until then others see no part of it.
AnswerTruthful ==
  \A u \in RequestIds :
    LET stored == {row.n : row \in {row \in Config : row.of = u}}
    IN  /\ req[u].st \notin {"ok"} => stored = {} \/ u \in unsure
        /\ req[u].kind = "bulk" /\ req[u].st = "ok" =>
             /\ stored = req[u].created
             /\ req[u].errors = DOMAIN req[u].lines \ req[u].created

\* However often it dies or the database is away while it starts, the backend serves in
\* the end, if only it is started again.
ServesInTheEnd == process # "serve" ~> process = "serve"

\* One bad line does not block the others: when an upload is done, what can be created is.
LinesIndependent ==
  \A u \in RequestIds :
    req[u].kind = "bulk" /\ req[u].st \in {"ok", "error"} =>
      \A n \in DOMAIN req[u].lines : req[u].lines[n] = "good" => Device(u, n) \in db
================================================================================
