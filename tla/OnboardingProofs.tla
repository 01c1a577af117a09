--------------------------- MODULE OnboardingProofs ----------------------------
(***************************************************************************)
(* Proofs about the database's start and the requests that fill it, for    *)
(* any number of attempts, requests, lines, failures and crashes: the seed *)
(* never offends a key and is there whole or not at all, gateways see      *)
(* whole devices, and answers say what is stored.                          *)
(***************************************************************************)
EXTENDS Onboarding, SequenceTheorems, TLAPS

\* The rows of the first n parts of the seed.
Added(n) == UNION {Blocks[i] : i \in 1..n}

--------------------------------------------------------------------------------
(* The rows of the seed *)

LEMMA RowFields ==
  \A table, of, n : /\ Row(table, of, n).table = table
                    /\ Row(table, of, n).of = of
                    /\ Row(table, of, n).n = n
BY DEF Row

LEMMA BlocksAre ==
  /\ Len(Blocks) = 9 /\ DOMAIN Blocks = 1..9
  /\ Blocks[1] = {Org} /\ Blocks[2] = {Site} /\ Blocks[3] = {Gateway}
  /\ Blocks[4] = {Template(0, 1)} /\ Blocks[5] = {TemplateTags(0, 1), Template(0, 2)}
  /\ Blocks[6] = {TemplateTags(0, 2)} /\ Blocks[7] = {Device(0, 1)}
  /\ Blocks[8] = {DeviceTags(0, 1), Device(0, 2)} /\ Blocks[9] = {DeviceTags(0, 2)}
BY DEF Blocks

LEMMA AddedGrows ==
  /\ Added(0) = {}
  /\ \A b \in Nat : Added(b + 1) = Added(b) \cup Blocks[b + 1]
<1>1. Added(0) = {}
  BY DEF Added
<1>2. ASSUME NEW b \in Nat PROVE Added(b + 1) = Added(b) \cup Blocks[b + 1]
  <2>1. 1..(b + 1) = (1..b) \cup {b + 1}
    OBVIOUS
  <2> QED
    BY <2>1 DEF Added
<1> QED
  BY <1>1, <1>2

LEMMA AddedAre ==
  /\ Added(0) = {} /\ Added(1) = {Org} /\ Added(2) = {Org, Site}
  /\ Added(3) = {Org, Site, Gateway} /\ Added(4) = {Org, Site, Gateway, Template(0, 1)}
  /\ Added(5) = {Org, Site, Gateway, Template(0, 1), TemplateTags(0, 1), Template(0, 2)}
  /\ Added(6) = Added(5) \cup {TemplateTags(0, 2)}
  /\ Added(7) = Added(6) \cup {Device(0, 1)}
  /\ Added(8) = Added(7) \cup {DeviceTags(0, 1), Device(0, 2)}
  /\ Added(9) = Added(8) \cup {DeviceTags(0, 2)}
<1>0. \A b \in 0..8 : Added(b + 1) = Added(b) \cup Blocks[b + 1]
  BY AddedGrows
<1>1. Added(1) = {Org} /\ Added(2) = {Org, Site} /\ Added(3) = {Org, Site, Gateway}
  BY <1>0, AddedGrows, BlocksAre
<1>2. /\ Added(4) = {Org, Site, Gateway, Template(0, 1)}
      /\ Added(5) = {Org, Site, Gateway, Template(0, 1), TemplateTags(0, 1), Template(0, 2)}
  BY <1>0, <1>1, BlocksAre
<1>3. /\ Added(6) = Added(5) \cup {TemplateTags(0, 2)}
      /\ Added(7) = Added(6) \cup {Device(0, 1)}
  BY <1>0, BlocksAre
<1>4. /\ Added(8) = Added(7) \cup {DeviceTags(0, 1), Device(0, 2)}
      /\ Added(9) = Added(8) \cup {DeviceTags(0, 2)}
  BY <1>0, BlocksAre
<1> QED
  BY <1>1, <1>2, <1>3, <1>4, AddedGrows

LEMMA AllAdded == Added(Len(Blocks)) = SeedRows /\ \A b \in 1..Len(Blocks) : Added(b) \subseteq SeedRows
BY BlocksAre DEF Added, SeedRows, ToSet

\* Each part refers only to parts before it, and adds nothing twice.
LEMMA PartsInOrder ==
  \A b \in 1..Len(Blocks) : \A row \in Blocks[b] :
    row \notin Added(b - 1) /\ Refs(row, Template(0, row.n)) \subseteq Added(b - 1)
<1> USE DEF Org, Site, Gateway, Template, TemplateTags, Device, DeviceTags
<1>1. ASSUME NEW b \in 1..3, NEW row \in Blocks[b]
      PROVE  row \notin Added(b - 1) /\ Refs(row, Template(0, row.n)) \subseteq Added(b - 1)
  BY <1>1, BlocksAre, AddedAre, RowFields DEF Refs
<1>2. ASSUME NEW b \in 4..6, NEW row \in Blocks[b]
      PROVE  row \notin Added(b - 1) /\ Refs(row, Template(0, row.n)) \subseteq Added(b - 1)
  BY <1>2, BlocksAre, AddedAre, RowFields DEF Refs
<1>3. ASSUME NEW b \in 7..9, NEW row \in Blocks[b]
      PROVE  row \notin Added(b - 1) /\ Refs(row, Template(0, row.n)) \subseteq Added(b - 1)
  BY <1>3, BlocksAre, AddedAre, RowFields DEF Refs
<1> QED
  BY <1>1, <1>2, <1>3, BlocksAre

\* The seed's templates and devices come with their tags, and all its rows are the seed's.
LEMMA SeedComplete ==
  /\ Org \in SeedRows
  /\ \A row \in SeedRows :
       /\ row.of = 0
       /\ row.table = "device_templates" => TemplateTags(row.of, row.n) \in SeedRows
       /\ row.table = "device_instances" => DeviceTags(row.of, row.n) \in SeedRows
<1> USE DEF Org, Site, Gateway, Template, TemplateTags, Device, DeviceTags
<1>1. SeedRows = {Org, Site, Gateway, Template(0, 1), TemplateTags(0, 1), Template(0, 2),
                  TemplateTags(0, 2), Device(0, 1), DeviceTags(0, 1), Device(0, 2),
                  DeviceTags(0, 2)}
  BY AllAdded, AddedAre, BlocksAre
<1>2. Org \in SeedRows
  BY <1>1
<1>3. \A row \in SeedRows : row.of = 0
  BY <1>1, RowFields
<1>4. ASSUME NEW row \in SeedRows, row.table = "device_templates"
      PROVE  TemplateTags(row.of, row.n) \in SeedRows
  BY <1>1, <1>4, RowFields
<1>5. ASSUME NEW row \in SeedRows, row.table = "device_instances"
      PROVE  DeviceTags(row.of, row.n) \in SeedRows
  BY <1>1, <1>5, RowFields
<1> QED
  BY <1>1, <1>2, <1>3, <1>4, <1>5
--------------------------------------------------------------------------------
(* The inductive invariant *)

\* The seed is committed whole or not at all; while it is under way nothing of it is
\* committed, the earlier parts are inserted, and the rest of this part is still new.
SeedInv ==
  /\ SeedAllOrNothing /\ SeedNeverRefused
  /\ process # "seed" => seed = NoSeed
  /\ process = "seed" =>
       /\ db \cap SeedRows = {}
       /\ seed.block \in 1..Len(Blocks)
       /\ seed = [block |-> seed.block, new |-> seed.new, inserted |-> seed.inserted]
       /\ seed.new \cup seed.inserted = Added(seed.block)
       /\ seed.new \subseteq Blocks[seed.block]
       /\ Added(seed.block - 1) \subseteq seed.inserted
       /\ seed.new \cap seed.inserted = {}

\* What is committed is complete: templates and devices with their tags.
CompleteInv ==
  /\ \A row \in db : row.table = "device_templates" => TemplateTags(row.of, row.n) \in db
  /\ ConfigComplete

\* The numbers of the devices among rows.
Numbers(rows) == {row.n : row \in {row \in rows : row.table = "device_instances"}}
Stored(u) == Numbers({row \in db : row.of = u})

Fields == {"kind", "st", "template", "lines", "next", "inserted", "failed", "created", "errors"}
IsSession(q) == q = [f \in Fields |-> q[f]]

\* An open session q of request u holds rows of its own, devices with their tags; that
\* of an upload has an entry for each line it has read.
OpenInv(q, u) ==
  /\ IsSession(q)
  /\ q.kind \in {"template", "single", "bulk"}
  /\ \A row \in q.inserted :
       /\ row.of = u
       /\ row.table = "device_instances" => DeviceTags(u, row.n) \in q.inserted
       /\ row.table = "device_templates" => q.kind = "template" /\ row.n = 1
  /\ q.kind = "bulk" =>
       /\ q.lines \in Seq(LineKinds) /\ q.next \in 1..Len(q.lines) + 1
       /\ q.created \subseteq 1..q.next - 1
       /\ q.errors = (1..q.next - 1) \ q.created
       /\ q.failed \in BOOLEAN
       /\ ~q.failed => Numbers(q.inserted) = q.created

\* What the answer to a request may say: of the devices stored for it, unless its
\* commit's outcome got lost.
AnswerInv(q, stored, lost) ==
  /\ q.st \in {"new", "open"} => stored = {} /\ ~lost
  /\ q.st # "ok" => stored = {} \/ lost
  /\ q.kind = "bulk" /\ q.st = "ok" =>
       stored = q.created /\ q.errors = DOMAIN q.lines \ q.created

RequestInv ==
  /\ req = [u \in RequestIds |-> req[u]]
  /\ \A u \in RequestIds :
       /\ AnswerInv(req[u], Stored(u), u \in unsure)
       /\ req[u].st = "open" => /\ OpenInv(req[u], u)
                                /\ req[u].kind = "bulk" => req[u].template \in Templates

StoreInv == SeedInv /\ CompleteInv /\ RequestInv

--------------------------------------------------------------------------------
(* Lemmas *)

LEMMA DeviceFields ==
  \A u, n : /\ Device(u, n).table = "device_instances" /\ Device(u, n).of = u
            /\ Device(u, n).n = n
            /\ DeviceTags(u, n).table = "device_instance_tags" /\ DeviceTags(u, n).of = u
            /\ Template(u, n).table = "device_templates" /\ Template(u, n).of = u
            /\ Template(u, n).n = n
            /\ TemplateTags(u, n).table = "template_tags" /\ TemplateTags(u, n).of = u
BY RowFields DEF Device, DeviceTags, Template, TemplateTags

\* Rows of request v are no news of the others.
LEMMA StoredGrows ==
  ASSUME NEW rows, NEW v, \A row \in rows : row.of = v, db' = db \cup rows
  PROVE  /\ \A u : u # v => Stored(u)' = Stored(u)
         /\ Stored(v)' = Stored(v) \cup Numbers(rows)
<1>1. \A u : u # v => {row \in db' : row.of = u} = {row \in db : row.of = u}
  OBVIOUS
<1>2. {row \in db' : row.of = v} = {row \in db : row.of = v} \cup rows
  OBVIOUS
<1>3. \A a, b : Numbers(a \cup b) = Numbers(a) \cup Numbers(b)
  BY DEF Numbers
<1> QED
  BY <1>1, <1>2, <1>3 DEF Stored

\* The rows of a request are none of the seed's.
LEMMA OwnRows ==
  ASSUME NEW u \in RequestIds, NEW rows, \A row \in rows : row.of = u
  PROVE  rows \cap SeedRows = {}
BY SeedComplete DEF RequestIds

\* Steps of the start leave the requests and the database alone.
LEMMA Frame ==
  ASSUME CompleteInv, RequestInv, UNCHANGED <<db, req, unsure>>
  PROVE  CompleteInv' /\ RequestInv'
<1>1. Templates' = Templates /\ \A u : Stored(u)' = Stored(u)
  BY DEF Templates, Stored
<1>2. RequestInv'
  BY <1>1 DEF RequestInv
<1>3. CompleteInv'
  BY DEF CompleteInv, ConfigComplete, Config
<1> QED
  BY <1>2, <1>3

\* The request u moves, and commits nothing.
LEMMA Moves ==
  ASSUME StoreInv, NEW u \in RequestIds, req[u].st \in {"new", "open"},
         NEW q, req' = [req EXCEPT ![u] = q],
         q.st \in {"open", "rejected", "error", "cut"},
         q.st = "open" => OpenInv(q, u) /\ (q.kind = "bulk" => q.template \in Templates),
         UNCHANGED <<db, process, seed, refused, unsure>>
  PROVE  StoreInv'
<1>1. SeedInv' /\ CompleteInv'
  BY DEF StoreInv, SeedInv, CompleteInv, SeedAllOrNothing, SeedNeverRefused, ConfigComplete, Config
<1>2. /\ req' = [v \in RequestIds |-> req'[v]]
      /\ req'[u] = q /\ \A v \in RequestIds : v # u => req'[v] = req[v]
  BY DEF StoreInv, RequestInv
<1>3. Templates' = Templates /\ \A v : Stored(v)' = Stored(v)
  BY DEF Stored, Templates
<1>4. Stored(u) = {} /\ u \notin unsure
  BY DEF StoreInv, RequestInv, AnswerInv
<1>5. AnswerInv(q, Stored(u)', u \in unsure')
  BY <1>3, <1>4 DEF AnswerInv
<1>6. RequestInv'
  BY <1>2, <1>3, <1>5 DEF StoreInv, RequestInv
<1> QED
  BY <1>1, <1>6 DEF StoreInv

\* The request u commits its rows, or learns that it could not.
LEMMA CommitKeeps ==
  ASSUME StoreInv, NEW u \in RequestIds, req[u].st = "open", NEW rows,
         \A row \in rows :
           /\ row.of = u
           /\ row.table = "device_instances" => DeviceTags(u, row.n) \in rows
           /\ row.table = "device_templates" => TemplateTags(u, row.n) \in rows,
         req[u].kind = "bulk" => /\ Numbers(rows) = req[u].created
                                 /\ req[u].errors = DOMAIN req[u].lines \ req[u].created,
         Commits(u, rows)
  PROVE  StoreInv'
<1>1. PICK end \in {"ok", "error"} :
        /\ Answered(u, end)
        /\ UNCHANGED <<process, seed, refused>>
        /\ \/ db' = db \cup rows /\ ((end = "ok" /\ UNCHANGED unsure) \/ unsure' = unsure \cup {u})
           \/ db' = db /\ end = "error" /\ UNCHANGED unsure
  BY DEF Commits
<1>s. db' = db \cup rows \/ db' = db \cup {}
  BY <1>1
<1>o. rows \cap SeedRows = {}
  BY OwnRows
<1>2. SeedInv'
  <2>1. db' \cap SeedRows = db \cap SeedRows
    BY <1>s, <1>o
  <2> QED
    BY <1>1, <2>1 DEF StoreInv, SeedInv, SeedAllOrNothing, SeedNeverRefused
<1>3. CompleteInv'
  <2>1. CASE db' = db
    BY <2>1 DEF StoreInv, CompleteInv, ConfigComplete, Config
  <2>2. CASE db' = db \cup rows
    BY <2>2 DEF StoreInv, CompleteInv, ConfigComplete, Config
  <2> QED
    BY <1>1, <2>1, <2>2
<1>4. /\ req' = [v \in RequestIds |-> req'[v]]
      /\ req'[u].st = end /\ req'[u].kind = req[u].kind /\ req'[u].created = req[u].created
      /\ req'[u].errors = req[u].errors /\ req'[u].lines = req[u].lines
      /\ \A v \in RequestIds : v # u => req'[v] = req[v]
  <2>1. IsSession(req[u]) /\ req = [v \in RequestIds |-> req[v]]
    BY DEF StoreInv, RequestInv, OpenInv
  <2>2. req' = [req EXCEPT ![u] = [req[u] EXCEPT !.st = end, !.inserted = {}]]
    BY <1>1, <2>1 DEF Answered
  <2>3. LET q == [req[u] EXCEPT !.st = end, !.inserted = {}]
        IN  /\ q.st = end /\ q.kind = req[u].kind /\ q.created = req[u].created
            /\ q.errors = req[u].errors /\ q.lines = req[u].lines
    BY <2>1 DEF IsSession, Fields
  <2> QED
    BY <2>1, <2>2, <2>3
<1>5. /\ Stored(u) = {} /\ u \notin unsure
  BY DEF StoreInv, RequestInv, AnswerInv
<1>6. /\ \A v \in RequestIds : v # u => Stored(v)' = Stored(v)
      /\ db' = db \cup rows => Stored(u)' = Numbers(rows)
      /\ db' = db => Stored(u)' = {}
  <2>1. db' = db => \A v : Stored(v)' = Stored(v)
    BY DEF Stored
  <2>2. db' = db \cup rows => /\ \A v \in RequestIds : v # u => Stored(v)' = Stored(v)
                              /\ Stored(u)' = Stored(u) \cup Numbers(rows)
    BY StoredGrows
  <2> QED
    BY <1>1, <1>5, <2>1, <2>2
<1>7. AnswerInv(req'[u], Stored(u)', u \in unsure')
  BY <1>1, <1>4, <1>5, <1>6 DEF AnswerInv
<1>8. \A v \in RequestIds : v # u => (v \in unsure' <=> v \in unsure)
  BY <1>1
<1>9. Templates \subseteq Templates'
  BY <1>1 DEF Templates
<1>10. ASSUME NEW v \in RequestIds
       PROVE  /\ AnswerInv(req'[v], Stored(v)', v \in unsure')
              /\ req'[v].st = "open" => /\ OpenInv(req'[v], v)
                                        /\ req'[v].kind = "bulk" => req'[v].template \in Templates'
  <2>1. CASE v = u
    BY <1>1, <1>4, <1>7, <2>1
  <2>2. CASE v # u
    <3>1. /\ AnswerInv(req[v], Stored(v), v \in unsure)
          /\ req[v].st = "open" => /\ OpenInv(req[v], v)
                                   /\ req[v].kind = "bulk" => req[v].template \in Templates
      BY DEF StoreInv, RequestInv
    <3>2. req'[v] = req[v] /\ Stored(v)' = Stored(v) /\ (v \in unsure' <=> v \in unsure)
      BY <1>4, <1>6, <1>8, <2>2
    <3>3. AnswerInv(req[v], Stored(v), v \in unsure')
      BY <3>1, <3>2 DEF AnswerInv
    <3> QED
      BY <1>9, <3>1, <3>2, <3>3
  <2> QED
    BY <2>1, <2>2
<1>11. RequestInv'
  BY <1>4, <1>10 DEF RequestInv
<1> QED
  BY <1>2, <1>3, <1>11 DEF StoreInv

--------------------------------------------------------------------------------
(* The requests *)

\* The copies of a complete template's tags make a complete device.
LEMMA FromTemplateRows ==
  ASSUME CompleteInv, NEW u, NEW n, NEW template \in Templates
  PROVE  /\ FromTemplate(u, n, template) = {Device(u, n), DeviceTags(u, n)}
         /\ Numbers(FromTemplate(u, n, template)) = {n}
<1>1. TemplateTags(template.of, template.n) \in db
  BY DEF CompleteInv, Templates
<1>2. FromTemplate(u, n, template) = {Device(u, n), DeviceTags(u, n)}
  BY <1>1 DEF FromTemplate
<1>3. Numbers({Device(u, n), DeviceTags(u, n)}) = {n}
  BY DeviceFields DEF Numbers
<1> QED
  BY <1>2, <1>3

LEMMA CommitsKeep ==
  ASSUME StoreInv, NEW u \in RequestIds,
         CommitTemplate(u) \/ CommitInstance(u) \/ CommitBulk(u)
  PROVE  StoreInv'
<1>0. req[u].st = "open"
  BY DEF CommitTemplate, CommitInstance, CommitBulk
<1>1. OpenInv(req[u], u)
  BY <1>0 DEF StoreInv, RequestInv
<1>2. CASE CommitTemplate(u)
  <2> DEFINE rows == req[u].inserted \cup {TemplateTags(u, 1)}
  <2>1. /\ req[u].kind = "template" /\ Commits(u, rows)
    BY <1>2 DEF CommitTemplate
  <2>2. \A row \in rows :
          /\ row.of = u
          /\ row.table = "device_instances" => DeviceTags(u, row.n) \in rows
          /\ row.table = "device_templates" => TemplateTags(u, row.n) \in rows
    BY <1>1, DeviceFields DEF OpenInv
  <2> HIDE DEF rows
  <2> QED
    BY <1>0, <2>1, <2>2, CommitKeeps
<1>3. ASSUME req[u].kind # "template", Commits(u, req[u].inserted),
             req[u].kind = "bulk" => ~req[u].failed /\ req[u].next > Len(req[u].lines)
      PROVE  StoreInv'
  <2>1. \A row \in req[u].inserted :
          /\ row.of = u
          /\ row.table = "device_instances" => DeviceTags(u, row.n) \in req[u].inserted
          /\ row.table = "device_templates" => TemplateTags(u, row.n) \in req[u].inserted
    BY <1>1, <1>3 DEF OpenInv
  <2>2. ASSUME req[u].kind = "bulk"
        PROVE  /\ Numbers(req[u].inserted) = req[u].created
               /\ req[u].errors = DOMAIN req[u].lines \ req[u].created
    <3>1. DOMAIN req[u].lines = 1..Len(req[u].lines) /\ Len(req[u].lines) \in Nat
      BY <1>1, <2>2, LenProperties DEF OpenInv
    <3>2. req[u].next - 1 = Len(req[u].lines)
      BY <1>1, <1>3, <2>2, <3>1 DEF OpenInv
    <3> QED
      BY <1>1, <1>3, <2>2, <3>1, <3>2 DEF OpenInv
  <2> QED
    BY <1>0, <1>3, <2>1, <2>2, CommitKeeps
<1>4. CASE CommitInstance(u)
  BY <1>3, <1>4 DEF CommitInstance
<1>5. CASE CommitBulk(u)
  <2>1. /\ req[u].kind = "bulk"
        /\ Len(req[u].lines) \in Nat /\ req[u].next \in Nat
        /\ ~(req[u].next <= Len(req[u].lines))
    <3>1. req[u].kind = "bulk" /\ ~(req[u].next <= Len(req[u].lines))
      BY <1>5 DEF CommitBulk, Reading
    <3>2. Len(req[u].lines) \in Nat
      BY <1>1, <3>1, LenProperties DEF OpenInv
    <3> QED
      BY <1>1, <3>1, <3>2 DEF OpenInv
  <2>2. CASE ~req[u].failed /\ Commits(u, req[u].inserted)
    BY <1>3, <2>1, <2>2
  <2>3. CASE /\ Answered(u, "error")
             /\ UNCHANGED <<db, process, attempt, seed, refused, unsure, crashes>>
    <3> DEFINE q == [req[u] EXCEPT !.st = "error", !.inserted = {}]
    <3>1. req' = [req EXCEPT ![u] = q]
      BY <2>3 DEF Answered, StoreInv, RequestInv
    <3>2. q.st = "error"
      BY <1>1 DEF OpenInv, IsSession, Fields
    <3> HIDE DEF q
    <3> QED
      BY <1>0, <2>3, <3>1, <3>2, Moves
  <2> QED
    BY <1>5, <2>2, <2>3 DEF CommitBulk
<1> QED
  BY <1>2, <1>4, <1>5

LEMMA SessionFields ==
  ASSUME NEW kind, NEW st, NEW template, NEW lines, NEW inserted
  PROVE  LET q == Session(kind, st, template, lines, inserted)
         IN  /\ IsSession(q)
             /\ q.kind = kind /\ q.st = st /\ q.template = template /\ q.lines = lines
             /\ q.next = 1 /\ q.inserted = inserted /\ q.failed = FALSE
             /\ q.created = {} /\ q.errors = {}
BY DEF Session, IsSession, Fields

\* A request begins with a session as its handler leaves it at the first await or commit.
LEMMA BeginKeeps ==
  ASSUME StoreInv, NEW u \in RequestIds, NEW kind \in {"template", "single", "bulk"},
         NEW st \in {"open", "rejected", "error"}, NEW template, NEW lines, NEW inserted,
         Begins(u, Session(kind, st, template, lines, inserted)),
         st = "open" =>
           /\ \A row \in inserted :
                /\ row.of = u
                /\ row.table = "device_instances" => DeviceTags(u, row.n) \in inserted
                /\ row.table = "device_templates" => kind = "template" /\ row.n = 1
           /\ kind = "bulk" => /\ template \in Templates
                               /\ lines \in Seq(LineKinds) /\ inserted = {}
  PROVE  StoreInv'
<1> DEFINE q == Session(kind, st, template, lines, inserted)
<1>1. /\ IsSession(q)
      /\ q.kind = kind /\ q.st = st /\ q.template = template /\ q.lines = lines
      /\ q.next = 1 /\ q.inserted = inserted /\ q.failed = FALSE
      /\ q.created = {} /\ q.errors = {}
  BY SessionFields
<1>2. /\ req' = [req EXCEPT ![u] = q] /\ req[u].st = "new"
      /\ UNCHANGED <<db, process, seed, refused, unsure>>
  BY DEF Begins, Unsent
<1> HIDE DEF q
<1>3. Numbers({}) = {}
  BY DEF Numbers
<1>4. kind = "bulk" /\ st = "open" => Len(lines) \in Nat
  BY LenProperties
<1>5. ASSUME st = "open", kind = "bulk"
      PROVE  /\ q.lines \in Seq(LineKinds) /\ q.next \in 1..Len(q.lines) + 1
             /\ q.created \subseteq 1..q.next - 1
             /\ q.errors = (1..q.next - 1) \ q.created
             /\ Numbers(q.inserted) = q.created
  <2>1. q.next - 1 = 0 /\ 1..0 = {}
    BY <1>1
  <2>2. 1..q.next - 1 = {}
    BY <2>1
  <2>3. q.inserted = {} /\ q.created = {} /\ q.errors = {} /\ q.lines \in Seq(LineKinds)
    BY <1>1, <1>5
  <2>4. Numbers(q.inserted) = q.created
    BY <1>3, <2>3
  <2>5. q.next \in 1..Len(q.lines) + 1
    <3>1. q.next = 1 /\ Len(q.lines) \in Nat
      BY <1>1, <1>4, <1>5
    <3> QED
      BY <3>1
  <2> QED
    BY <2>2, <2>3, <2>4, <2>5
<1>6. st = "open" => OpenInv(q, u)
  BY <1>1, <1>5 DEF OpenInv
<1>7. st = "open" /\ q.kind = "bulk" => q.template \in Templates
  BY <1>1
<1> QED
  BY <1>1, <1>2, <1>6, <1>7, Moves

LEMMA BeginsKeep ==
  ASSUME StoreInv, NEW u \in RequestIds,
         CreateTemplate(u) \/ CreateInstance(u) \/ StartBulk(u)
  PROVE  StoreInv'
<1>1. CASE CreateTemplate(u)
  <2>1. \A row \in {Template(u, 1)} :
          row.of = u /\ row.table = "device_templates" /\ row.n = 1
    BY DeviceFields
  <2> QED
    BY <1>1, <2>1, BeginKeeps DEF CreateTemplate
<1>2. CASE CreateInstance(u)
  <2>1. ASSUME NEW template \in Templates,
               Begins(u, Session("single", "open", template, <<>>, FromTemplate(u, 1, template)))
        PROVE  StoreInv'
    <3>1. FromTemplate(u, 1, template) = {Device(u, 1), DeviceTags(u, 1)}
      BY FromTemplateRows DEF StoreInv
    <3>2. \A row \in FromTemplate(u, 1, template) :
            /\ row.of = u
            /\ row.table = "device_instances" => DeviceTags(u, row.n) \in FromTemplate(u, 1, template)
            /\ row.table # "device_templates"
      BY <3>1, DeviceFields
    <3> QED
      BY <2>1, <3>2, BeginKeeps
  <2> QED
    BY <1>2, <2>1, BeginKeeps DEF CreateInstance
<1>3. CASE StartBulk(u)
  <2>1. ASSUME NEW template \in Templates, NEW n \in Lines, NEW lines \in [1..n -> LineKinds],
               Begins(u, Session("bulk", "open", template, lines, {}))
        PROVE  StoreInv'
    <3>1. lines \in Seq(LineKinds)
      BY SeqDef, OnboardingAssumption DEF Lines
    <3> QED
      BY <2>1, <3>1, BeginKeeps
  <2> QED
    BY <1>3, <2>1, BeginKeeps DEF StartBulk
<1> QED
  BY <1>1, <1>2, <1>3

\* A line becomes an error or a device; either way the session accounts for it.
LEMMA LineKeeps ==
  ASSUME StoreInv, NEW u \in RequestIds, ReadLine(u)
  PROVE  StoreInv'
<1>1. /\ req[u].st = "open" /\ req[u].kind = "bulk" /\ req[u].next <= Len(req[u].lines)
      /\ UNCHANGED <<db, process, seed, refused, unsure>>
  BY DEF ReadLine, Reading
<1>2. /\ OpenInv(req[u], u) /\ req[u].template \in Templates /\ CompleteInv
      /\ req = [v \in RequestIds |-> req[v]]
  BY <1>1 DEF StoreInv, RequestInv
<1>3. /\ IsSession(req[u]) /\ Len(req[u].lines) \in Nat
      /\ req[u].next \in 1..Len(req[u].lines) /\ req[u].lines \in Seq(LineKinds)
      /\ req[u].created \subseteq 1..req[u].next - 1
      /\ req[u].errors = (1..req[u].next - 1) \ req[u].created
      /\ req[u].failed \in BOOLEAN
      /\ ~req[u].failed => Numbers(req[u].inserted) = req[u].created
  BY <1>1, <1>2, LenProperties DEF OpenInv
<1>4. ASSUME NEW failed \in BOOLEAN, LineFails(u, failed), req[u].failed => failed
      PROVE  StoreInv'
  <2> DEFINE q == [req[u] EXCEPT !.next = @ + 1, !.errors = @ \cup {req[u].next},
                                 !.failed = failed, !.inserted = IF failed THEN {} ELSE @]
  <2>1. req' = [req EXCEPT ![u] = q]
    BY <1>2, <1>4 DEF LineFails
  <2>2. /\ IsSession(q) /\ q.st = "open" /\ q.kind = "bulk" /\ q.lines = req[u].lines
        /\ q.template = req[u].template /\ q.created = req[u].created
        /\ q.next = req[u].next + 1 /\ q.errors = req[u].errors \cup {req[u].next}
        /\ q.failed = failed /\ q.inserted = IF failed THEN {} ELSE req[u].inserted
    BY <1>1, <1>3 DEF IsSession, Fields
  <2> HIDE DEF q
  <2>3. /\ q.created \subseteq 1..q.next - 1
        /\ q.errors = (1..q.next - 1) \ q.created
        /\ q.next \in 1..Len(q.lines) + 1
    BY <1>3, <2>2
  <2>4. ~q.failed => Numbers(q.inserted) = q.created
    BY <1>3, <1>4, <2>2
  <2>5. \A row \in q.inserted :
          /\ row.of = u
          /\ row.table = "device_instances" => DeviceTags(u, row.n) \in q.inserted
          /\ row.table = "device_templates" => q.kind = "template" /\ row.n = 1
    BY <1>2, <2>2, <1>1 DEF OpenInv
  <2>6. OpenInv(q, u)
    BY <1>3, <1>4, <2>2, <2>3, <2>4, <2>5 DEF OpenInv
  <2> QED
    BY <1>1, <1>2, <2>1, <2>2, <2>6, Moves
<1>5. ASSUME LineCreates(u), ~req[u].failed
      PROVE  StoreInv'
  <2> DEFINE n == req[u].next
             new == FromTemplate(u, n, req[u].template)
             q == [req[u] EXCEPT !.next = @ + 1, !.created = @ \cup {n}, !.inserted = @ \cup new]
  <2>1. req' = [req EXCEPT ![u] = q]
    BY <1>2, <1>5 DEF LineCreates
  <2>2. /\ IsSession(q) /\ q.st = "open" /\ q.kind = "bulk" /\ q.lines = req[u].lines
        /\ q.template = req[u].template /\ q.created = req[u].created \cup {n}
        /\ q.next = n + 1 /\ q.errors = req[u].errors
        /\ q.failed = req[u].failed /\ q.inserted = req[u].inserted \cup new
    BY <1>1, <1>3 DEF IsSession, Fields
  <2>3. new = {Device(u, n), DeviceTags(u, n)} /\ Numbers(new) = {n}
    BY <1>2, FromTemplateRows
  <2> HIDE DEF q, new
  <2>4. /\ q.created \subseteq 1..q.next - 1
        /\ q.errors = (1..q.next - 1) \ q.created
        /\ q.next \in 1..Len(q.lines) + 1
    BY <1>3, <2>2
  <2>5. Numbers(q.inserted) = q.created
    <3>1. \A a, b : Numbers(a \cup b) = Numbers(a) \cup Numbers(b)
      BY DEF Numbers
    <3>2. Numbers(q.inserted) = Numbers(req[u].inserted) \cup Numbers(new)
      BY <2>2, <3>1
    <3>3. Numbers(req[u].inserted) = req[u].created
      BY <1>3, <1>5
    <3> QED
      BY <2>2, <2>3, <3>2, <3>3
  <2>6. \A row \in q.inserted :
          /\ row.of = u
          /\ row.table = "device_instances" => DeviceTags(u, row.n) \in q.inserted
          /\ row.table = "device_templates" => q.kind = "template" /\ row.n = 1
    <3>1. \A row \in new :
            /\ row.of = u
            /\ row.table = "device_instances" => DeviceTags(u, row.n) \in new
            /\ row.table # "device_templates"
      BY <2>3, DeviceFields
    <3>2. \A row \in req[u].inserted :
            /\ row.of = u
            /\ row.table = "device_instances" => DeviceTags(u, row.n) \in req[u].inserted
            /\ row.table # "device_templates"
      BY <1>1, <1>2 DEF OpenInv
    <3> QED
      BY <2>2, <3>1, <3>2
  <2>7. OpenInv(q, u)
    BY <1>3, <1>5, <2>2, <2>4, <2>5, <2>6 DEF OpenInv
  <2> QED
    BY <1>1, <1>2, <2>1, <2>2, <2>7, Moves
<1> QED
  BY <1>3, <1>4, <1>5 DEF ReadLine

--------------------------------------------------------------------------------
(* The start, and a crash *)

\* A flush of the seed finds what its row refers to, and not the row itself.
LEMMA InsertKeeps ==
  ASSUME StoreInv, NEW row \in seed.new, SeedInsert(row)
  PROVE  StoreInv'
<1>1. process = "seed"
  BY DEF StoreInv, SeedInv, NoSeed
<1>2. /\ db \cap SeedRows = {} /\ seed.block \in 1..Len(Blocks)
      /\ seed = [block |-> seed.block, new |-> seed.new, inserted |-> seed.inserted]
      /\ seed.new \cup seed.inserted = Added(seed.block)
      /\ seed.new \subseteq Blocks[seed.block]
      /\ Added(seed.block - 1) \subseteq seed.inserted
      /\ seed.new \cap seed.inserted = {}
  BY <1>1 DEF StoreInv, SeedInv
<1>3. row \notin db \cup seed.inserted /\ Refs(row, Template(0, row.n)) \subseteq seed.inserted
  BY <1>2, PartsInOrder, AllAdded
<1>4. /\ seed' = [seed EXCEPT !.new = @ \ {row}, !.inserted = @ \cup {row}]
      /\ UNCHANGED <<db, process, req, refused, unsure>>
  BY <1>3 DEF SeedInsert
<1>5. /\ seed' = [block |-> seed.block, new |-> seed.new \ {row}, inserted |-> seed.inserted \cup {row}]
  BY <1>2, <1>4
<1>6. /\ seed'.block = seed.block /\ seed'.new = seed.new \ {row}
      /\ seed'.inserted = seed.inserted \cup {row}
  BY <1>5
<1>7. SeedInv'
  BY <1>1, <1>2, <1>4, <1>5, <1>6 DEF StoreInv, SeedInv, SeedAllOrNothing, SeedNeverRefused
<1> QED
  BY <1>4, <1>7, Frame DEF StoreInv

\* The flush is done: the next part of the seed is added.
LEMMA GoesOnKeeps ==
  ASSUME StoreInv, SeedGoesOn
  PROVE  StoreInv'
<1>1. /\ process = "seed" /\ seed.new = {} /\ seed.block < Len(Blocks)
      /\ seed' = [seed EXCEPT !.block = @ + 1, !.new = Blocks[seed.block + 1]]
      /\ UNCHANGED <<db, process, req, refused, unsure>>
  BY DEF SeedGoesOn
<1>2. /\ db \cap SeedRows = {} /\ seed.block \in 1..Len(Blocks)
      /\ seed = [block |-> seed.block, new |-> seed.new, inserted |-> seed.inserted]
      /\ seed.new \cup seed.inserted = Added(seed.block)
  BY <1>1 DEF StoreInv, SeedInv
<1> DEFINE b == seed.block + 1
<1>3. seed' = [block |-> b, new |-> Blocks[b], inserted |-> seed.inserted]
  BY <1>1, <1>2
<1>4. seed'.block = b /\ seed'.new = Blocks[b] /\ seed'.inserted = seed.inserted
  BY <1>3
<1>5. b \in 1..Len(Blocks) /\ b - 1 = seed.block /\ seed.inserted = Added(b - 1)
  BY <1>1, <1>2, BlocksAre
<1>6. Blocks[b] \cup Added(b - 1) = Added(b)
  BY <1>2, <1>5, AddedGrows, BlocksAre
<1>7. Blocks[b] \cap Added(b - 1) = {}
  BY <1>5, PartsInOrder
<1> HIDE DEF b
<1>8. SeedInv'
  BY <1>1, <1>2, <1>3, <1>4, <1>5, <1>6, <1>7 DEF StoreInv, SeedInv, SeedAllOrNothing, SeedNeverRefused
<1> QED
  BY <1>1, <1>8, Frame DEF StoreInv

\* The commit adds the whole seed, or nothing.
LEMMA SeedCommitKeeps ==
  ASSUME StoreInv, SeedCommit
  PROVE  StoreInv'
<1>1. /\ process = "seed" /\ seed.new = {} /\ seed.block = Len(Blocks)
      /\ seed' = NoSeed /\ process' # "seed"
      /\ db' \in {db, db \cup seed.inserted}
      /\ UNCHANGED <<req, refused, unsure>>
  BY DEF SeedCommit
<1>2. seed.inserted = SeedRows
  BY <1>1, AllAdded DEF StoreInv, SeedInv
<1>3. SeedInv'
  <2>1. db' \cap SeedRows \in {{}, SeedRows}
    BY <1>1, <1>2 DEF StoreInv, SeedInv
  <2> QED
    BY <1>1, <2>1 DEF StoreInv, SeedInv, SeedAllOrNothing, SeedNeverRefused
<1>4. CASE db' = db
  BY <1>1, <1>3, <1>4, Frame DEF StoreInv
<1>5. CASE db' = db \cup SeedRows
  <2>1. CompleteInv'
    BY <1>5, SeedComplete DEF StoreInv, CompleteInv, ConfigComplete, Config
  <2>2. \A u \in RequestIds : Stored(u)' = Stored(u)
    <3>1. \A u \in RequestIds : u # 0
      BY DEF RequestIds
    <3> QED
      BY <1>5, <3>1, SeedComplete, StoredGrows
  <2>3. Templates \subseteq Templates'
    BY <1>5 DEF Templates
  <2>4. RequestInv'
    BY <1>1, <2>2, <2>3 DEF StoreInv, RequestInv
  <2> QED
    BY <1>3, <2>1, <2>4 DEF StoreInv
<1> QED
  BY <1>1, <1>2, <1>4, <1>5

\* The steps of the start before the seed, and those that end it.
LEMMA StartKeeps ==
  ASSUME StoreInv,
         Boot \/ CreateTables \/ CreateTablesFails \/ Extend \/ Look \/ SeedFails
  PROVE  StoreInv'
<1>1. UNCHANGED <<db, req, refused, unsure>>
  BY DEF Boot, CreateTables, CreateTablesFails, Extend, Look, SeedFails
<1>2. CASE process' # "seed" /\ seed' = NoSeed
  BY <1>1, <1>2, Frame DEF StoreInv, SeedInv, SeedAllOrNothing, SeedNeverRefused
<1>3. CASE /\ process' = "seed" /\ Org \notin db
           /\ seed' = [NoSeed EXCEPT !.block = 1, !.new = Blocks[1]]
  <2>1. seed' = [block |-> 1, new |-> Blocks[1], inserted |-> {}]
    BY <1>3 DEF NoSeed
  <2>2. seed'.block = 1 /\ seed'.new = Blocks[1] /\ seed'.inserted = {}
    BY <2>1
  <2>3. db \cap SeedRows = {}
    BY <1>3, SeedComplete DEF StoreInv, SeedInv, SeedAllOrNothing
  <2>4. Added(1) = Blocks[1] /\ Added(1 - 1) = {} /\ 1 \in 1..Len(Blocks)
    BY BlocksAre, AddedAre
  <2>5. SeedInv'
    BY <1>1, <1>3, <2>1, <2>2, <2>3, <2>4 DEF StoreInv, SeedInv, SeedAllOrNothing, SeedNeverRefused
  <2> QED
    BY <1>1, <2>5, Frame DEF StoreInv
<1>4. process \in {"down", "connect", "extend", "look"} => seed = NoSeed
  BY DEF StoreInv, SeedInv
<1> QED
  BY <1>2, <1>3, <1>4
  DEF Boot, CreateTables, CreateTablesFails, Extend, Look, SeedFails, StoreInv, SeedInv

\* A crash cuts the open sessions, and their rows are gone.
LEMMA CrashKeeps ==
  ASSUME StoreInv, Crash
  PROVE  StoreInv'
<1>1. /\ process' = "down" /\ seed' = NoSeed /\ UNCHANGED <<db, refused, unsure>>
      /\ req' = [u \in RequestIds |->
                   IF req[u].st = "open" THEN [req[u] EXCEPT !.st = "cut", !.inserted = {}] ELSE req[u]]
  BY DEF Crash
<1>2. SeedInv' /\ CompleteInv'
  BY <1>1 DEF StoreInv, SeedInv, CompleteInv, SeedAllOrNothing, SeedNeverRefused, ConfigComplete, Config
<1>3. ASSUME NEW u \in RequestIds
      PROVE  AnswerInv(req'[u], Stored(u), u \in unsure) /\ req'[u].st # "open"
  <2>1. AnswerInv(req[u], Stored(u), u \in unsure)
    BY DEF StoreInv, RequestInv
  <2>2. CASE req[u].st = "open"
    <3>1. IsSession(req[u])
      BY <2>2 DEF StoreInv, RequestInv, OpenInv
    <3>2. req'[u].st = "cut"
      BY <1>1, <2>2, <3>1 DEF IsSession, Fields
    <3> QED
      BY <2>1, <2>2, <3>2 DEF AnswerInv
  <2>3. CASE req[u].st # "open"
    BY <1>1, <2>1, <2>3
  <2> QED
    BY <2>2, <2>3
<1>4. \A u : Stored(u)' = Stored(u)
  BY <1>1 DEF Stored
<1>5. RequestInv'
  BY <1>1, <1>3, <1>4 DEF RequestInv
<1> QED
  BY <1>2, <1>5 DEF StoreInv

--------------------------------------------------------------------------------
(* Theorems *)

LEMMA StoreInit == Init => StoreInv
<1> SUFFICES ASSUME Init PROVE StoreInv
  OBVIOUS
<1>1. \A u : Stored(u) = {}
  BY DEF Init, Stored, Numbers
<1>2. RequestInv
  BY <1>1 DEF Init, RequestInv, AnswerInv, Unsent
<1> QED
  BY <1>2 DEF Init, StoreInv, SeedInv, CompleteInv, SeedAllOrNothing, SeedNeverRefused,
              ConfigComplete, Config

LEMMA StoreNext == StoreInv /\ [Next]_vars => StoreInv'
<1> SUFFICES ASSUME StoreInv, [Next]_vars PROVE StoreInv'
  OBVIOUS
<1>1. CASE StartStep
  BY <1>1, StartKeeps, InsertKeeps, GoesOnKeeps, SeedCommitKeeps DEF StartStep
<1>2. ASSUME NEW u \in RequestIds,
             \/ CreateTemplate(u) \/ CommitTemplate(u) \/ CreateInstance(u) \/ CommitInstance(u)
             \/ StartBulk(u) \/ ReadLine(u) \/ CommitBulk(u)
      PROVE  StoreInv'
  BY <1>2, BeginsKeep, CommitsKeep, LineKeeps
<1>3. CASE Crash
  BY <1>3, CrashKeeps
<1>4. CASE UNCHANGED vars
  BY <1>4, Frame DEF vars, StoreInv, SeedInv, SeedAllOrNothing, SeedNeverRefused
<1> QED
  BY <1>1, <1>2, <1>3, <1>4 DEF Next

\* The database and the sessions on it agree, through failures and deaths at every step.
THEOREM StoreInvariance == Spec => []StoreInv
<1> QED
  BY StoreInit, StoreNext, PTL DEF Spec

\* seed_if_empty: its flushes come in the order of the keys.
THEOREM SeedIsInOrder == Spec => []SeedNeverRefused
<1>1. StoreInv => SeedNeverRefused
  BY DEF StoreInv, SeedInv
<1> QED
  BY <1>1, StoreInvariance, PTL

\* seed_if_empty: the organization it looks for stands for the whole seed.
THEOREM SeedIsWhole == Spec => []SeedAllOrNothing
<1>1. StoreInv => SeedAllOrNothing
  BY DEF StoreInv, SeedInv
<1> QED
  BY <1>1, StoreInvariance, PTL

\* gateway_config: a device is served with its tags.
THEOREM DevicesAreWhole == Spec => []ConfigComplete
<1>1. StoreInv => ConfigComplete
  BY DEF StoreInv, CompleteInv
<1> QED
  BY <1>1, StoreInvariance, PTL

\* bulk_create_from_csv: the answer says what is stored, and an error that nothing is.
THEOREM AnswersAreTrue == Spec => []AnswerTruthful
<1>1. StoreInv => AnswerTruthful
  <2>1. \A u : {row \in Config : row.of = u}
                 = {row \in {row \in db : row.of = u} : row.table = "device_instances"}
    BY DEF Config
  <2>2. \A u : Stored(u) = {row.n : row \in {row \in Config : row.of = u}}
    BY <2>1 DEF Stored, Numbers
  <2>3. ASSUME StoreInv, NEW u \in RequestIds
        PROVE  AnswerInv(req[u], {row.n : row \in {row \in Config : row.of = u}}, u \in unsure)
    BY <2>2, <2>3 DEF StoreInv, RequestInv
  <2> QED
    BY <2>3 DEF AnswerInv, AnswerTruthful
<1> QED
  BY <1>1, StoreInvariance, PTL
--------------------------------------------------------------------------------
(* Types: who holds what while the process is where it is *)

\* A request's record, while the process is at "at".
SessionTyped(q, at) ==
  \/ q = Unsent
  \/ /\ q.kind \in Kinds
     /\ q.st \in {"open", "ok", "rejected", "error", "cut"}
     /\ q.st = "open" => at = "serve"
     /\ q.inserted # {} => q.st = "open" /\ ~q.failed

\* An attempt is under way only if one is left.
AttemptInv ==
  /\ process \in {"down", "connect", "extend", "look", "seed", "serve"}
  /\ attempt \in 0..Retries
  /\ process = "connect" => attempt < Retries

RecordsInv ==
  /\ \A u \in RequestIds : SessionTyped(req[u], process)
  /\ faults \in 0..MaxFaults /\ crashes \in 0..MaxCrashes

TypeInv == AttemptInv /\ RecordsInv

\* What the invariant of the seed says of its types.
LEMMA SeedTyped ==
  ASSUME SeedInv
  PROVE  /\ seed.block \in 0..Len(Blocks) /\ seed.new \cap seed.inserted = {}
         /\ seed # NoSeed => process = "seed"
BY BlocksAre DEF SeedInv, NoSeed

LEMMA TypesFollow == StoreInv /\ TypeInv => OnboardingTypeOK
BY SeedTyped DEF StoreInv, TypeInv, AttemptInv, RecordsInv, SessionTyped, OnboardingTypeOK

LEMMA CountsFaults ==
  ASSUME faults \in 0..MaxFaults, Fault \/ NoFault
  PROVE  faults' \in 0..MaxFaults
BY OnboardingAssumption DEF Fault, NoFault

\* The request u moves, and nothing else of the types does.
LEMMA TypedMove ==
  ASSUME StoreInv, TypeInv, NEW u \in RequestIds, NEW q, req' = [req EXCEPT ![u] = q],
         SessionTyped(q, process), Fault \/ NoFault, UNCHANGED <<process, attempt, crashes>>
  PROVE  TypeInv'
<1>1. req = [v \in RequestIds |-> req[v]]
  BY DEF StoreInv, RequestInv
<1>2. \A v \in RequestIds : req'[v] = IF v = u THEN q ELSE req[v]
  BY <1>1
<1>3. \A v \in RequestIds : SessionTyped(req'[v], process)
  BY <1>2 DEF TypeInv, RecordsInv
<1>4. faults' \in 0..MaxFaults
  BY CountsFaults DEF TypeInv, RecordsInv
<1> QED
  BY <1>3, <1>4 DEF TypeInv, AttemptInv, RecordsInv

LEMMA TypedBegin ==
  ASSUME StoreInv, TypeInv, NEW u \in RequestIds, NEW kind \in Kinds,
         NEW st \in {"open", "rejected", "error"}, NEW template, NEW lines, NEW inserted,
         st # "open" => inserted = {},
         Fault \/ NoFault, Begins(u, Session(kind, st, template, lines, inserted))
  PROVE  TypeInv'
<1> DEFINE q == Session(kind, st, template, lines, inserted)
<1>1. /\ IsSession(q)
      /\ q.kind = kind /\ q.st = st /\ q.template = template /\ q.lines = lines
      /\ q.next = 1 /\ q.inserted = inserted /\ q.failed = FALSE
      /\ q.created = {} /\ q.errors = {}
  BY SessionFields
<1>2. process = "serve" /\ req' = [req EXCEPT ![u] = q] /\ UNCHANGED <<process, attempt, crashes>>
  BY DEF Begins
<1> HIDE DEF q
<1>3. SessionTyped(q, process)
  BY <1>1, <1>2 DEF SessionTyped
<1> QED
  BY <1>2, <1>3, TypedMove

LEMMA TypedBegins ==
  ASSUME StoreInv, TypeInv, NEW u \in RequestIds,
         CreateTemplate(u) \/ CreateInstance(u) \/ StartBulk(u)
  PROVE  TypeInv'
<1> USE DEF Kinds
<1>1. CASE CreateTemplate(u)
  BY <1>1, TypedBegin DEF CreateTemplate
<1>2. CASE CreateInstance(u)
  BY <1>2, TypedBegin DEF CreateInstance
<1>3. CASE StartBulk(u)
  BY <1>3, TypedBegin DEF StartBulk
<1> QED
  BY <1>1, <1>2, <1>3

\* An open request gets its answer.
LEMMA TypedAnswer ==
  ASSUME StoreInv, TypeInv, NEW u \in RequestIds, req[u].st = "open",
         NEW st \in {"ok", "error"}, Answered(u, st), Fault \/ NoFault,
         UNCHANGED <<process, attempt, crashes>>
  PROVE  TypeInv'
<1> DEFINE q == [req[u] EXCEPT !.st = st, !.inserted = {}]
<1>1. /\ IsSession(req[u]) /\ req[u].kind \in Kinds
      /\ req = [v \in RequestIds |-> req[v]]
  BY DEF StoreInv, RequestInv, OpenInv, Kinds
<1>2. req' = [req EXCEPT ![u] = q]
  BY <1>1 DEF Answered
<1>3. q.kind = req[u].kind /\ q.st = st /\ q.inserted = {}
  BY <1>1 DEF IsSession, Fields
<1> HIDE DEF q
<1>4. SessionTyped(q, process)
  BY <1>1, <1>3 DEF SessionTyped
<1> QED
  BY <1>2, <1>4, TypedMove

LEMMA TypedCommits ==
  ASSUME StoreInv, TypeInv, NEW u \in RequestIds,
         CommitTemplate(u) \/ CommitInstance(u) \/ CommitBulk(u)
  PROVE  TypeInv'
<1>1. req[u].st = "open"
  BY DEF CommitTemplate, CommitInstance, CommitBulk
<1>2. ASSUME NEW rows, Commits(u, rows) PROVE TypeInv'
  BY <1>1, <1>2, TypedAnswer DEF Commits
<1>3. CASE /\ Answered(u, "error") /\ NoFault
           /\ UNCHANGED <<db, process, attempt, seed, refused, unsure, crashes>>
  BY <1>1, <1>3, TypedAnswer
<1> QED
  BY <1>2, <1>3 DEF CommitTemplate, CommitInstance, CommitBulk

\* A line changes an upload's session; one that failed has lost its rows.
LEMMA TypedLine ==
  ASSUME StoreInv, TypeInv, NEW u \in RequestIds, ReadLine(u)
  PROVE  TypeInv'
<1>1. /\ req[u].st = "open" /\ req[u].kind = "bulk"
      /\ UNCHANGED <<process, attempt, crashes>> /\ (Fault \/ NoFault)
  BY DEF ReadLine, Reading
<1>2. /\ IsSession(req[u]) /\ req = [v \in RequestIds |-> req[v]]
      /\ SessionTyped(req[u], process)
  BY <1>1 DEF StoreInv, RequestInv, OpenInv, TypeInv, RecordsInv
<1>3. process = "serve"
  BY <1>1, <1>2 DEF SessionTyped, Unsent
<1>4. ASSUME NEW failed \in BOOLEAN, LineFails(u, failed) PROVE TypeInv'
  <2> DEFINE q == [req[u] EXCEPT !.next = @ + 1, !.errors = @ \cup {req[u].next},
                                 !.failed = failed, !.inserted = IF failed THEN {} ELSE @]
  <2>1. req' = [req EXCEPT ![u] = q]
    BY <1>2, <1>4 DEF LineFails
  <2>2. /\ q.st = "open" /\ q.kind = "bulk" /\ q.failed = failed
        /\ q.inserted = IF failed THEN {} ELSE req[u].inserted
    BY <1>1, <1>2 DEF IsSession, Fields
  <2> HIDE DEF q
  <2>3. SessionTyped(q, process)
    BY <1>3, <2>2 DEF SessionTyped, Kinds
  <2> QED
    BY <1>1, <2>1, <2>3, TypedMove
<1>5. ASSUME LineCreates(u), ~req[u].failed PROVE TypeInv'
  <2> DEFINE new == FromTemplate(u, req[u].next, req[u].template)
             q == [req[u] EXCEPT !.next = @ + 1, !.created = @ \cup {req[u].next},
                                 !.inserted = @ \cup new]
  <2>1. req' = [req EXCEPT ![u] = q]
    BY <1>2, <1>5 DEF LineCreates
  <2>2. q.st = "open" /\ q.kind = "bulk" /\ q.failed = req[u].failed
    BY <1>1, <1>2 DEF IsSession, Fields
  <2> HIDE DEF q, new
  <2>3. SessionTyped(q, process)
    BY <1>3, <1>5, <2>2 DEF SessionTyped, Kinds
  <2> QED
    BY <1>1, <2>1, <2>3, TypedMove
<1> QED
  BY <1>4, <1>5 DEF ReadLine

\* The start goes on: no request is open before it has served.
LEMMA TypedStart ==
  ASSUME StoreInv, TypeInv, StartStep
  PROVE  TypeInv'
<1>1. /\ UNCHANGED <<req, crashes>> /\ faults' \in 0..MaxFaults
      /\ process = "serve" => process' = "serve"
  <2>1. ASSUME NEW row \in seed.new, SeedInsert(row)
        PROVE  UNCHANGED <<req, crashes, faults>> /\ process = "seed"
    BY <2>1 DEF SeedInsert, StoreInv, SeedInv, NoSeed
  <2>2. CASE \/ Boot \/ CreateTables \/ CreateTablesFails \/ Extend \/ Look
             \/ SeedFails \/ SeedGoesOn \/ SeedCommit
    <3>1. UNCHANGED <<req, crashes>> /\ process # "serve"
      BY <2>2 DEF Boot, CreateTables, CreateTablesFails, Extend, Look, SeedFails, SeedGoesOn, SeedCommit
    <3>2. UNCHANGED faults \/ Fault \/ NoFault
      BY <2>2 DEF Boot, CreateTables, CreateTablesFails, Extend, Look, SeedFails, SeedGoesOn, SeedCommit
    <3> QED
      BY <3>1, <3>2, CountsFaults DEF TypeInv, RecordsInv, NoFault
  <2> QED
    BY <2>1, <2>2 DEF StartStep, TypeInv, RecordsInv
<1>2. \A u \in RequestIds : SessionTyped(req'[u], process')
  BY <1>1 DEF TypeInv, RecordsInv, SessionTyped
<1>3. AttemptInv'
  <2>1. CASE Boot \/ CreateTables \/ Extend \/ Look \/ SeedFails \/ SeedGoesOn \/ SeedCommit
    BY <2>1, OnboardingAssumption DEF Boot, CreateTables, Extend, Look, SeedFails, SeedGoesOn,
       SeedCommit, TypeInv, AttemptInv
  <2>2. CASE CreateTablesFails
    BY <2>2, OnboardingAssumption DEF CreateTablesFails, TypeInv, AttemptInv
  <2>3. ASSUME NEW row \in seed.new, SeedInsert(row) PROVE AttemptInv'
    BY <2>3 DEF SeedInsert, TypeInv, AttemptInv
  <2> QED
    BY <2>1, <2>2, <2>3 DEF StartStep
<1> QED
  BY <1>1, <1>2, <1>3 DEF TypeInv, RecordsInv

\* A crash closes what was open.
LEMMA TypedCrash ==
  ASSUME StoreInv, TypeInv, Crash
  PROVE  TypeInv'
<1>1. /\ process' = "down" /\ UNCHANGED <<attempt, faults>>
      /\ req' = [u \in RequestIds |->
                   IF req[u].st = "open" THEN [req[u] EXCEPT !.st = "cut", !.inserted = {}] ELSE req[u]]
  BY DEF Crash
<1>c. crashes' \in 0..MaxCrashes
  <2>1. crashes < MaxCrashes /\ crashes' = crashes + 1 /\ crashes \in 0..MaxCrashes
    BY DEF Crash, TypeInv, RecordsInv
  <2> QED
    BY <2>1, OnboardingAssumption
<1>2. ASSUME NEW u \in RequestIds PROVE SessionTyped(req'[u], "down")
  <2>1. SessionTyped(req[u], process)
    BY DEF TypeInv, RecordsInv
  <2>2. CASE req[u].st = "open"
    <3>1. IsSession(req[u]) /\ req[u].kind \in Kinds
      BY <2>2 DEF StoreInv, RequestInv, OpenInv, Kinds
    <3>2. req'[u].st = "cut" /\ req'[u].kind = req[u].kind /\ req'[u].inserted = {}
      BY <1>1, <2>2, <3>1 DEF IsSession, Fields
    <3> QED
      BY <3>1, <3>2 DEF SessionTyped
  <2>3. CASE req[u].st # "open"
    BY <1>1, <2>1, <2>3 DEF SessionTyped
  <2> QED
    BY <2>2, <2>3
<1> QED
  BY <1>1, <1>c, <1>2 DEF TypeInv, AttemptInv, RecordsInv

LEMMA TypeInit == Init => TypeInv
BY OnboardingAssumption DEF Init, TypeInv, AttemptInv, RecordsInv, SessionTyped

LEMMA TypeNext == StoreInv /\ TypeInv /\ [Next]_vars => TypeInv'
<1> SUFFICES ASSUME StoreInv, TypeInv, [Next]_vars PROVE TypeInv'
  OBVIOUS
<1>1. CASE StartStep
  BY <1>1, TypedStart
<1>2. ASSUME NEW u \in RequestIds,
             \/ CreateTemplate(u) \/ CommitTemplate(u) \/ CreateInstance(u) \/ CommitInstance(u)
             \/ StartBulk(u) \/ ReadLine(u) \/ CommitBulk(u)
      PROVE  TypeInv'
  BY <1>2, TypedBegins, TypedCommits, TypedLine
<1>3. CASE Crash
  BY <1>3, TypedCrash
<1>4. CASE UNCHANGED vars
  BY <1>4 DEF vars, TypeInv, AttemptInv, RecordsInv, SessionTyped
<1> QED
  BY <1>1, <1>2, <1>3, <1>4 DEF Next

\* Every variable has its type: only a serving backend has open requests, only one that
\* seeds has a seed's session, and a session that failed holds no rows.
THEOREM OnboardingTypes == Spec => []OnboardingTypeOK
<1>1. StoreInv /\ TypeInv /\ [Next]_vars => StoreInv' /\ TypeInv'
  BY StoreNext, TypeNext
<1>2. Init => StoreInv /\ TypeInv
  BY StoreInit, TypeInit
<1> QED
  BY <1>1, <1>2, TypesFollow, PTL DEF Spec
================================================================================
