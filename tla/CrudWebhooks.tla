---------------------------- MODULE CrudWebhooks ----------------------------
(***************************************************************************)
(* The generated CRUD handlers with their access rules, and the webhooks   *)
(* they fire (ffi/doo_ffi_http/src/crud.rs, rbac.rs, webhook_engine.rs,    *)
(* webhook_log.rs, db_bridge.rs).  Handlers of several requests overlap:   *)
(* update and delete read the row, check the rule against its owner, and   *)
(* write in a second statement.  Every webhook is sent by a thread of its  *)
(* own, which records the outcome in a bounded log and in the database.    *)
(***************************************************************************)
EXTENDS Integers, Sequences, SequencesExt, FiniteSets, FiniteSetsExt, TLC

CONSTANTS CallBatches,     \* sets of requests: [n, op, id, user, role, body]
          Rows,        \* the rows at the start: id -> [owner, note, secret]
          Policy,      \* action -> [any, terms]: terms joined by | or by &
          Visible, Writable,  \* field -> the roles (or "own") of its decorator
          Hierarchies, \* raw role hierarchies: role -> set of direct parents
          Configs,     \* webhooks of the resource: [event, filter, payload]
          DbBacked, HasPrimary,
          MaxRecords,  \* length of the log
          Nobody, Anything

VARIABLES cw
Fields == {"owner", "note", "secret"}

\* compute_transitive_closure, collect_inherited: each role once; with no more roles than
\* there are, all are seen.
Visit(raw, s) ==
    IF s.todo \subseteq s.out THEN s
    ELSE LET p == CHOOSE x \in s.todo \ s.out : TRUE
         IN  [todo |-> IF p \in DOMAIN raw THEN s.todo \cup raw[p] ELSE s.todo, out |-> s.out \cup {p}]
RolesOf(raw) == UNION {raw[p] : p \in DOMAIN raw}
CollectInherited(raw, start) ==
    LET turn[i \in 0..Cardinality(RolesOf(raw))] == IF i = 0 THEN [todo |-> start, out |-> {}] ELSE Visit(raw, turn[i - 1])
    IN  turn[Cardinality(RolesOf(raw))].out
TransitiveClosureOfNot(raw) == raw
TransitiveClosureOf(raw) == [r \in DOMAIN raw |-> CollectInherited(raw, raw[r])]

CrudStart(reqs, raw) ==
             [raw |-> raw, inherits |-> TransitiveClosureOf(raw), rows |-> Rows,
              pc |-> [r \in reqs |-> "new"], resp |-> [r \in reqs |-> <<>>], owners |-> [r \in reqs |-> {}], read |-> [r \in reqs |-> Nobody],
              changes |-> <<>>, sent |-> {}, flying |-> {}, saving |-> {}, log |-> <<>>, nextId |-> 1, stored |-> {}]
CrudInit == \E reqs \in CallBatches, raw \in Hierarchies : cw = CrudStart(reqs, raw)
OpenCalls == DOMAIN cw.pc

RoleSatisfies(role, wanted) ==
    role = wanted \/ (role \in DOMAIN cw.inherits /\ wanted \in cw.inherits[role])
EvaluateTerm(t, r, owner) ==
    CASE t = "public" -> TRUE
      [] t = "authenticated" -> r.user # Nobody
      [] t = "own" -> r.user # Nobody /\ owner = r.user
      [] OTHER -> r.user # Nobody /\ RoleSatisfies(r.role, t)
EvaluateRule(rule, r, owner) ==
    IF rule.any THEN \E t \in rule.terms : EvaluateTerm(t, r, owner)
    ELSE \A t \in rule.terms : EvaluateTerm(t, r, owner)
CheckPolicy(r, action, owner) == action \in DOMAIN Policy => EvaluateRule(Policy[action], r, owner)
Denied(r) == IF r.user = Nobody THEN 401 ELSE 403

\* Which fields a response shows and which ones an update accepts.
Included(r, isOwner) ==
    {f \in Fields : f \in DOMAIN Visible =>
        (\E x \in Visible[f] : RoleSatisfies(r.role, x)) \/ (isOwner /\ "own" \in Visible[f])}
Accepted(r) == {f \in DOMAIN r.body : f \in DOMAIN Writable => \E x \in Writable[f] : RoleSatisfies(r.role, x)}
FilterResponse(row, r, isOwner) == [f \in Included(r, isOwner) |-> row[f]]
OwnerOf(row) == row.owner
IsOwner(r, row) == r.user # Nobody /\ OwnerOf(row) = r.user

Answer(s, r, status, data) == [s EXCEPT !.pc[r] = "done", !.resp[r] = <<[status |-> status, data |-> data]>>]

\* evaluate_filters and fire: one delivery for each webhook of the event whose filter holds.
EvaluateFilters(c, row) == c.filter = Anything \/ row.note = c.filter
Fire(s, event, row) ==
    LET new == {[config |-> c, change |-> Len(s.changes)] : c \in {x \in Configs : x.event = event /\ EvaluateFilters(x, row)}}
    IN  [s EXCEPT !.sent = @ \cup new, !.flying = @ \cup new]

\* A write that happened: the row, who asked, the owners the row had meanwhile.
Changed(s, r, event, id, row) ==
    [s EXCEPT !.changes = Append(@, [event |-> event, id |-> id, by |-> r, row |-> row, owners |-> s.owners[r]]),
              !.owners = [q \in DOMAIN @ |-> IF s.pc[q] = "checked" /\ q.id = id THEN @[q] \cup {OwnerOf(row)} ELSE @[q]]]

\* GET of the collection and of one row: one statement each.  The rule "own" of a
\* single read is given the id of the row where it expects its owner.
ListHandler(r, db) ==
    /\ cw.pc[r] = "new" /\ r.op = "list"
    /\ cw' = CASE ~CheckPolicy(r, "read", Nobody) -> Answer(cw, r, Denied(r), <<>>)
               [] ~DbBacked -> Answer(cw, r, 503, <<>>)
               [] ~db -> Answer(cw, r, 500, <<>>)
               [] OTHER -> Answer(cw, r, 200, [i \in DOMAIN cw.rows |-> FilterResponse(cw.rows[i], r, FALSE)])
GetHandler(r, db) ==
    /\ cw.pc[r] = "new" /\ r.op = "get"
    /\ cw' = CASE ~CheckPolicy(r, "read", r.id) -> Answer(cw, r, Denied(r), <<>>)
               [] ~HasPrimary -> Answer(cw, r, 400, <<>>)
               [] ~DbBacked -> Answer(cw, r, 503, <<>>)
               [] ~db -> Answer(cw, r, 500, <<>>)
               [] r.id \notin DOMAIN cw.rows -> Answer(cw, r, 404, <<>>)
               [] OTHER -> LET row == cw.rows[r.id]
                           IN  Answer(cw, r, 200, r.id :> FilterResponse(row, r, IsOwner(r, row)))

\* POST: the owner is the caller, whatever the body says.
NewId(s) == Max(DOMAIN s.rows \cup {r.id : r \in DOMAIN s.pc} \cup {s.changes[i].id : i \in DOMAIN s.changes}) + 1
CreatedAsSent(r) == [f \in Fields |-> IF f \in DOMAIN r.body THEN r.body[f] ELSE Nobody]
Created(r) == [f \in Fields |-> IF f = "owner" /\ r.user # Nobody THEN r.user
                                ELSE IF f \in DOMAIN r.body THEN r.body[f] ELSE Nobody]
CreateHandler(r, db) ==
    /\ cw.pc[r] = "new" /\ r.op = "create"
    /\ cw' = CASE ~CheckPolicy(r, "create", Nobody) -> Answer(cw, r, Denied(r), <<>>)
               [] DOMAIN r.body = {} -> Answer(cw, r, 400, <<>>)
               [] ~DbBacked -> Answer(cw, r, 503, <<>>)
               [] ~db -> Answer(cw, r, 500, <<>>)
               [] OTHER ->
                    LET id == NewId(cw)
                        row == Created(r)
                        s == Changed([cw EXCEPT !.rows = [i \in DOMAIN @ \cup {id} |-> IF i = id THEN row ELSE @[i]]], r, "created", id, row)
                    IN  Answer(Fire(s, "created", row), r, 200, id :> FilterResponse(row, r, FALSE))

\* PUT and DELETE begin alike: read the row (an error reads as "not found"), check
\* the rule against the owner just read.
FetchAndCheckById(r, db) ==
    CASE ~HasPrimary -> Answer(cw, r, 400, <<>>)
      [] ~DbBacked -> Answer(cw, r, 503, <<>>)
      [] ~db \/ r.id \notin DOMAIN cw.rows -> Answer(cw, r, 404, <<>>)
      [] ~CheckPolicy(r, r.op, r.id) -> Answer(cw, r, Denied(r), <<>>)
      [] OTHER -> [cw EXCEPT !.pc[r] = "checked", !.owners[r] = {OwnerOf(cw.rows[r.id])}, !.read[r] = cw.rows[r.id]]
FetchAndCheck(r, db) ==
    CASE ~HasPrimary -> Answer(cw, r, 400, <<>>)
      [] ~DbBacked -> Answer(cw, r, 503, <<>>)
      [] ~db \/ r.id \notin DOMAIN cw.rows -> Answer(cw, r, 404, <<>>)
      [] ~CheckPolicy(r, r.op, OwnerOf(cw.rows[r.id])) -> Answer(cw, r, Denied(r), <<>>)
      [] OTHER -> [cw EXCEPT !.pc[r] = "checked", !.owners[r] = {OwnerOf(cw.rows[r.id])}, !.read[r] = cw.rows[r.id]]
Begin(r, db) == cw.pc[r] = "new" /\ r.op \in {"update", "delete"} /\ cw' = FetchAndCheck(r, db)

\* The UPDATE ... RETURNING of the fields the caller may write.
UpdateHandler(r, db) ==
    /\ cw.pc[r] = "checked" /\ r.op = "update"
    /\ cw' = CASE Accepted(r) = {} -> Answer(cw, r, 400, <<>>)
               [] ~db -> Answer(cw, r, 500, <<>>)
               [] r.id \notin DOMAIN cw.rows -> Answer(cw, r, 404, <<>>)
               [] OTHER ->
                    LET row == [f \in Fields |-> IF f \in Accepted(r) THEN r.body[f] ELSE cw.rows[r.id][f]]
                        s == Changed([cw EXCEPT !.rows[r.id] = row], r, "updated", r.id, row)
                    IN  Answer(Fire(s, "updated", row), r, 200, r.id :> FilterResponse(row, r, IsOwner(r, row)))

\* The DELETE; the webhook is fired with the row as it was read, and only if the
\* statement deleted it.
DeleteAffectedAlways(r) == TRUE
DeleteAffected(r) == r.id \in DOMAIN cw.rows
DeleteHandler(r, db) ==
    /\ cw.pc[r] = "checked" /\ r.op = "delete"
    /\ cw' = CASE ~db -> Answer(cw, r, 500, <<>>)
               [] ~DeleteAffected(r) -> Answer(cw, r, 404, <<>>)
               [] OTHER ->
                    LET s == Changed([cw EXCEPT !.rows = [i \in DOMAIN @ \ {r.id} |-> @[i]]], r, "deleted", r.id, cw.read[r])
                    IN  Answer(Fire(s, "deleted", cw.read[r]), r, 200, <<>>)

\* The thread of one delivery: the outcome goes to the log, under its lock, and
\* then to the database; a failed insert is only printed.
RecordDispatchDropNewest(s, d, ok) ==
    [s EXCEPT !.log = Append(IF Len(@) >= MaxRecords THEN Front(@) ELSE @, [id |-> s.nextId, of |-> d, ok |-> ok]), !.nextId = @ + 1]
RecordDispatch(s, d, ok) ==
    [s EXCEPT !.log = Append(IF Len(@) >= MaxRecords THEN Tail(@) ELSE @, [id |-> s.nextId, of |-> d, ok |-> ok]), !.nextId = @ + 1]
DispatchWebhook(d, ok) ==
    /\ d \in cw.flying
    /\ cw' = [RecordDispatch(cw, d, ok) EXCEPT !.flying = @ \ {d}, !.saving = @ \cup {d}]
PersistToDb(d, db) ==
    /\ d \in cw.saving
    /\ cw' = [cw EXCEPT !.saving = @ \ {d}, !.stored = IF db THEN @ \cup {d} ELSE @]

CrudNext ==
    \/ \E r \in OpenCalls, db \in BOOLEAN :
          \/ ListHandler(r, db) \/ GetHandler(r, db) \/ CreateHandler(r, db)
          \/ Begin(r, db) \/ UpdateHandler(r, db) \/ DeleteHandler(r, db)
    \/ \E d \in cw.flying, ok \in BOOLEAN : DispatchWebhook(d, ok)
    \/ \E d \in cw.saving, db \in BOOLEAN : PersistToDb(d, db)
CrudSpec == CrudInit /\ [][CrudNext]_cw
\* Rows are numbered, and everything that is given is finite.
ASSUME CrudParams ==
    /\ \A reqs \in CallBatches : IsFiniteSet(reqs) /\ \A r \in reqs : r.id \in Int
    /\ IsFiniteSet(DOMAIN Rows) /\ DOMAIN Rows \subseteq Int
    /\ \A raw \in Hierarchies : IsFiniteSet(DOMAIN raw) /\ \A p \in DOMAIN raw : IsFiniteSet(raw[p])
    /\ IsFiniteSet(Configs) /\ MaxRecords \in Nat \ {0}

-----------------------------------------------------------------------------
\* Under a rule with "own", a row is changed only for one who owned it at some
\* moment of the request or satisfies a role of the rule: other requests may hand the
\* row over between the check and the write, but nobody writes who never owned it.
WritesByOwners ==
    \A i \in DOMAIN cw.changes :
        LET c == cw.changes[i]
        IN  c.by.op \in DOMAIN Policy /\ c.by.op # "create" =>
                \E o \in c.owners : EvaluateRule(Policy[c.by.op], c.by, o)

\* A row is created in the name of the caller: no body gives it to somebody else.
CreatorOwns ==
    \A i \in DOMAIN cw.changes :
        cw.changes[i].event = "created" /\ cw.changes[i].by.user # Nobody => cw.changes[i].row.owner = cw.changes[i].by.user

\* The webhooks sent are exactly the matching ones of the changes that took place,
\* a row is deleted once: two deletes of one row fire once, a refused or failed
\* request fires nothing.
FiredForEveryChange ==
    /\ \A c \in Configs : \A i \in 0..(Len(cw.changes) + 1) :
          [config |-> c, change |-> i] \in cw.sent <=>
              /\ i \in DOMAIN cw.changes
              /\ c.event = cw.changes[i].event /\ EvaluateFilters(c, cw.changes[i].row)
    /\ \A i, j \in DOMAIN cw.changes : cw.changes[i].event = "deleted" /\ i < j => cw.changes[j].id # cw.changes[i].id

\* The log holds the most recent deliveries with consecutive numbers, every delivery
\* once, and a delivery reaches the table only after the log.
LogIsRecent ==
    /\ cw.nextId = Cardinality(cw.sent \ cw.flying) + 1
    /\ Len(cw.log) = Min({MaxRecords, cw.nextId - 1})
    /\ \A i \in DOMAIN cw.log : cw.log[i].id = cw.nextId - Len(cw.log) + i - 1
    /\ \A i, j \in DOMAIN cw.log : i # j => cw.log[i].of # cw.log[j].of
    /\ cw.stored \cap cw.flying = {}

\* A role satisfies exactly the roles it reaches in the declared hierarchy, cycles
\* included.
ClosureIsReachability ==
    LET step(S) == UNION {cw.raw[p] : p \in S \cap DOMAIN cw.raw}
    IN  \A r \in DOMAIN cw.raw :
            /\ cw.raw[r] \cup step(cw.inherits[r]) \subseteq cw.inherits[r]
            /\ \A S \in SUBSET cw.inherits[r] : cw.raw[r] \subseteq S /\ step(S) \subseteq S => S = cw.inherits[r]

\* Overlapping CRUD requests: rows are changed by those the policy allows, created
\* rows belong to their creator, every change is announced, and the log keeps the
\* latest deliveries.
CrudSound == WritesByOwners /\ CreatorOwns /\ FiredForEveryChange /\ LogIsRecent
             /\ ClosureIsReachability
=============================================================================
