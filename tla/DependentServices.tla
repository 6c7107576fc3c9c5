------------------------- MODULE DependentServices -------------------------
(***************************************************************************)
(* The dependent-service component: DependentServiceService, its handlers  *)
(* and its repository, over the relational database.                       *)
(*                                                                         *)
(* A service is known here by its service_code, which the unique index     *)
(* binds to one row.  A handler decides on several reads of its own (the   *)
(* row, the references, the whole graph) and then opens a transaction that *)
(* overwrites the row, whatever it holds by then, and appends one audit    *)
(* entry.                                                                  *)
(***************************************************************************)
EXTENDS DomainConstants, DependencyGraphs, Naturals, Sequences

CONSTANTS
    Workers,     \* goroutines: how many requests are in flight at once
    Users,       \* accounts
    RoleOf,      \* the role in each account's token
    TeamOf,      \* the team in each account's token
    Teams,       \* owner teams
    Codes,       \* service codes
    Chains,      \* certificate chains that exist; none is ever deleted
    ChainRefs,   \* the chain ids requests name, existing or not
    Payloads,    \* bound: what requests ask a service to be
    NoService,   \* the value of a code no row has
    NoGraph,     \* the value of a graph that could not be read
    None,        \* the value of a request field not in use
    SeedRows,    \* the tables of services the modelled run may start from
    MaxHistory   \* bound: length of the audit log

Service == [team : Teams, chain : Chains, edges : SUBSET Codes,
            state : {"active", "inactive"}]

\* The body of a create or update request.
Payload == [team : Teams, chain : ChainRefs, edges : SUBSET Codes]

\* The edges of a table of services; a code without a row has none.
EdgesIn(table) ==
    [c \in Codes |-> IF table[c] = NoService THEN {} ELSE table[c].edges]

\* Every stored reference leads to a row, and none back to its own.
ReferencesHold(table) ==
    \A c \in Codes : table[c] # NoService =>
        /\ table[c].chain \in Chains
        /\ c \notin table[c].edges
        /\ \A d \in table[c].edges : table[d] # NoService

ASSUME ServiceAssumption ==
    /\ RoleOf \in [Users -> Roles]
    /\ TeamOf \in [Users -> Teams]
    /\ Chains \subseteq ChainRefs
    /\ Payloads \subseteq Payload
    /\ NoService \notin Service \union ChainStates
    /\ NoService \notin [chain : Chains, edges : SUBSET Codes,
                         state : {"active", "inactive"}]   \* as readers see it
    /\ NoGraph \notin [Codes -> SUBSET Codes]
    /\ None \notin Users \union Codes \union Payload
    /\ MaxHistory \in Nat
    /\ \A table \in SeedRows :
        /\ table \in [Codes -> Service \union {NoService}]
        /\ \A c \in Codes : table[c] # NoService => table[c].state = "active"
        /\ ReferencesHold(table)

VARIABLES
    services,  \* dependent_services: code -> committed row or NoService
    audit,     \* audit_logs: the committed entries, oldest first
    req        \* worker -> the request it is serving

vars == <<services, audit, req>>

----------------------------------------------------------------------------
(* Requests *)

Ops == {"create", "update", "deactivate"}

\*   loaded     the caller may act on the service (or create one)
\*   checked    every check passed; the transaction is about to begin
\*   written    inside the transaction: the row is stored, and locked
\*   recorded   inside the transaction: the audit entry is appended too
\*   committed  the transaction is durable; the answer is still to be read
\*   answered   the response is on its way
Stages == {"idle", "loaded", "checked", "written", "recorded", "committed",
           "answered"}

InTransaction == {"written", "recorded"}

Answers == {"none", "ok", "forbidden", "not_found", "bad_reference", "cyclic",
            "inactive", "duplicate", "concurrent", "internal"}

Request ==
    [stage : Stages, op : Ops \union {"none"}, user : Users \union {None},
     service : Codes \union {None}, body : Payload \union {None},
     seen : Service \union {NoService},    \* the row as the handler read it
     graph : [Codes -> SUBSET Codes] \union {NoGraph},  \* the edges it checked
     write : Service \union {NoService},   \* the row the transaction stores
     answer : Answers]

Idle == [stage |-> "idle", op |-> "none", user |-> None, service |-> None,
         body |-> None, seen |-> NoService, graph |-> NoGraph,
         write |-> NoService, answer |-> "none"]

Entry == [user : Users, service : Codes, action : Ops,
          before : Service \union {NoService}, after : Service]

\* Committed rows, audit entries and requests in flight have their types.
TypeOK ==
    /\ services \in [Codes -> Service \union {NoService}]
    /\ audit \in Seq(Entry)
    /\ req \in [Workers -> Request]

Init ==
    /\ services \in SeedRows
    /\ audit = <<>>
    /\ req = [w \in Workers |-> Idle]

Stored(c) == services[c] # NoService

Answer(w, code) ==
    req' = [req EXCEPT ![w] = [Idle EXCEPT !.stage = "answered", !.answer = code]]

\* A request arrives; middleware and handler either refuse it at once or go on.
Arrive(w, r, refusal) ==
    /\ req[w] = Idle
    /\ Len(audit) < MaxHistory
    /\ IF refusal = "none" THEN req' = [req EXCEPT ![w] = r] ELSE Answer(w, refusal)
    /\ UNCHANGED <<services, audit>>

May(u) == HasPermission(RoleOf[u], "dependency.write")

\* Mutant: the team is not compared.
OwnsAny(u, team) == RoleOf[u] \in {"admin", "pki_operator", "service_owner"}

\* requireServiceOwnership: staff, or an owner in the team.
Owns(u, team) ==
    \/ RoleOf[u] \in {"admin", "pki_operator"}
    \/ RoleOf[u] = "service_owner" /\ TeamOf[u] = team

MayTransfer(u, team) == RoleOf[u] = "service_owner" => team = TeamOf[u]

----------------------------------------------------------------------------
(* Up to the transaction: reads and checks *)

\* POST /dependent-services, up to the ownership check.
BeginCreate(w, u, c, body) ==
    Arrive(w, [Idle EXCEPT !.stage = "loaded", !.op = "create", !.user = u,
                           !.service = c, !.body = body],
           IF May(u) /\ Owns(u, body.team) THEN "none" ELSE "forbidden")

\* PUT /:id, up to the ownership checks on the row just read.
BeginUpdate(w, u, c, body) ==
    Arrive(w, [Idle EXCEPT !.stage = "loaded", !.op = "update", !.user = u,
                           !.service = c, !.body = body, !.seen = services[c]],
           IF ~ May(u)                         THEN "forbidden"
           ELSE IF ~ Stored(c)                 THEN "not_found"
           ELSE IF ~ Owns(u, services[c].team) THEN "forbidden"
           ELSE IF ~ MayTransfer(u, body.team) THEN "forbidden"
           ELSE "none")

\* POST /:id/deactivate, up to the transaction.
BeginDeactivate(w, u, c) ==
    Arrive(w, [Idle EXCEPT !.stage = "checked", !.op = "deactivate", !.user = u,
                           !.service = c, !.seen = services[c]],
           IF ~ May(u)                        THEN "forbidden"
           ELSE IF ~ Stored(c)                THEN "not_found"
           ELSE IF ~ Owns(u, services[c].team) THEN "forbidden"
           ELSE IF services[c].state # "active" THEN "inactive"
           ELSE "none")

\* Mutant: an unknown dependency is let through.
ReferencesOfSelfRefused(r) ==
    r.body.chain \in Chains /\ (r.op = "update" => r.service \notin r.body.edges)

\* validateReferences: chain and dependencies exist, none is the service itself.
ReferencesFound(r) ==
    /\ r.body.chain \in Chains
    /\ r.op = "update" => r.service \notin r.body.edges
    /\ \A d \in r.body.edges : Stored(d)

\* Mutant: the requested edges are not put into the graph.
CandidateAsStored(r, graph) == graph

\* The graph as it would be.  A service being created is a node of its own,
\* even if its code was taken meanwhile: its insert will then be refused.
Candidate(r, graph) ==
    IF r.op = "create" /\ Stored(r.service) THEN graph
    ELSE [graph EXCEPT ![r.service] = r.body.edges]

\* The reads of validateReferences, the second read of all services and the
\* search for a cycle.  Chains and services are never deleted, so what the
\* first reads find stays found: they are taken at the time of the last.
CheckGraph(w) ==
    LET r     == req[w]
        graph == EdgesIn(services)
    IN  /\ r.stage = "loaded"
        /\ UNCHANGED <<services, audit>>
        /\ \/ /\ ~ ReferencesFound(r)
              /\ Answer(w, "bad_reference")
           \/ /\ ReferencesFound(r) /\ ~ Acyclic(Candidate(r, graph))
              /\ Answer(w, "cyclic")
           \/ /\ ReferencesFound(r) /\ Acyclic(Candidate(r, graph))
              /\ req' = [req EXCEPT ![w].stage = "checked", ![w].graph = graph]

\* The error of the second read is dropped (all, _ :=): the search runs over
\* no service, or over the new one alone, whose dependencies are then unknown.
CheckGraphUnread(w) ==
    LET r == req[w]
    IN  /\ r.stage = "loaded" /\ ReferencesFound(r)
        /\ UNCHANGED <<services, audit>>
        /\ \/ /\ r.op = "create" /\ r.body.edges # {}
              /\ Answer(w, "cyclic")
           \/ /\ r.op = "create" => r.body.edges = {}
              /\ req' = [req EXCEPT ![w].stage = "checked"]

----------------------------------------------------------------------------
(* The transaction *)

\* The row, or the index entry of its code, is held by another transaction.
Locked(w, c) ==
    \E v \in Workers \ {w} : req[v].stage \in InTransaction /\ req[v].service = c

\* Mutant: the repository does not use the transaction of its context.
WriteOutsideTransaction(w, row) ==
    /\ req' = [req EXCEPT ![w].stage = "written", ![w].write = row]
    /\ services' = [services EXCEPT ![req[w].service] = row]
    /\ UNCHANGED audit

\* The statement succeeded: the row is written in the transaction only.
WriteInTransaction(w, row) ==
    /\ req' = [req EXCEPT ![w].stage = "written", ![w].write = row]
    /\ UNCHANGED <<services, audit>>

\* The statement failed or matched no row: gorm rolls the transaction back.
RollBack(w, code) ==
    /\ Answer(w, code)
    /\ UNCHANGED <<services, audit>>

\* Mutant: the new row's state is not set.
NewServiceUnset(body) == [team |-> body.team, chain |-> body.chain,
                          edges |-> body.edges, state |-> ""]

NewService(body) == [team |-> body.team, chain |-> body.chain,
                     edges |-> body.edges, state |-> "active"]

\* repository.Create: INSERT; service_code is unique.
InsertService(w) ==
    LET r == req[w]
    IN  /\ r.op = "create" /\ r.stage = "checked"
        /\ ~ Locked(w, r.service)
        /\ \/ Stored(r.service) /\ RollBack(w, "duplicate")
           \/ /\ ~ Stored(r.service)
              /\ WriteInTransaction(w, NewService(r.body))

\* The columns an update carries; service_state is not one of them.
Updated(row, body) ==
    [row EXCEPT !.team = body.team, !.chain = body.chain, !.edges = body.edges]

\* Mutant: the row is saved as it was read and edited.
SaveService(w) ==
    LET r == req[w]
    IN  /\ r.op = "update" /\ r.stage = "checked"
        /\ ~ Locked(w, r.service)
        /\ WriteInTransaction(w, Updated(r.seen, r.body))

\* repository.Update: UPDATE ... WHERE id, whatever the row holds by now.
UpdateService(w) ==
    LET r == req[w]
    IN  /\ r.op = "update" /\ r.stage = "checked"
        /\ ~ Locked(w, r.service)
        /\ WriteInTransaction(w, Updated(services[r.service], r.body))

\* Mutant: UPDATE ... WHERE id only.
DeactivateAlways(w) ==
    LET r == req[w]
    IN  /\ r.op = "deactivate" /\ r.stage = "checked"
        /\ ~ Locked(w, r.service)
        /\ WriteInTransaction(w, [services[r.service] EXCEPT !.state = "inactive"])

\* repository.Deactivate: UPDATE ... WHERE id AND service_state = 'active'.
DeactivateService(w) ==
    LET r == req[w]
    IN  /\ r.op = "deactivate" /\ r.stage = "checked"
        /\ ~ Locked(w, r.service)
        /\ \/ /\ services[r.service].state # "active"
              /\ RollBack(w, "concurrent")
           \/ /\ services[r.service].state = "active"
              /\ WriteInTransaction(w,
                    [services[r.service] EXCEPT !.state = "inactive"])

\* recordAudit, the second statement of every transaction.
RecordAudit(w) ==
    /\ req[w].stage = "written"
    /\ req' = [req EXCEPT ![w].stage = "recorded"]
    /\ UNCHANGED <<services, audit>>

\* The after snapshot is the row the handler read, edited in memory.
AfterSnapshot(r) ==
    CASE r.op = "create"     -> r.write
      [] r.op = "update"     -> Updated(r.seen, r.body)
      [] r.op = "deactivate" -> [r.seen EXCEPT !.state = "inactive"]

Commit(w) ==
    LET r == req[w]
    IN  /\ r.stage = "recorded"
        /\ services' = [services EXCEPT ![r.service] = r.write]
        /\ audit' = Append(audit,
                [user |-> r.user, service |-> r.service, action |-> r.op,
                 before |-> r.seen, after |-> AfterSnapshot(r)])
        /\ req' = [req EXCEPT ![w] = [Idle EXCEPT !.stage = "committed"]]

----------------------------------------------------------------------------
(* After the transaction *)

\* The closing s.Get.
Reload(w) ==
    /\ req[w].stage = "committed"
    /\ Answer(w, "ok")
    /\ UNCHANGED <<services, audit>>

Deliver(w) ==
    /\ req[w].stage = "answered"
    /\ req' = [req EXCEPT ![w] = Idle]
    /\ UNCHANGED <<services, audit>>

\* Any database call may fail: an open transaction is undone, a committed one
\* is not, the client reads 500.
Fail(w) ==
    /\ req[w].stage \in {"loaded", "checked", "written", "recorded", "committed"}
    /\ RollBack(w, "internal")

\* The server process stops: requests are lost, committed data is not.
Crash ==
    /\ \E w \in Workers : req[w] # Idle
    /\ req' = [w \in Workers |-> Idle]
    /\ UNCHANGED <<services, audit>>

\* The bound MaxHistory is reached: the modelled part of the run is over.
HistoryFull ==
    /\ Len(audit) >= MaxHistory
    /\ \A w \in Workers : req[w] = Idle
    /\ UNCHANGED vars

Begin(w) ==
    \E u \in Users, c \in Codes :
        \/ \E body \in Payloads : BeginCreate(w, u, c, body) \/ BeginUpdate(w, u, c, body)
        \/ BeginDeactivate(w, u, c)

Write(w) == InsertService(w) \/ UpdateService(w) \/ DeactivateService(w)

Proceed(w) ==
    \/ CheckGraph(w) \/ CheckGraphUnread(w)
    \/ RecordAudit(w) \/ Commit(w) \/ Reload(w) \/ Deliver(w)

Next ==
    \/ \E w \in Workers : Begin(w) \/ Write(w) \/ Proceed(w) \/ Fail(w)
    \/ Crash
    \/ HistoryFull

Spec == Init /\ [][Next]_vars

----------------------------------------------------------------------------
(* Properties *)

\* Every stored reference leads to an existing row and never back to its own,
\* though it is checked long before it is stored.
ReferencesExist == ReferencesHold(services)

\* A committed write closes a dependency cycle only if the graph its handler
\* searched was not the graph it wrote into: another write came between, or
\* the read failed.
CyclesOnlyFromStaleReads ==
    [][ Acyclic(EdgesIn(services)) /\ ~ Acyclic(EdgesIn(services')) =>
          \E w \in Workers :
              /\ req[w].stage = "recorded" /\ req'[w].stage = "committed"
              /\ req[w].graph # EdgesIn(services)
      ]_services

Deactivations(c) ==
    {n \in DOMAIN audit : audit[n].action = "deactivate" /\ audit[n].service = c}

\* A service is retired once: racing deactivations of one service are recorded
\* once, and an update that read the row earlier does not bring it back.
RetiredOnce ==
    \A c \in Codes : Stored(c) =>
        /\ services[c].state = "inactive" <=> Deactivations(c) # {}
        /\ \A m, n \in Deactivations(c) : m = n

\* A service owner gives no service away: ownership is checked on a row read
\* before the transaction, so a committed write of theirs may undo a transfer
\* made meanwhile, but it moves a service to no team but their own, and only
\* back: their team had the service when the request read it.
OwnersGiveNothingAway ==
    [][ audit' # audit =>
          LET e == audit'[Len(audit')]
              before == services[e.service]
              after  == services'[e.service]
          IN  RoleOf[e.user] = "service_owner" /\ before # NoService
              /\ after.team # before.team =>
                  /\ after.team = TeamOf[e.user]
                  /\ e.before.team = TeamOf[e.user]
      ]_<<services, audit>>

\* Row and audit entry become visible in one step, whatever fails or crashes,
\* and the entry's after snapshot has what the request changed.
AuditedAtomically ==
    [][ /\ Len(audit') = Len(audit) + 1
        /\ audit = SubSeq(audit', 1, Len(audit))
        /\ LET e == audit'[Len(audit) + 1]
               row == services'[e.service]
           IN  /\ \A c \in Codes \ {e.service} : services'[c] = services[c]
               /\ e.action \in {"create", "update"} =>
                     /\ row.team = e.after.team
                     /\ row.chain = e.after.chain
                     /\ row.edges = e.after.edges
               /\ e.action = "deactivate" => row.state = e.after.state
      ]_<<services, audit>>

\* Seen through its committed rows, the component is the inventory readers
\* are promised: every commit stores a service whose references lead to rows
\* at that moment, or retires one, whatever was read before.
Table ==
    [c \in Codes |->
        IF Stored(c)
        THEN [chain |-> services[c].chain, edges |-> services[c].edges,
              state |-> services[c].state]
        ELSE NoService]

\* The chains are there all the time.
Promised == INSTANCE Inventory WITH
    ChainIds <- Chains, ServiceIds <- Codes, Absent <- NoService,
    chains <- [c \in Chains |-> "validated"], services <- Table

ImplementsInventory == Promised!Spec

----------------------------------------------------------------------------
(* What the code and its documents say and the code does not do *)

\* Create and Update answer "dependency graph would be cyclic": a cycle is
\* never stored.
GraphStaysAcyclic == Acyclic(EdgesIn(services))
=============================================================================
