------------------------- MODULE RolloverScenarios -------------------------
(***************************************************************************)
(* The rollover-scenario component: RolloverScenarioService, its handlers  *)
(* and its repository, over the relational database.                       *)
(*                                                                         *)
(* Every HTTP request is served by a goroutine of its own, here a worker.  *)
(* A handler reads the database outside any transaction, decides on what   *)
(* it read, and only then opens a transaction that updates one scenario    *)
(* and appends one audit entry.  Between two database calls of a worker    *)
(* the other workers run; what a transaction has written is seen by nobody *)
(* else until it commits.                                                  *)
(***************************************************************************)
EXTENDS DomainConstants, Naturals, Sequences

CONSTANTS
    Workers,     \* goroutines: how many requests are in flight at once
    Users,       \* accounts
    RoleOf,      \* the role in each account's token
    Ids,         \* primary keys of scenarios
    Inputs,      \* frozen inputs: input_hash, algorithm_version, simulation_time
    Keys,        \* the Idempotency-Keys clients send
    NoKey,       \* the empty string: what a draft stores in idempotency_key
    Results,     \* simulation results
    Evaluate,    \* algorithm.Simulate: deterministic in the frozen input
    NoResult,    \* the result columns of a scenario never simulated
    NoUser,      \* verified_by of a scenario nobody verified
    NoScenario,  \* the value of a row that does not exist
    None,        \* the value of a request field not in use
    SeedRows,    \* the scenarios the start-up seed may have left behind
    MaxHistory   \* bound: length of the audit log

Scenario == [state : ScenarioStates, creator : Users, input : Inputs,
             result : Results \union {NoResult}, key : Keys \union {NoKey},
             verifier : Users \union {NoUser}, replayed : BOOLEAN]

\* What of a scenario the life cycle is about.
LifecycleView == [state : ScenarioStates, creator : Users, input : Inputs,
                  verifier : Users \union {NoUser}]

\* seedDomain stores one simulated scenario with a key of its own.
SeedScenario ==
    [state : {"simulated"}, creator : Users, input : Inputs, result : Results,
     key : Keys, verifier : {NoUser}, replayed : {FALSE}]

ASSUME ConstantsAssumption ==
    /\ RoleOf \in [Users -> Roles]
    /\ Evaluate \in [Inputs -> Results]
    /\ NoKey \notin Keys
    /\ NoResult \notin Results
    /\ NoUser \notin Users
    /\ NoScenario \notin Scenario \union LifecycleView
    /\ None \notin Users \union Ids \union Inputs
    /\ MaxHistory \in Nat
    /\ \A table \in SeedRows :
        /\ table \in [Ids -> SeedScenario \union {NoScenario}]
        /\ \A i \in Ids : table[i] # NoScenario =>
              /\ table[i].result = Evaluate[table[i].input]
              /\ \A j \in Ids \ {i} : table[j] # NoScenario =>
                    table[i].key # table[j].key /\ table[i].input # table[j].input

VARIABLES
    rows,   \* rollover_scenarios: id -> committed row or NoScenario
    audit,  \* audit_logs: the committed entries, oldest first
    req     \* worker -> the request it is serving

vars == <<rows, audit, req>>

----------------------------------------------------------------------------
(* Requests *)

Ops == {"create", "simulate", "transition", "replay"}

\* idle, then the reads, then the transaction, then the read of the answer.
\*   loaded    the scenario was read and the caller may act on it
\*   checked   every check passed; the transaction is about to begin
\*   locked    inside the transaction: the row is found and locked, its new
\*             index entries are still to be stored
\*   written   inside the transaction: the row is updated, and locked
\*   recorded  inside the transaction: the audit entry is appended too
\*   committed the transaction is durable; the answer is still to be read
\*   answered  the response is on its way
Stages == {"idle", "loaded", "checked", "locked", "written", "recorded",
           "committed", "answered"}

\* The transaction holds the lock of its row ...
Holding == {"locked", "written", "recorded"}

\* ... and its statement is done.
InTransaction == {"written", "recorded"}

Codes == {"none", "ok", "reused", "forbidden", "not_found", "key_required",
          "key_bound", "illegal_state", "reviewer_required", "concurrent",
          "duplicate", "replay_differs", "internal"}

Targets == {"draft", "ready", "executing", "verified", "rollback"}

Request ==
    [stage : Stages, op : Ops \union {"none"}, user : Users \union {None},
     id : Ids \union {None}, input : Inputs \union {None},
     key : Keys \union {NoKey}, to : Targets \union {"none"},
     seen : Scenario \union {NoScenario},   \* the row as the handler read it
     write : Scenario \union {NoScenario},  \* the row the transaction stores
     code : Codes,
     reply : Scenario \union {NoScenario}]  \* the row in the response body

Idle == [stage |-> "idle", op |-> "none", user |-> None, id |-> None,
         input |-> None, key |-> NoKey, to |-> "none", seen |-> NoScenario,
         write |-> NoScenario, code |-> "none", reply |-> NoScenario]

Entry == [user : Users, id : Ids, action : Ops,
          before : Scenario \union {NoScenario}, after : Scenario]

\* Committed rows, audit entries and requests in flight have their types.
TypeOK ==
    /\ rows \in [Ids -> Scenario \union {NoScenario}]
    /\ audit \in Seq(Entry)
    /\ req \in [Workers -> Request]

Init ==
    /\ rows \in SeedRows
    /\ audit = <<>>
    /\ req = [w \in Workers |-> Idle]

Stored(id) == rows[id] # NoScenario

Answer(w, code, reply) ==
    req' = [req EXCEPT ![w].stage = "answered", ![w].write = NoScenario,
                       ![w].seen = NoScenario, ![w].code = code,
                       ![w].reply = reply]

\* A request arrives; middleware and handler either refuse it at once, with
\* the code of the first check that fails, or go on to the given stage.
Arrive(w, r, refusal) ==
    /\ req[w] = Idle
    /\ Len(audit) < MaxHistory
    /\ req' = [req EXCEPT ![w] =
            IF refusal = "none" THEN r
            ELSE [r EXCEPT !.stage = "answered", !.seen = NoScenario,
                           !.code = refusal]]
    /\ UNCHANGED <<rows, audit>>

\* requireScenarioOwnership: the creator, an administrator or a PKI operator.
Manages(u, row) == RoleOf[u] \in {"admin", "pki_operator"} \/ row.creator = u

May(u, permission) == HasPermission(RoleOf[u], permission)

\* Mutant: the caller is compared with the wrong column.
ReviewerSeparatedFromVerifier(u, row) == row.verifier # u

ReviewerSeparated(u, row) == row.creator # u

----------------------------------------------------------------------------
(* Up to the transaction: reads and checks *)

\* The primary-key sequence gives an id once; the id is named here already,
\* so that the finite set Ids bounds the creations and blocks none of them.
Free(id) ==
    /\ ~ Stored(id)
    /\ \A w \in Workers : req[w].op = "create" => req[w].id # id

\* POST /rollover-scenarios: the frozen input is whatever was read just now.
BeginCreate(w, u, id, i) ==
    /\ Free(id)
    /\ Arrive(w, [Idle EXCEPT !.stage = "checked", !.op = "create", !.user = u,
                              !.id = id, !.input = i],
              IF May(u, "scenario.write") THEN "none" ELSE "forbidden")

SimulateRefusal(u, id, k) ==
    IF ~ May(u, "scenario.run")  THEN "forbidden"
    ELSE IF k = NoKey            THEN "key_required"
    ELSE IF ~ Stored(id)         THEN "not_found"
    ELSE IF ~ Manages(u, rows[id]) THEN "forbidden"
    ELSE "none"

\* POST /:id/simulate, up to the ownership check.
BeginSimulate(w, u, id, k) ==
    Arrive(w, [Idle EXCEPT !.stage = "loaded", !.op = "simulate", !.user = u,
                           !.id = id, !.key = k, !.seen = rows[id]],
           SimulateRefusal(u, id, k))

\* FindByIdempotencyKey and what Simulate makes of the answer: the state it
\* tests is that of the row read before, not of the row found now.
LookUpKey(w) ==
    LET r       == req[w]
        Bound(id) == Stored(id) /\ rows[id].key = r.key
    IN  /\ r.op = "simulate" /\ r.stage = "loaded"
        /\ UNCHANGED <<rows, audit>>
        /\ \/ /\ Bound(r.id)
              /\ Answer(w, "reused", rows[r.id])
           \/ /\ \E id \in Ids \ {r.id} : Bound(id)
              /\ Answer(w, "key_bound", NoScenario)
           \/ /\ ~ \E id \in Ids : Bound(id)
              /\ r.seen.state # "draft"
              /\ Answer(w, "illegal_state", NoScenario)
           \/ /\ ~ \E id \in Ids : Bound(id)
              /\ r.seen.state = "draft"
              /\ req' = [req EXCEPT ![w].stage = "checked"]

\* A role that may not make the move is told so, except that a creator who
\* may not verify is told about the four-eyes rule.
TransitionRefusal(u, id, to) ==
    IF to = "verified" /\ ~ May(u, "scenario.verify")
    THEN IF ~ May(u, "scenario.write")       THEN "forbidden"
         ELSE IF ~ Stored(id)                THEN "not_found"
         ELSE IF rows[id].creator = u        THEN "reviewer_required"
         ELSE "forbidden"
    ELSE IF to # "verified" /\ ~ May(u, "scenario.write") THEN "forbidden"
    ELSE IF ~ Stored(id)                     THEN "not_found"
    ELSE IF to # "verified" /\ ~ Manages(u, rows[id]) THEN "forbidden"
    ELSE IF ~ CanTransitionScenario(rows[id].state, to) THEN "illegal_state"
    ELSE IF to = "verified" /\ ~ ReviewerSeparated(u, rows[id])
                                             THEN "reviewer_required"
    ELSE "none"

\* POST /:id/transition, up to the transaction.
BeginTransition(w, u, id, to) ==
    Arrive(w, [Idle EXCEPT !.stage = "checked", !.op = "transition", !.user = u,
                           !.id = id, !.to = to, !.seen = rows[id]],
           TransitionRefusal(u, id, to))

\* Mutant: the test for a draft is dropped.
ReplayRefusalOfNoState(u, id) ==
    IF ~ May(u, "scenario.run")      THEN "forbidden"
    ELSE IF ~ Stored(id)             THEN "not_found"
    ELSE IF ~ Manages(u, rows[id])   THEN "forbidden"
    ELSE "none"

ReplayRefusal(u, id) ==
    IF ~ May(u, "scenario.run")      THEN "forbidden"
    ELSE IF ~ Stored(id)             THEN "not_found"
    ELSE IF ~ Manages(u, rows[id])   THEN "forbidden"
    ELSE IF rows[id].state = "draft" THEN "illegal_state"
    ELSE "none"

\* POST /:id/replay, up to the transaction.
BeginReplay(w, u, id) ==
    Arrive(w, [Idle EXCEPT !.stage = "checked", !.op = "replay", !.user = u,
                           !.id = id, !.seen = rows[id]],
           ReplayRefusal(u, id))

----------------------------------------------------------------------------
(* The transaction *)

\* The transactions of other workers that hold the row's lock.
Locked(w, id) ==
    \E v \in Workers \ {w} : req[v].stage \in Holding /\ req[v].id = id

\* Mutant: idempotency_key has no unique index.
SameInput(row, other) == row.input = other.input

SameUnique(row, other) == row.key = other.key \/ row.input = other.input

\* The open transaction of v has stored an index entry equal to one of the
\* row, or is replacing one: the entry waits until it is over.
HoldsEntry(v, row) ==
    /\ req[v].stage \in Holding
    /\ \E other \in {rows[req[v].id], req[v].write} \ {NoScenario} :
          SameUnique(row, other)

IndexBusy(w, row) == \E v \in Workers \ {w} : HoldsEntry(v, row)

\* The unique indexes: idempotency_key, where "" is a value like any other,
\* and idx_scenario_input.
Clashes(id, row) ==
    \E other \in Ids \ {id} : Stored(other) /\ SameUnique(row, rows[other])

\* Mutant: the repository does not use the transaction of its context.
WriteOutsideTransaction(w, row) ==
    /\ req' = [req EXCEPT ![w].stage = "written", ![w].write = row]
    /\ rows' = [rows EXCEPT ![req[w].id] = row]
    /\ UNCHANGED audit

\* The statement succeeded: the row is written in the transaction only.
WriteInTransaction(w, row) ==
    /\ req' = [req EXCEPT ![w].stage = "written", ![w].write = row]
    /\ UNCHANGED <<rows, audit>>

\* The statement failed or matched no row: gorm rolls the transaction back.
RollBack(w, code) ==
    /\ Answer(w, code, NoScenario)
    /\ UNCHANGED <<rows, audit>>

DraftRow(u, i) ==
    [state |-> "draft", creator |-> u, input |-> i, result |-> NoResult,
     key |-> NoKey, verifier |-> NoUser, replayed |-> FALSE]

\* repository.Create: INSERT under the next free primary key.
InsertScenario(w) ==
    LET r   == req[w]
        row == DraftRow(r.user, r.input)
    IN  /\ r.op = "create" /\ r.stage = "checked"
        /\ ~ IndexBusy(w, row)
        /\ \/ Clashes(r.id, row) /\ RollBack(w, "duplicate")
           \/ ~ Clashes(r.id, row) /\ WriteInTransaction(w, row)

\* Mutant: the key is missing from the updated columns.
SimulatedRowWithoutKey(row, result, k) ==
    [row EXCEPT !.state = "simulated", !.result = result]

SimulatedRow(row, result, k) ==
    [row EXCEPT !.state = "simulated", !.result = result, !.key = k]

\* Mutant: UPDATE ... WHERE id only.
LockAlways(w) ==
    LET r == req[w]
    IN  /\ r.op = "simulate" /\ r.stage = "checked"
        /\ ~ Locked(w, r.id)
        /\ req' = [req EXCEPT ![w].stage = "locked"]
        /\ UNCHANGED <<rows, audit>>

\* repository.CompleteSimulation: UPDATE ... WHERE id AND state = 'draft'
\* looks for the row, waits for its lock and looks at it again.
LockDraft(w) ==
    LET r == req[w]
    IN  /\ r.op = "simulate" /\ r.stage = "checked"
        /\ \/ /\ rows[r.id].state # "draft"
              /\ RollBack(w, "concurrent")
           \/ /\ rows[r.id].state = "draft"
              /\ ~ Locked(w, r.id)
              /\ req' = [req EXCEPT ![w].stage = "locked"]
              /\ UNCHANGED <<rows, audit>>

\* The row a simulation stores.
Completed(r) == SimulatedRow(rows[r.id], Evaluate[r.seen.input], r.key)

\* The same statement goes on: with the row locked, it stores the entry of the
\* key in its unique index.
CompleteSimulation(w) ==
    LET r   == req[w]
        row == Completed(r)
    IN  /\ r.op = "simulate" /\ r.stage = "locked"
        /\ ~ IndexBusy(w, row)
        /\ \/ Clashes(r.id, row) /\ RollBack(w, "internal")
           \/ ~ Clashes(r.id, row) /\ WriteInTransaction(w, row)

\* Mutant: a redraft clears the results.
MovedRowCleared(row, to, u) ==
    [row EXCEPT !.state = to,
                !.result = IF to = "draft" THEN NoResult ELSE @,
                !.verifier = IF to = "verified" THEN u ELSE @]

MovedRow(row, to, u) ==
    [row EXCEPT !.state = to,
                !.verifier = IF to = "verified" THEN u ELSE @]

\* Mutant: UPDATE ... WHERE id only.
ApplyTransitionAlways(w) ==
    LET r == req[w]
    IN  /\ r.op = "transition" /\ r.stage = "checked"
        /\ ~ Locked(w, r.id)
        /\ WriteInTransaction(w, MovedRow(rows[r.id], r.to, r.user))

\* repository.Transition: UPDATE ... WHERE id AND state = the state read.
ApplyTransition(w) ==
    LET r == req[w]
    IN  /\ r.op = "transition" /\ r.stage = "checked"
        /\ \/ /\ rows[r.id].state # r.seen.state
              /\ RollBack(w, "concurrent")
           \/ /\ rows[r.id].state = r.seen.state
              /\ ~ Locked(w, r.id)
              /\ WriteInTransaction(w, MovedRow(rows[r.id], r.to, r.user))

\* Replay compares a fresh evaluation with the result it read.
ReplayPasses(r) == Evaluate[r.seen.input] = r.seen.result

\* Mutant: the whole row that was read is saved again.
StoreReplayedRow(w) ==
    LET r == req[w]
    IN  /\ r.op = "replay" /\ r.stage = "checked"
        /\ ~ Locked(w, r.id)
        /\ WriteInTransaction(w, [r.seen EXCEPT !.replayed = ReplayPasses(r)])

\* repository.SetReplayVerified: UPDATE ... WHERE id, whatever the state.
StoreReplay(w) ==
    LET r == req[w]
    IN  /\ r.op = "replay" /\ r.stage = "checked"
        /\ ~ Locked(w, r.id)
        /\ WriteInTransaction(w,
                [rows[r.id] EXCEPT !.replayed = ReplayPasses(r)])

\* recordAudit, the second statement of every transaction.
RecordAudit(w) ==
    /\ req[w].stage = "written"
    /\ req' = [req EXCEPT ![w].stage = "recorded"]
    /\ UNCHANGED <<rows, audit>>

\* The after snapshot is the row the handler read, edited in memory: not the
\* row the transaction stored.
AfterSnapshot(r) ==
    CASE r.op = "create"     -> r.write
      [] r.op = "simulate"   -> SimulatedRow(r.seen, Evaluate[r.seen.input], r.key)
      [] r.op = "transition" -> MovedRow(r.seen, r.to, r.user)
      [] r.op = "replay"     -> [r.seen EXCEPT !.replayed = ReplayPasses(r)]

AuditEntry(r) ==
    [user |-> r.user, id |-> r.id, action |-> r.op, before |-> r.seen,
     after |-> AfterSnapshot(r)]

\* Row and entry become visible together.  Replay answers at once when the
\* comparison failed; every other handler goes on to read its answer.
Commit(w) ==
    LET r == req[w]
    IN  /\ r.stage = "recorded"
        /\ rows' = [rows EXCEPT ![r.id] = r.write]
        /\ audit' = Append(audit, AuditEntry(r))
        /\ \/ /\ r.op = "replay" /\ ~ ReplayPasses(r)
              /\ Answer(w, "replay_differs", NoScenario)
           \/ /\ ~ (r.op = "replay" /\ ~ ReplayPasses(r))
              /\ req' = [req EXCEPT ![w].stage = "committed",
                                    ![w].seen = NoScenario,
                                    ![w].write = NoScenario]

----------------------------------------------------------------------------
(* After the transaction *)

\* The closing s.Get: a read of its own, after the commit.
Reload(w) ==
    /\ req[w].stage = "committed"
    /\ Answer(w, "ok", rows[req[w].id])
    /\ UNCHANGED <<rows, audit>>

Deliver(w) ==
    /\ req[w].stage = "answered"
    /\ req' = [req EXCEPT ![w] = Idle]
    /\ UNCHANGED <<rows, audit>>

\* Any database call may fail (the audit insert and the commit included): an
\* open transaction is undone, a committed one is not, the client reads 500.
Fail(w) ==
    /\ req[w].stage \in {"loaded", "checked", "committed"} \union Holding
    /\ RollBack(w, "internal")

\* The server process stops: requests are lost, committed data is not.
Crash ==
    /\ \E w \in Workers : req[w] # Idle
    /\ req' = [w \in Workers |-> Idle]
    /\ UNCHANGED <<rows, audit>>

\* The bound MaxHistory is reached: the modelled part of the run is over.
HistoryFull ==
    /\ Len(audit) >= MaxHistory
    /\ \A w \in Workers : req[w] = Idle
    /\ UNCHANGED vars

Begin(w) ==
    \E u \in Users, id \in Ids :
        \/ \E i \in Inputs : BeginCreate(w, u, id, i)
        \/ \E k \in Keys \union {NoKey} : BeginSimulate(w, u, id, k)
        \/ \E to \in Targets : BeginTransition(w, u, id, to)
        \/ BeginReplay(w, u, id)

Write(w) ==
    \/ InsertScenario(w) \/ LockDraft(w) \/ CompleteSimulation(w)
    \/ ApplyTransition(w) \/ StoreReplay(w)

Proceed(w) == LookUpKey(w) \/ RecordAudit(w) \/ Commit(w) \/ Reload(w) \/ Deliver(w)

Next ==
    \/ \E w \in Workers : Begin(w) \/ Write(w) \/ Proceed(w) \/ Fail(w)
    \/ Crash
    \/ HistoryFull

Spec == Init /\ [][Next]_vars

----------------------------------------------------------------------------
(* Properties *)

\* Four eyes: a verified scenario names a verifier who is not its creator and
\* whose role may verify; any other scenario names none.  The check is made
\* on a row read before the transaction (Transition, lines 192 and 205).
ReviewerSeparation ==
    \A id \in Ids : Stored(id) =>
        IF rows[id].state = "verified"
        THEN /\ rows[id].verifier \in Users \ {rows[id].creator}
             /\ May(rows[id].verifier, "scenario.verify")
        ELSE rows[id].verifier = NoUser

\* Whatever order simulations, redrafts and replays ran in, a stored result
\* is the one its frozen input determines, it is there whenever the scenario
\* has left draft, and it came with the key that produced it.
ResultsFollowInput ==
    \A id \in Ids : Stored(id) =>
        /\ rows[id].result \in {NoResult, Evaluate[rows[id].input]}
        /\ rows[id].result = NoResult <=> rows[id].key = NoKey
        /\ rows[id].state # "draft" => rows[id].result # NoResult

\* Racing handlers never bind one Idempotency-Key to two scenarios, nor freeze
\* one input twice: Simulate looks its key up before its transaction, Create
\* does not look at all.
KeysAndInputsBindOnce ==
    \A id, other \in Ids : id # other /\ Stored(id) /\ Stored(other) =>
        /\ rows[id].key = rows[other].key => rows[id].key = NoKey
        /\ rows[id].input # rows[other].input

\* A simulation that is answered with success answers with the result of the
\* frozen input, though the row is read again after the commit (or, for a
\* repeated key, instead of it) and others may have moved it meanwhile.
SimulationAnswersCarryResult ==
    \A w \in Workers :
        req[w].op = "simulate" /\ req[w].code \in {"ok", "reused"} =>
            req[w].reply # NoScenario /\
            req[w].reply.result = Evaluate[req[w].reply.input]

\* A replay of any scenario that has left draft agrees with its history: no
\* sequence of requests makes the service report a difference.
ReplaysAgree == \A w \in Workers : req[w].code # "replay_differs"

StateOf(row) == IF row = NoScenario THEN "absent" ELSE row.state

\* A committed change of a scenario and its audit entry become visible in one
\* step, never one without the other, whatever fails or crashes; the entry's
\* snapshots name the state the row really left and the state, verifier and
\* result it really got, though they are built from an earlier read.
AuditedAtomically ==
    [][ /\ Len(audit') = Len(audit) + 1
        /\ audit = SubSeq(audit', 1, Len(audit))
        /\ LET e == audit'[Len(audit) + 1]
           IN  /\ \A id \in Ids \ {e.id} : rows'[id] = rows[id]
               /\ e.action = "replay" =>
                     /\ StateOf(rows'[e.id]) = StateOf(rows[e.id])
                     /\ rows'[e.id].replayed = e.after.replayed
               /\ e.action # "replay" =>
                     /\ StateOf(rows[e.id]) = StateOf(e.before)
                     /\ rows'[e.id].state = e.after.state
                     /\ rows'[e.id].verifier = e.after.verifier
                     /\ rows'[e.id].result = e.after.result
      ]_<<rows, audit>>

\* What is frozen stays frozen: no request changes a scenario's creator or
\* input, removes or changes a result once stored, or reopens a scenario that
\* was verified or rolled back.
FrozenStaysFrozen ==
    [][ \A id \in Ids : Stored(id) =>
          /\ rows'[id] # NoScenario
          /\ rows'[id].creator = rows[id].creator
          /\ rows'[id].input = rows[id].input
          /\ rows[id].result # NoResult => rows'[id].result = rows[id].result
          /\ rows[id].state \in {"verified", "rollback"} =>
                rows'[id] = [rows[id] EXCEPT !.replayed = rows'[id].replayed]
      ]_rows

\* Seen through its committed rows, the component behaves like the atomic
\* life cycle: every commit is one of its legal steps, made by a user entitled
\* to it, whatever the handlers read before.
LifecycleOf ==
    [id \in Ids |->
        IF Stored(id)
        THEN [state |-> rows[id].state, creator |-> rows[id].creator,
              input |-> rows[id].input, verifier |-> rows[id].verifier]
        ELSE NoScenario]

Lifecycle == INSTANCE ScenarioLifecycle WITH scenario <- LifecycleOf

ImplementsLifecycle == Lifecycle!Spec

\* A retried simulation runs again only after a redraft: however many requests
\* for one scenario pass the checks together, with one key or with several, a
\* draft is simulated, and the simulation recorded, once.
SimulatedOncePerDraft ==
    \A m, n \in DOMAIN audit :
        /\ m < n /\ audit[m].id = audit[n].id
        /\ audit[m].action = "simulate" /\ audit[n].action = "simulate"
        => \E p \in m .. n :
              /\ audit[p].id = audit[m].id
              /\ audit[p].action = "transition" /\ audit[p].after.state = "draft"

----------------------------------------------------------------------------
(* What the documentation says and the code does not do *)

\* README: "repeated requests with the same key return the stored result", so
\* a key runs at most one simulation.
KeyRunsOneSimulation ==
    \A m, n \in DOMAIN audit :
        /\ audit[m].action = "simulate" /\ audit[n].action = "simulate"
        /\ audit[m].after.key = audit[n].after.key
        => m = n

\* Create's answer "an identical frozen scenario already exists".
DuplicateMeansIdentical ==
    \A w \in Workers : req[w].code = "duplicate" =>
        \E id \in Ids : Stored(id) /\ rows[id].input = req[w].input
=============================================================================
