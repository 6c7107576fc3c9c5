# CertRollover, verified

This is a TLA+ development beside the code of CertRollover: a Go API
(`src/backend`) over PostgreSQL with a React client (`src/frontend`) that keeps
an inventory of trust anchors, certificate chains and dependent services, and
simulates on a frozen copy of it what replacing one trust anchor by another
would break. TLC checks the modules on small instances; TLAPS proves the
theorems of the `_proofs` modules for every value of the constants.

Source paths below are relative to `src/backend/internal/` unless they begin
with `src/`.

## 1. The system

Every HTTP request runs in a goroutine of its own through middleware
(authentication, role check, rate limit), a handler, a service and repositories.
The process shares almost nothing in memory; **the shared state is the
database**. All services follow one pattern, and most of what is hard about this
program is in it:

1. read rows, outside any transaction, and decide on them (permission,
   ownership, life cycle, four eyes, references, cycles);
2. open a transaction: one `UPDATE` or `INSERT` on one row, one audit entry;
3. read the row again, outside the transaction, and answer with it.

Between any two database calls other goroutines run. Whatever protects step 2
from a stale step 1 is in the `WHERE` clause of the statement, in a unique index,
or absent.

| Component | State | Operations | Interacts with | Hard behaviour | What makes it correct |
| --- | --- | --- | --- | --- | --- |
| **Rollover scenarios** `service/rollover_scenario_service.go` and its repository | `rollover_scenarios`: frozen input, result, key, state, verifier, replay flag | Create, Simulate (with `Idempotency-Key`), Transition, Replay; Get, List, Compare read | freezes anchors, chains and services; calls the simulation; writes the audit log | stale checks, retries of what was already done, two unique indexes, failure between row and audit entry, crash | four eyes; frozen input and result; one scenario per key and per input; only legal moves; row and audit entry together; every request ends |
| **Dependent services** `service/dependent_service_service.go` and its repository | `dependent_services`: team, chain, dependency ids, state | Create, Update, Deactivate | reads chains and the whole graph; runs the cycle search | the graph is searched before the transaction and its read error dropped; `UPDATE ... WHERE id` overwrites | references lead to rows; no cycle; retired once; owners keep to their team |
| **Cycle search** `service/common.go`, `algorithm/simulator.go` | colours, call stack | `servicesContainCycle`, `detectCycle` | called by services and by `ValidateSnapshot` | Go's map order; colours on return; unknown nodes | answers "cycle" exactly when there is one |
| **Trust-path simulation** `algorithm/simulator.go` | none: a function of the snapshot | `ValidateSnapshot`, `Simulate` | called by Simulate and Replay | recursion with an early exit; six instants for a whole window; half-open and closed intervals | reachable means supported; broken paths lead to a cause; the explanation is true |
| **Trust anchors** `service/trust_anchor_service.go`, `x509util` | `trust_anchors`: certificate, stored state, revoked, archived | Import, Lifecycle (revoke, archive, restore), List | chains refer to anchors | time makes the stored state stale; edits of a row read earlier | revocation is final; stored state never ahead of the reported one |
| **Certificate chains** `service/certificate_chain_service.go` | `certificate_chains`: anchor, window, state | Import, Transition, Compare | services refer to chains | the window is decided at import and trusted later; racing moves | open windows lie within the anchor's; only legal moves; comparison finds overlaps |
| **Audit log** | `audit_logs`, append only | written in every transaction; List | all writers | snapshots built from an earlier read | one entry per committed change, true to it |
| **Roles** `constants/roles.go`, `middleware/rbac.go` | none | the permission table | all handlers | – | used by every guard |
| **Rate limiter** `middleware/auth.go` | `buckets`: start and count per scope and caller, one mutex | count a request | in front of login, simulation and other writes | the clock is read before the lock, so requests are counted out of order | windows do not overlap, each admits `limit`; how many pass in a minute |
| **Start-up and seed** `database/database.go`, `cmd/server/main.go` | accounts, then the domain in one transaction | come up, serve, drain, stop | initial state of everything; forgets the limiters | two servers starting at once; a stop half-way | a complete seed, once; every server ends up serving |
| **Connection pool** `database/database.go`, `repository/trust_anchor_repository.go` | the connections in use: one for SQLite, twenty for PostgreSQL | borrowed for a read, kept by a transaction | every handler | handlers wait for connections while they hold rows | every request is answered |
| **Request plumbing** | none | errors, request ids, logging, redaction | – | – | – |
| **Web client state** `src/frontend/src/stores` | Zustand stores | fetch and mutate | the API | answers out of order | nothing is promised, see section 5 |
| **Web client pages** | forms | rendering | stores | – | – |

`PROJECT.json` lists these components with what is modelled of each, and under
`hazards` every place where the code is hard to test, with the properties that
watch it.

## 2. Modules

| Module | Models | Depends on |
| --- | --- | --- |
| `DomainConstants` | permission table, legal moves of scenarios and chains | |
| `ScenarioLifecycle` | **abstract specification**: a scenario as one atomic record | `DomainConstants` |
| `Inventory` | **abstract specification**: chains and services as others read them | `DomainConstants` |
| `RolloverScenarios` | handlers, service and repository of scenarios over the database | implements `ScenarioLifecycle` |
| `RolloverInvariant` | its inductive invariant | `RolloverScenarios` |
| `PooledScenarios` | the same handlers over a bounded pool of connections | extends `RolloverScenarios` |
| `ScenarioFreeze` | how Create reads a changing inventory, statement by statement | extends `Inventory` |
| `DependencyGraphs` | `Acyclic`: what both searches decide | |
| `CycleSearch` | the depth-first search, one call or return a step | `DependencyGraphs` |
| `DependentServices` | handlers, service and repository of dependent services | implements `Inventory` (services) |
| `TrustInventory` | anchors and chains while time passes | implements `Inventory` (chains) |
| `DirectTrust` | one instant of the simulation, without its search | `DependencyGraphs` |
| `TrustPaths` | the simulation of one frozen snapshot | extends `DirectTrust` |
| `StartupSeed` | how a server comes up and seeds the shared database | |
| `RateLimiter` | fixed windows, with the clock read before the mutex | |
| `ServerProcess` | a process: comes up, serves through its limiters, goes down | composes the two above |
| `..._proofs` | the theorems about the module they name; there are eight | that module, TLAPS |
| `MC...` | the small instances TLC checks | the module they name |

How they fit together:

- `DependentServices` and `TrustPaths` use `Acyclic` where the code calls its
  search; `CycleSearch` is that search in detail and `SearchDecides` proves that it
  decides `Acyclic`. The search reads one frozen list and shares nothing, so it is
  one step of the handlers that call it.
- `ScenarioFreeze` reads an inventory that follows `Inventory`;
  `TrustInventory` and `DependentServices` implement that module (`ImplementsInventory`
  in each, model-checked and proved). What freezing relies on is therefore what
  the writers do.
- `ScenarioFreeze` ends with a snapshot; `RolloverScenarios` stores it as one of its
  `Inputs`, and `TrustPaths` simulates it.
- `PooledScenarios` implements `RolloverScenarios` (`PoolRefines`), so that the
  safety theorems of the handlers hold however connections are shared.

### How state and actions correspond to the code

**`RolloverScenarios`.** `rows` holds the committed rows, `audit` the committed
entries, `req[w]` what the goroutine `w` has in its local variables: `seen` is the
row as read, `write` the uncommitted row of its open transaction, `stage` the
database call it has reached.

| Action | Code |
| --- | --- |
| `BeginCreate`, `BeginSimulate`, `BeginTransition`, `BeginReplay` | router and handler permission checks, first read, ownership and legality checks in the order of the code |
| `LookUpKey` | `FindByIdempotencyKey` and the branches after it; the state tested is that of the earlier read, as in the code |
| `InsertScenario`, `LockDraft` with `CompleteSimulation`, `ApplyTransition`, `StoreReplay` | the statement of the transaction with its `WHERE` clause and the answers for no row or a unique clash |
| `RecordAudit`, `Commit` | `recordAudit` and the commit; the snapshots come from `seen`, as in the code |
| `Reload`, `Deliver` | the closing `s.Get` and the response |
| `Fail` | any database call returns an error |
| `Crash` | the process stops: all requests vanish, committed rows stay |

The database is PostgreSQL at its default isolation. A statement sees what is
committed; one that finds no row waits for nobody. An update that finds its row
waits for the row's lock (`Locked`) and looks at its `WHERE` clause again when it
has it. An insert, or an update that changes an indexed column, then waits for a
transaction that holds an equal index entry (`IndexBusy`), and clashes with a
committed one (`Clashes`). Only the `UPDATE` of a simulation does both: `LockDraft`
locks the row, `CompleteSimulation` stores the entry of the key, and in between
the transaction holds the one while it waits for the other (stage `locked`).
An id is drawn from a sequence and never given twice (`Free`). A request that a
client repeats, because it got an error or no answer, is another request with the
same key; a commit whose acknowledgement is lost is `Commit` followed by `Fail`.

**`PooledScenarios`** adds `conns`, the workers whose transaction keeps a
connection, and conjoins to each action whether it needs a free one: reads do for
one statement (`PooledBegin`, `PooledRead`), `BeginTransaction` is
`db.Transaction`, statements of a transaction find its connection in the context
(`scopedDB`, `AuditOverOwn`). `DetectDeadlock` is the database failing a statement
that is on a circle of lock waits (`OnCircle`). The arrival of a request and its first read are one
step there, so waiting begins with the transaction or the next read; a request that
waits for its first read holds nothing and nobody waits for it.

**`DependentServices`** has the same stages. `CheckGraph` is `validateReferences`
followed by the second read of all services and the search; `CheckGraphUnread` is
the same when that read fails (`all, _ :=`). `graph` is a history of the edges
that were searched: no action reads it, properties do.

**`TrustInventory`** makes the transaction one step (`Write`): the row lock and
the atomic commit are the subject of `RolloverScenarios` and
`DependentServices`, which have the same wrapper. What it adds is time (`Tick`)
and edits of a stale copy: `Lifecycle` edits the row it read, and the statement
updates the action's columns only.

**`ScenarioFreeze`** follows `Create` up to the snapshot: `FindCandidates` is
`GetByIDs`, `ListChains` the first page of the chain list in the order of the
repository (`Rank`: the end of the window, then the newer id), `FreezeServices`
`services.All` with `buildSnapshot` and `ValidateSnapshot`. `Change` is any step of
`Inventory` by another request, between any two of them. `past` is a history of the
inventories while the reads go on; no action reads it, properties do.

**`TrustPaths`** evaluates one snapshot: `Reject` is a snapshot `ValidateSnapshot`
refuses, `Start` computes `criticalTimes`, `BeginPoint` takes them in order,
`Explain` draws the conclusion. `resolveService` is a stack machine, one call or
return a step: `ResolveService` is its call by `Simulate`, `ResolveDependency` the
recursive one; a call opens a frame on `stack`, or returns the path of a service that
fails in `broken` (`Call`); `ReturnReachable` and `ReturnBroken` are the two ways
back, and the outermost return is recorded (`Record`). The set `visiting` and
`currentPath` of the code are both the ids on the stack. What `evaluateDirect` decides
of a service at an instant is in `DirectTrust`. Ids are numbers, since chains and
dependencies are tried in id order.

**`CycleSearch`** has one action for each thing `visit` does: call it on a root or
on a dependency, meet a colour, return. The strict variant refuses unknown
services as `servicesContainCycle` does.

**`StartupSeed`** follows `database.Open`: `FindUser` and `CreateUser` for each
account, each committed on its own; `CountAnchors`; then `InsertPart` for what
`seedDomain` inserts and `CommitSeed`. A second server that inserts what another
open transaction has inserted waits (`Busy`), and fails on the unique index once it
is committed (`Taken`); an error ends the process (`Exit`).

**`RateLimiter`** splits the middleware where the code does: `ReadClock` is
`now := time.Now()`, `Count` the critical section after it. `log` is a history of what
was counted when and in which window; no action reads it. **`ServerProcess`**
conjoins the two: a request is accepted by a serving process, goes on while it
drains (`Signal`, `Shutdown`), and is forgotten with all limiters when it ends.

## 3. Runs

| Run | Question | Distinct states | Result |
| --- | --- | --- | --- |
| `RolloverSafety` | do four eyes, frozen inputs and results, unique keys, one simulation per draft and atomic audit survive two racing handlers, failures and crashes, and do the committed rows follow `ScenarioLifecycle`? | about 256 000 | holds |
| `RolloverLiveness` | is every request answered, with one connection or with enough, though handlers wait for each other, even in a circle? | about 152 000 | holds |
| `ServicesSafety` | references, retirement, ownership, audit; how can a cycle get in; do the rows follow `Inventory`? | about 550 000 | holds |
| `CycleSearch` | does the search decide, in every order? | about 21 000 | holds |
| `TrustPaths` | reachability, paths, candidates and critical times | about 216 000 | holds |
| `InventorySafety` | anchors and chains under races and passing time; do the chains follow `Inventory`? | about 626 000 | holds |
| `ScenarioFreeze` | what may a snapshot read in several statements lack or mix? | about 850 000 | holds |
| `ServerProcess` | seed, limiter and liveness of two servers with a stop at any point | about 1 426 000 | holds |
| `RolloverKeyReuse`, `RolloverDuplicate`, `ServicesCycle`, `SimulationExplanation` | what a document or a message of the program says | | violated, see section 6 |

What the less obvious properties say:

- `IInv` of `RolloverSafety` is the inductive invariant of section 4; the type invariant
  `TypeOK` is its first part.
- `ReviewerSeparation`: the four-eyes check is made on a row read earlier. It
  holds because the creator never changes and because the `WHERE state =` clause
  refuses a row that has moved on; a row that left `executing` does not come back.
- `ResultsFollowInput`, `ReplaysAgree`: a redraft leaves the results of the earlier
  simulation in place. That is sound only because the input is frozen and the
  simulation deterministic; a redraft that cleared them would let a racing retry
  answer without a result (`SimulationAnswersCarryResult`).
- `SimulatedOncePerDraft`: between two simulations of a scenario lies a redraft,
  however often a client repeats a request it got no answer to and whatever the key.
- `ImplementsLifecycle`: mapped by `LifecycleOf` (drop result, key and replay flag
  of every committed row), each commit is one step of the abstract life cycle by
  a user entitled to it, and everything else is a stutter.
- `CirclesAreDetected`: requests wait for rows, index entries and connections. A
  circle of waits exists: two simulations hold their drafts' rows and ask for each
  other's keys, which takes two delayed requests and two redrafts. It is made
  of locks only, so the database sees it and fails one statement; none goes through
  the pool, where nobody would look.
- `OwnersGiveNothingAway`: what remains of ownership when it is checked on a row read
  before the transaction. An owner's write may undo a transfer made meanwhile; it never
  takes a service that was not their team's when the request read it.
- `CyclesOnlyFromStaleReads`: the guarantee that remains of the cycle check. A
  commit closes a cycle only if the graph its handler searched differs from the
  one it wrote into. `GraphStaysAcyclic`, the guarantee the code means to give,
  is violated.
- `ReachabilityIsSupport`: the depth-first resolution, with its visiting set and
  early exit, agrees with a definition that makes no search.
- `BrokenPathsLeadToCause`: the path goes from each service to the first of its
  dependencies without a support, until one fails on its own. The search knows of a
  dependency's support only when its call returns, after others may have failed.
- `ComparisonFindsOverlap`: an overlap is reported exactly when some instant lies in
  both windows, whatever was imported and however often.
- `CriticalTimesSuffice`: six instants decide a whole window when no chain begins or
  ends within it. Without that condition it is the violated `ExplanationHolds`.
- `StoredStateLags`: an anchor's stored state is never ahead of the one responses
  report. They may differ: time passes and nothing stores it.
- `InventoryFollowsAudit`: the rows can be rebuilt from the log, though each entry
  was written by a handler that had read the row earlier.
- `FrozenServicesResolve`: the simulation follows dependencies without asking whether
  they were frozen. They are, because rows are never deleted, the services are
  read by one statement, and retired ones are read too.
- `MissingChainIsExplained`, `MissingCandidateIsExplained`: a snapshot may lack the
  chain of a service, and Create may refuse a candidate it has just found, but only
  for two reasons: the chain is newer than the list, or a full page kept it out.
- `SnapshotOfTwoMoments`: a snapshot is none of the inventory at one moment, but of two at
  most, both of its own creation and in order: the chains are the first page of the one,
  the services all of the other.
- `WindowsKept`, `BurstBounded`: requests reach the mutex late and out of order. The
  windows still follow each other a minute apart; what a handler behind the limiter
  may see within a minute of the clock is less than two windows, and one more for
  every minute a goroutine may be kept from the mutex. The last
  bound is tight.
- `EveryServerServes`: a server that loses the race for the seed exits, is started
  again, finds the seed and serves.

`PROJECT.json` gives for every property of a passing run a mutant: a plausible bug
(a lost `WHERE` condition, a save of the whole row, a statement outside the
transaction, a colour not set on return, a transaction not
passed on ...) under which TLC finds that very
property violated. Operators marked `Mutant:` in the modules exist for that only.

### Bounds

| Bound | Value | Why it is enough |
| --- | --- | --- |
| `Workers` | 2 (1 in the runs that find violations in one request sequence) | every race in the code is between a stale read and one other commit; each handler has one transaction on one row. The proofs have no bound |
| `MaxHistory`, committed writes | 3 for scenarios (from a seeded, simulated one: ready, executing, verified; or redraft, simulate, ...), 2 for liveness (whose late start has a longer log, so that no further request arrives after it), more for key reuse; 2 for services; 3 for the inventory | a request begins only while the log is shorter, so commits in flight may exceed it. Two commits make a cycle, three complete the life cycle of a scenario after its simulation |
| `PoolSizes` | 1 and 2 | SQLite's pool, and one that never runs out for two handlers, as twenty do not |
| `LateInit`, the late start of `RolloverLiveness` | six entries in the log, two requests checked long ago | a state of `PooledSpec` with a third goroutine, which simulates and reopens both drafts while two others wait to begin their transactions; both drafts change while both requests are in flight, so two handlers do not get there from the seed. `LateAudit` lists what happened |
| chains at the start of `ScenarioFreeze` | validated, or not there | as they are imported; `Change` moves them |
| `Change` of `ScenarioFreeze` | only before all is read | the snapshot is complete then, and nothing that happens later reaches it |
| scenarios, inputs, keys | 2 each (3 scenarios and inputs in `RolloverDuplicate`) | a clash needs two; two of the inputs share a result, so equal results do not identify inputs |
| users | an owner, an administrator who may also verify, a reviewer (only for safety); an owner and an operator | one for each outcome of the permission and ownership checks |
| services | 2 codes, with every edge between them; 3 in `CycleSearch` and `TrustPaths` | three give shared dependencies (diamonds with one side collapsed), self loops, two- and three-cycles |
| `MaxTime`, `Expiring`, `Minute` | 4, 1, 2 units | the clock passes the end of the legacy root and of its bundle; a minute is smaller than the overlap and has an instant inside |
| snapshots of `TrustPaths` | every loop-free graph of three services with three kinds of trust, and a family of chain windows around the overlap | the first varies structure at fixed times, the second times at a fixed structure |
| `PageSize`, `MaxChanges` | 2 of 3 chains, 2 changes | a page can be full with one chain left over; a change falls between each two of the three reads |
| servers, `NAccounts`, `MaxFaults` | 2, 2, 1 | every order of two servers coming up, with a stop between any two steps, the two accounts included |
| `Limit`, `MaxDelay`, `MaxTime`, `MaxRequests` | 2, one minute, two minutes, 6 | three windows fit, and the request that would make `BurstBounded` fail is the last one |

Worker symmetry is used in safety runs only. `CHECK_DEADLOCK FALSE` stands where a
computation ends (`CycleSearch`, `TrustPaths` and `SimulationExplanation`);
the others check deadlock; `HistoryFull`, and `BoundsReached` in `ServerProcess`,
are the only places where a bound may stop them.

### Fairness

`PooledSpec` (and `MCSpec` of `RolloverLiveness`, which is `PooledSpec` with the late start
besides) assumes weak fairness of `Advance(w)`, because the
Go scheduler runs a goroutine that can go on; strong fairness of reads and of the
beginning of a transaction, because `database/sql` hands a connection that is given
back to one of those waiting, chosen at random; and strong fairness of
`PooledWrite(w)`, because PostgreSQL serves the transactions waiting for a row
or an index entry in the order they came. In all three, who can go on again and
again gets its turn. `DetectDeadlock(w)` is weakly fair, since PostgreSQL looks for a
circle whenever a statement has waited for `deadlock_timeout`, a second unless
configured otherwise. Nothing is assumed of
arrivals, other failures or crashes. A handler waits for a connection only while it
holds nothing, which is why no circle goes through the pool; with one
connection there is one transaction and no circle at all.

`ServerProcess` assumes weak fairness of `Boot(s)`, because `src/docker-compose.yml`
restarts a process that ended (`restart: unless-stopped`) and one that comes up
goes on, and of `Shutdown(s)`, because `server.Shutdown` returns at its timeout at the
latest. Stops are finitely many, by `MaxFaults`: nothing serves for ever if it is
stopped for ever.

## 4. Proofs

`RolloverScenarios_proofs` (`\A` workers, users, ids, inputs, keys, tables the
seed may leave, from `ConstantsAssumption` only):

| Theorem | Establishes |
| --- | --- |
| `Inductive` | `Spec => []IInv` |
| `TypeCorrect`, `ReviewersSeparated`, `ResultsSound`, `KeysAndInputsUnique` | `TypeOK`, `ReviewerSeparation`, `ResultsFollowInput`, `KeysAndInputsBindOnce` |
| `Frozen`, `AuditAtomicity` | the action properties `FrozenStaysFrozen`, `AuditedAtomically` |
| `SimulationsAnswered`, `ReplaysPass` | `SimulationAnswersCarryResult`, `ReplaysAgree` |
| `Refinement` | `ImplementsLifecycle` |

The properties are not inductive: each speaks of committed rows, while a row
about to be committed sits in a request and was decided on from an older row.
`IInv` (in `RolloverInvariant`) adds what a handler knows and how long it
stays true:

- `Checked`: what the checks established about the row **as read**;
- `SeenStands`: creator and input of that row are still the stored ones, since
  nothing changes them. State, key and flag may be stale;
- `LockStands`: a simulation that has its row and waits for the entry of its key has the
  row of a draft, which the lock keeps one;
- `WriteStands`: from the statement to the commit the row lock pins the row: it is
  still in the state the `WHERE` clause found, and the row to be stored is that
  row with the request's columns changed;
- `RowsApart`: two open transactions hold different rows;
- `IndexesHold`: no row about to be stored has a key or an input of another
  committed row or another open transaction. This is what makes uniqueness survive
  the commit: `Clashes` sees committed rows only, `IndexBusy` the open ones.

Preservation has one lemma per action (`...Sound`); steps that touch one request
only go through `LocalStep`, writes through `WriteStep` and `OpenWriteSound`.
The action properties rest on `OnlyCommitChangesRows` and `CommitEffect`; the
refinement maps each `Commit` to the life-cycle step of its operation
(`StepRefines`). What the answers say needs one more invariant, `AnswersSound`,
inductive relative to `IInv`: the row of a simulation that has committed but not
yet read it back carries the result of its input, and keeps it whatever others
commit meanwhile (`RowsKept`).

`SimulatedOnce` proves `SimulatedOncePerDraft` from one more relative invariant
(`SimulationsNoted`): a scenario that is a draft has a redraft in the log after every
simulation of it.

`PooledScenarios_proofs` (`PoolAssumption`: any size but zero): `PoolRefines`
(`PooledSpec => Spec`: every step over the pool is a step or a stutter of the
handlers) and `PoolHeld` (every transaction holds a connection, nobody else does but
who is about to begin one, and no more are held than the pool has). From these,
the safety half of `EveryRequestEnds`, for any number of handlers and any pool:

- `CirclesDetected`: `WaitsFor` has an edge to whoever holds the row, the index entry or
  the connection that the next statement of a request needs. A transaction that has
  written waits for nobody (its audit entry goes over its own connection: over
  another one, a pool of one stops at once: `OneConnectionEach`), one that waits for its row only for those
  that hold it (`BlockersHold`), an insert holds nothing yet, and a request without
  connection is waited for by nobody. A circle therefore goes on inside the requests
  that hold a row and wait for an index entry (`CircleGoesOn`): simulations of
  drafts, each asking for the key the next draft still has (`CircleLocked`). That
  some of those who wait for each other are on a circle (`CircleExists`) takes a smallest
  set of which each waits for a member. Two transactions on a circle hold two
  connections, so the pool has more than one (`PoolHeld`).
- `NeverStuck`: hence, while requests are in flight, the guards of the next step of one
  of them hold, or one of them is on a circle and the database fails it.

`CycleSearch_proofs` (every set of nodes, every graph, `strict` or not):
`SearchInvariant` and `SearchDecides`. The invariant says that the open calls are
the nodes being visited, each called by the one below (`StackHolds`), that visited
nodes depend on visited ones and lie on no cycle (`VisitedHolds`), and that a root
taken from the loop is visited or at the bottom of the stack (`RootsHold`).
Meeting a node being visited then closes a cycle along the stack
(`CycleClosed`), and a return adds a node without an edge into the rest
(`TopReduced`).

`DependentServices_proofs` (`ServiceAssumption`: any users, teams, codes, payloads;
seeded references hold and seeded services are active):

| Theorem | Establishes |
| --- | --- |
| `Inductive`, `TypeCorrect` | `IInv`, `TypeOK` |
| `ReferencesLead`, `Retired` | `ReferencesExist`, `RetiredOnce` |
| `AuditAtomicity`, `OwnersKeep`, `CyclesAreStale` | `AuditedAtomically`, `OwnersGiveNothingAway`, `CyclesOnlyFromStaleReads` |
| `Refinement` | `ImplementsInventory` |

`IInv` adds what a request knows (`Known`: references found stay found, since no
row is removed, but the graph it searched may be an old one), what an open
transaction is about to store (`OpenWrite`, kept by the row lock), that open
transactions hold different rows (`LocksExclude`), and that a retirement is in
the log only of a stored row (`RetirementsRecorded`).

`TrustInventory_proofs` (`InventoryAssumption`, `SeedAssumption`: certificates with integer
ends, a seed as `seedDomain` leaves it; the clock has no bound that matters):

| Theorem | Establishes |
| --- | --- |
| `Inductive`, `TypeCorrect` | `IInv`, `TypeOK` |
| `StatesLag`, `OpenChainsValid`, `LogFollowed` | `StoredStateLags`, `OpenChainsHaveValidAnchors`, `InventoryFollowsAudit` |
| `MovesForward` | `LifecyclesMoveForward` |
| `Refinement` | `ImplementsInventory` |
| `ComparisonCorrect` | `ComparisonFindsOverlap` |

`AnchorLags` and `ChainWithin` hold of every row and of every row a request is
about to store; `Known` says of the latter that it is the row read before with the
action's columns changed, and `LogSound` that a log which speaks of a row has a last
entry about it, so that "what the log says last" is defined. The comparison rests on
`OverlapDecided`, a fact about two intervals of integers.

`ScenarioFreeze_proofs` (`FreezeAssumption`: finitely many chains in a total order, any
size of page): `FreezeTypeCorrect`, `FrozenResolve`, `MissingChains`,
`MissingCandidates`, `SnapshotsOfTwoMoments`. `FreezeInv` says what each read has
established, keeps `References` of the inventory itself, and that `past` ends with the
inventory as it is and begins with the candidates in it (`PastSound`). The argument about the
page is a count: when a chain is missing from it, `PageSize` others rank before,
and the chains on the page are as many as those ranks (a bijection), hence the page is
full and all on it rank lower.

`ServerProcess_proofs` (`StartupAssumption`, `LimiterAssumption`, `OwnMemory`: any servers,
accounts, keys, goroutines, limit and delay):

- `SeededWholeAndOnce`: in `SeedInv`, only one transaction has inserted the anchors,
  and none while anchors are committed; accounts are found or made in order.
- `SeedersPass`: servers that seed at once do not wait for each other's unique codes in
  a circle, since all insert in one order and the first one holds the anchors.
- `WindowsAreKept`: in `WindowInv` the bucket fits the log, in that its count is the
  number of entries with its start and no window begins within a minute of
  another.
- `BurstsAreBounded`: with `TimedInv` (a goroutine holds a time at most `MaxDelay` old),
  the requests counted within a minute lie in at most
  `2 + RoundedUp(MaxDelay, Minute)` windows. They are mapped one to one into windows
  and places in them; the first place of the first window is taken by a request
  older than the minute when all windows are met.

`TrustPaths_proofs` (`SnapshotsAssumption`: snapshots of any size whose ids are
numbers and whose times are integers, whatever else is in them; `MinuteAssumption`):

| Theorem | Establishes |
| --- | --- |
| `Inductive`, `TypeCorrect` | `IInv`, `TypeOK` |
| `SearchFindsSupport`, `PathsExplain` | `ReachabilityIsSupport`, `BrokenPathsLeadToCause` |
| `MoreCandidatesHelp` | `CandidatesOnlyHelp` |
| `VerdictCorrect` | `Explain` speaks of no failure exactly when every active service has a support at every critical time |
| `InstantsSuffice`, `CriticalTimesEnough` | three of the six instants show each set of anchors the window knows; hence `CriticalTimesSuffice` |
| `NestingBounded` | no service is on the stack twice: the recursion is at most as deep as there are active services |
| `ResultDetermined` | the evidence a simulation ends with is `Result(snapshot)`: a function of the frozen input |

`IInv` is about a search that is under way. `StackHolds` says of each open call that
its service does not fail, that the dependency it waits for (`Called`) comes before
those left, and that those done before are supported. `BrokenHolds` says of a path on
its way up that it runs along the open calls, and leads to its cause from the one that
returned it, which has no support. A call can find its service visiting only if the
stack closes a cycle, which `Valid` excludes (`NeverVisiting`); a return adds one
unfolding of `Supported` (`SupportUnfolds`). `Phases` keeps the timepoints in their
order, so that with one path to a cause (`SamePath`) and one order of the times
(`SameTimes`) a snapshot has one result (`OneResult`). That is what the constant
`Evaluate` of `RolloverScenarios`, and with it `ReplaysAgree`, take for granted of
`Simulate`. Inductions over a position in a path or a sequence take the least
counterexample (`LeastElement`, by well-foundedness), as the induction theorems with an
operator parameter are out of the provers' reach.

Only model-checked: liveness (`EveryRequestEnds`, `EveryServerServes`). Fairness speaks
of `ENABLED`, which the provers do not treat; their safety halves are `CirclesDetected`,
`NeverStuck` and `SeedersPass`. Every other property of a passing run is a theorem.

## 5. Not modelled

- **Content**: names, codes, texts, hashes, PEM and ASN.1, signatures (a bundle
  leads to a root or does not), tokens and passwords (a request carries a user with
  the role of its token), pagination other than the one page of chains Create reads,
  redaction, the list of audit entries.
- **Differences**: Compare of two scenarios, the reasons attached to failures, and
  evidence hashes are formatting of results that are modelled.
- **Web client stores**: each keeps the answer that arrived last. Answers of two
  requests may arrive in the other order and the older one then stays until the next
  request; neither code nor documents promise otherwise, so there is no property of
  the code to check.
- **Schema migration and configuration**: I/O at start-up, before the seed.
- **Memory**: buckets of the limiter are never removed.
- **Plumbing, pages**: no protocol of their own.

## 6. Where code and documents disagree

| Run | What happens |
| --- | --- |
| `RolloverDuplicate` | a draft stores the empty `idempotency_key` under a plain unique index, so a second draft is refused as "an identical frozen scenario already exists" though its input is new |
| `RolloverKeyReuse` | redrafting and simulating under another key overwrites the first key, which may then run again; the README promises the stored result for a repeated key |
| `ServicesCycle` | two updates that pass the check on the same graph close a cycle together; or one does, when the read of the graph failed |
| `SimulationExplanation` | a chain that begins or ends between two of the six instants leaves services unreachable inside a window said to be covered |

The models show four more things a reader of the code may not expect:

- The team of a service is compared on the row read before the transaction, and neither
  `UPDATE` asks for it again: when an operator gives a service to another team in
  between, its former owner still updates or retires it, and an update takes it
  back. "service owner may only modify services owned by their team"
  (`service/dependent_service_service.go:36`) is true of the row as it was read.
- Replay writes by id alone and records snapshots of the row it read before
  (`service/rollover_scenario_service.go:252`): when a transition commits in between,
  its audit entry shows a row as it no longer was.
- The list of anchors filters by the state stored at import
  (`repository/trust_anchor_repository.go`), responses compute it from the date.
- With more than 200 chains, a scenario freezes those that end first: an existing
  candidate beyond them is refused as missing.

## 7. Plan

Done, in this order: `RolloverScenarios` with its abstract specification, first
because everything the program promises ends in its table; `CycleSearch`,
`DependentServices`, `TrustPaths`, `TrustInventory`; then their proofs, the abstract
`Inventory` with the two refinements, `ScenarioFreeze` over it, `PooledScenarios`, and
`StartupSeed`, `RateLimiter` and `ServerProcess`, with the proofs of all of them.

What could follow:

1. The inventory's two components and `ScenarioFreeze` in one module, so that what is
   frozen is proved over the handlers themselves and not over `Inventory`.
2. Transactions of more than one row, should a handler ever take two: `Locked` then speaks
   of sets of rows, and circles of rows join those of rows and keys.
3. `EveryRequestEnds` for the handlers of services and of the inventory, which share
   their transaction wrapper with those of scenarios.
