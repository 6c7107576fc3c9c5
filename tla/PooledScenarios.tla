-------------------------- MODULE PooledScenarios --------------------------
(***************************************************************************)
(* RolloverScenarios over a bounded pool of database connections: one for  *)
(* SQLite, twenty for PostgreSQL.  A read borrows a connection for one     *)
(* statement; a transaction keeps one from its beginning to its end, also  *)
(* while it waits for another transaction's row.  Statements of a          *)
(* transaction find its connection in the context (scopedDB).              *)
(***************************************************************************)
EXTENDS RolloverScenarios, FiniteSets

CONSTANT PoolSizes    \* what SetMaxOpenConns may have been given

ASSUME PoolAssumption == PoolSizes \subseteq Nat \ {0}

VARIABLES
    poolSize,  \* chosen when the process starts
    conns      \* the workers whose transaction holds a connection

pooledVars == <<vars, poolSize, conns>>

PooledInit == Init /\ poolSize \in PoolSizes /\ conns = {}

FreeConnection == Cardinality(conns) < poolSize

\* A transaction that ended, in whatever way, gives its connection back.
Kept == {w \in conns : req'[w].stage \in {"checked"} \union Holding}

Keeping == conns' = Kept /\ UNCHANGED poolSize

\* A request arrives.  Its first read needs a connection; the refusals that
\* come before any read need none.
PooledBegin(w) ==
    /\ Begin(w)
    /\ FreeConnection \/ req'[w].code \in {"forbidden", "key_required"}
    /\ Keeping

PooledRead(w) == FreeConnection /\ (LookUpKey(w) \/ Reload(w)) /\ Keeping

\* db.Transaction: takes a connection before any row is locked.
BeginTransaction(w) ==
    /\ req[w].stage = "checked" /\ w \notin conns
    /\ FreeConnection
    /\ conns' = conns \union {w}
    /\ UNCHANGED <<vars, poolSize>>

PooledWrite(w) == w \in conns /\ Write(w) /\ Keeping

\* Mutant: the audit repository does not look into its context.
AuditOverAnother(w) == FreeConnection

\* Over which connection the audit entry is written.
AuditOverOwn(w) == w \in conns

\* What a goroutine does without waiting for others.
Advance(w) ==
    /\ \/ AuditOverOwn(w) /\ RecordAudit(w)
       \/ Commit(w) \/ Deliver(w)
    /\ Keeping

----------------------------------------------------------------------------
(* Who waits for whom *)

\* A statement that matches no row is answered at once; one that does waits
\* for the lock of the row.
NeedsRow(w) ==
    LET r == req[w]
    IN  /\ r.stage = "checked" /\ w \in conns
        /\ \/ r.op = "simulate" /\ rows[r.id].state = "draft"
           \/ r.op = "transition" /\ rows[r.id].state = r.seen.state
           \/ r.op = "replay"

\* An insert, or a simulation that has its row, stores index entries.
NeedsEntry(w) ==
    \/ req[w].op = "create" /\ req[w].stage = "checked" /\ w \in conns
    \/ req[w].stage = "locked"

NewRow(r) == IF r.op = "create" THEN DraftRow(r.user, r.input) ELSE Completed(r)

\* The transactions the next statement of w has to wait for.
Blockers(w) ==
    {v \in Workers \ {w} :
        \/ NeedsRow(w) /\ req[v].stage \in Holding /\ req[v].id = req[w].id
        \/ NeedsEntry(w) /\ HoldsEntry(v, NewRow(req[w]))}

\* The wait of w comes back to w.
OnCircle(w) ==
    \A S \in SUBSET Workers :
        Blockers(w) \subseteq S /\ (\A v \in S : Blockers(v) \subseteq S) => w \in S

\* PostgreSQL looks for such a circle when a statement has waited a second,
\* and fails the statement that is on one.
DetectDeadlock(w) == OnCircle(w) /\ RollBack(w, "internal") /\ Keeping

----------------------------------------------------------------------------

PooledNext ==
    \/ \E w \in Workers :
        \/ PooledBegin(w) \/ PooledRead(w) \/ BeginTransaction(w)
        \/ PooledWrite(w) \/ Advance(w)
        \/ DetectDeadlock(w)
        \/ Fail(w) /\ Keeping
    \/ (Crash \/ HistoryFull) /\ Keeping

\* A goroutine is never stopped while it can run, and a deadlock is found.  A
\* connection that is given back goes to one of those waiting for it, chosen
\* at random, and a row or an index entry to the transaction that has waited
\* longest: whoever can have it again and again gets it.
Fairness ==
    \A w \in Workers :
        /\ WF_pooledVars(Advance(w))
        /\ WF_pooledVars(DetectDeadlock(w))
        /\ SF_pooledVars(PooledRead(w) \/ BeginTransaction(w))
        /\ SF_pooledVars(PooledWrite(w))

PooledSpec == PooledInit /\ [][PooledNext]_pooledVars /\ Fairness

----------------------------------------------------------------------------
(* Properties *)

\* The next statement of w needs a connection it does not have, and all are
\* kept by transactions.
WaitsForConnection(w) ==
    /\ ~ FreeConnection
    /\ \/ req[w].stage \in {"loaded", "committed"}
       \/ req[w].stage = "checked" /\ w \notin conns
       \/ req[w].stage = "written" /\ ~ AuditOverOwn(w)

WaitsFor ==
    [w \in Workers |->
        Blockers(w) \union (IF WaitsForConnection(w) THEN conns ELSE {})]

\* Every circle of requests that wait for each other's rows, index entries and
\* connections holds one that the database sees, and none goes through the
\* pool, which the database knows nothing of.  Those on a circle simulate two
\* drafts that kept their keys, each asking for the key the other still has;
\* with one connection there is none.
CirclesAreDetected ==
    /\ \A S \in SUBSET Workers :
          S # {} /\ (\A w \in S : WaitsFor[w] \intersect S # {})
              => \E w \in S : OnCircle(w)
    /\ \A w \in Workers : OnCircle(w) =>
          /\ poolSize > 1
          /\ \E v \in Workers \ {w} :
                /\ OnCircle(v)
                /\ req[w].stage = "locked" /\ req[v].stage = "locked"
                /\ rows[req[v].id].state = "draft"
                /\ rows[req[v].id].key = req[w].key

\* Every request is answered: what waits for a connection, a row or an index
\* entry gets it, or is on a circle that the database breaks.
EveryRequestEnds == \A w \in Workers : req[w] # Idle ~> req[w] = Idle
=============================================================================
