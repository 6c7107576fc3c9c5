---------------------- MODULE PooledScenarios_proofs ----------------------
(***************************************************************************)
(* What a pool of connections of any size changes, and what it does not:   *)
(* the handlers over the pool do nothing they could not do without it, and *)
(* requests that wait for each other in a circle wait for each other's     *)
(* keys, where the database finds them.                                    *)
(***************************************************************************)
EXTENDS PooledScenarios, RolloverScenarios_proofs, FiniteSetTheorems, WellFoundedInduction

\* Every step over the pool is a step without it, or takes a connection.
LEMMA StepWithoutPool == [PooledNext]_pooledVars => [Next]_vars
<1> SUFFICES ASSUME [PooledNext]_pooledVars PROVE [Next]_vars
  OBVIOUS
<1>1. ASSUME NEW w \in Workers, PooledBegin(w) \/ PooledRead(w) \/ PooledWrite(w)
      PROVE  Next
  BY <1>1 DEF PooledBegin, PooledRead, PooledWrite, Next, Proceed
<1>2. ASSUME NEW w \in Workers, Advance(w) PROVE Next
  BY <1>2 DEF Advance, Next, Proceed
<1>3. ASSUME NEW w \in Workers, BeginTransaction(w) PROVE UNCHANGED vars
  BY <1>3 DEF BeginTransaction
<1>4. ASSUME NEW w \in Workers, Fail(w) PROVE Next
  BY <1>4 DEF Next
\* The detector fails a statement that waits, as any statement may fail.
<1>6. ASSUME NEW w \in Workers, DetectDeadlock(w) PROVE Next
  <2>1. Blockers(w) # {}
    BY <1>6 DEF DetectDeadlock, OnCircle
  <2>2. Fail(w)
    BY <1>6, <2>1 DEF DetectDeadlock, Blockers, NeedsRow, NeedsEntry, Fail, Holding
  <2> QED
    BY <2>2 DEF Next
<1>5. CASE UNCHANGED pooledVars
  BY <1>5 DEF pooledVars
<1> QED
  BY <1>1, <1>2, <1>3, <1>4, <1>5, <1>6 DEF PooledNext, Next

\* The handlers over the pool implement the handlers without it, so that all
\* that is proved of RolloverScenarios holds whatever the pool's size.
THEOREM PoolRefines == PooledSpec => Spec
<1>1. PooledInit => Init
  BY DEF PooledInit
<1> QED
  BY <1>1, StepWithoutPool, PTL DEF PooledSpec, Spec

\* Only a statement of its own brings a worker into its transaction, and that
\* worker has a connection by then.
LEMMA EnteringHoldsConnection ==
  ASSUME IInv, PooledNext, NEW w \in Workers,
         req[w].stage \notin Holding, req'[w].stage \in Holding
  PROVE  w \in conns
<1> SUFFICES ASSUME w \notin conns PROVE FALSE
  OBVIOUS
<1>1. req \in [Workers -> Request]
  BY DEF IInv, TypeOK
<1>2. ASSUME NEW v \in Workers, Begin(v) PROVE FALSE
  <2>1. ASSUME NEW r, NEW refusal, Arrive(v, r, refusal), "stage" \in DOMAIN r,
               r.stage \in {"loaded", "checked"}
        PROVE  FALSE
    <3>1. /\ \A x \in Workers \ {v} : req'[x] = req[x]
          /\ req'[v].stage \in {"loaded", "checked", "answered"}
      BY <1>1, <2>1 DEF Arrive
    <3> QED
      BY <3>1 DEF Holding
  <2>2. ASSUME NEW u \in Users, NEW id \in Ids, NEW i \in Inputs,
               BeginCreate(v, u, id, i)
        PROVE  FALSE
    <3> DEFINE r == [Idle EXCEPT !.stage = "checked", !.op = "create", !.user = u,
                                 !.id = id, !.input = i]
    <3>1. "stage" \in DOMAIN r /\ r.stage \in {"loaded", "checked"}
      BY DEF Idle
    <3>2. Arrive(v, r, IF May(u, "scenario.write") THEN "none" ELSE "forbidden")
      BY <2>2 DEF BeginCreate
    <3> HIDE DEF r
    <3> QED
      BY <2>1, <3>1, <3>2
  <2>3. ASSUME NEW u \in Users, NEW id \in Ids, NEW k \in Keys \union {NoKey},
               BeginSimulate(v, u, id, k)
        PROVE  FALSE
    <3> DEFINE r == [Idle EXCEPT !.stage = "loaded", !.op = "simulate", !.user = u,
                                 !.id = id, !.key = k, !.seen = rows[id]]
    <3>1. "stage" \in DOMAIN r /\ r.stage \in {"loaded", "checked"}
      BY DEF Idle
    <3>2. Arrive(v, r, SimulateRefusal(u, id, k))
      BY <2>3 DEF BeginSimulate
    <3> HIDE DEF r
    <3> QED
      BY <2>1, <3>1, <3>2
  <2>4. ASSUME NEW u \in Users, NEW id \in Ids, NEW to \in Targets,
               BeginTransition(v, u, id, to)
        PROVE  FALSE
    <3> DEFINE r == [Idle EXCEPT !.stage = "checked", !.op = "transition", !.user = u,
                                 !.id = id, !.to = to, !.seen = rows[id]]
    <3>1. "stage" \in DOMAIN r /\ r.stage \in {"loaded", "checked"}
      BY DEF Idle
    <3>2. Arrive(v, r, TransitionRefusal(u, id, to))
      BY <2>4 DEF BeginTransition
    <3> HIDE DEF r
    <3> QED
      BY <2>1, <3>1, <3>2
  <2>5. ASSUME NEW u \in Users, NEW id \in Ids, BeginReplay(v, u, id)
        PROVE  FALSE
    <3> DEFINE r == [Idle EXCEPT !.stage = "checked", !.op = "replay", !.user = u,
                                 !.id = id, !.seen = rows[id]]
    <3>1. "stage" \in DOMAIN r /\ r.stage \in {"loaded", "checked"}
      BY DEF Idle
    <3>2. Arrive(v, r, ReplayRefusal(u, id))
      BY <2>5 DEF BeginReplay
    <3> HIDE DEF r
    <3> QED
      BY <2>1, <3>1, <3>2
  <2> QED
    BY <1>2, <2>2, <2>3, <2>4, <2>5 DEF Begin
<1>3. ASSUME NEW v \in Workers, PooledWrite(v) PROVE FALSE
  <2>1. v \in conns /\ \A x \in Workers \ {v} : req'[x] = req[x]
    BY <1>1, <1>3 DEF PooledWrite, Write, InsertScenario, LockDraft,
                      CompleteSimulation, ApplyTransition, StoreReplay, WriteInTransaction, RollBack, Answer
  <2> QED
    BY <2>1
<1>4. ASSUME NEW v \in Workers, PooledRead(v) \/ Commit(v) \/ Deliver(v) \/ Fail(v)
                               \/ DetectDeadlock(v)
      PROVE  FALSE
  <2>1. /\ \A x \in Workers \ {v} : req'[x] = req[x]
        /\ req'[v].stage \in {"checked", "committed", "answered", "idle"}
    BY <1>1, <1>4 DEF PooledRead, LookUpKey, Reload, Commit, Deliver, Fail, RollBack,
                      DetectDeadlock, Answer, Idle, Request
  <2> QED
    BY <2>1 DEF Holding
<1>5. ASSUME NEW v \in Workers, RecordAudit(v) PROVE FALSE
  BY <1>1, <1>5 DEF RecordAudit, Holding
<1>6. CASE Crash \/ HistoryFull \/ req' = req
  BY <1>1, <1>6 DEF Crash, HistoryFull, vars, Idle, Holding
<1> QED
  BY <1>2, <1>3, <1>4, <1>5, <1>6
     DEF PooledNext, PooledBegin, Advance, BeginTransaction, vars

\* Never more connections than the pool has, one for every transaction, and
\* none kept but by a transaction or just before it.
PoolHolds ==
  /\ poolSize \in Nat \ {0}
  /\ conns \subseteq Workers /\ IsFiniteSet(conns) /\ Cardinality(conns) <= poolSize
  /\ \A w \in Workers : req[w].stage \in Holding => w \in conns
  /\ \A w \in conns : req[w].stage \in {"checked"} \union Holding

LEMMA PoolStep ==
  ASSUME IInv, PoolHolds, [PooledNext]_pooledVars
  PROVE  PoolHolds'
<1>1. CASE UNCHANGED pooledVars
  BY <1>1 DEF PoolHolds, pooledVars, vars
<1>2. ASSUME NEW w \in Workers, BeginTransaction(w) PROVE PoolHolds'
  <2>1. /\ conns' = conns \union {w} /\ w \notin conns
        /\ poolSize' = poolSize /\ req' = req
        /\ Cardinality(conns) < poolSize /\ req[w].stage = "checked"
    BY <1>2 DEF BeginTransaction, FreeConnection, vars
  <2>2. IsFiniteSet(conns') /\ Cardinality(conns') = Cardinality(conns) + 1
    BY <2>1, FS_AddElement DEF PoolHolds
  <2>3. Cardinality(conns) \in Nat
    BY FS_CardinalityType DEF PoolHolds
  <2> QED
    BY <2>1, <2>2, <2>3 DEF PoolHolds
<1>3. ASSUME PooledNext, Keeping PROVE PoolHolds'
  <2>1. conns' = Kept /\ Kept \subseteq conns /\ poolSize' = poolSize
    BY <1>3 DEF Keeping, Kept
  <2>2. IsFiniteSet(conns') /\ Cardinality(conns') <= Cardinality(conns)
    BY <2>1, FS_Subset DEF PoolHolds
  <2>3. Cardinality(conns) \in Nat /\ Cardinality(conns') \in Nat
    BY <2>2, FS_CardinalityType DEF PoolHolds
  <2>4. ASSUME NEW w \in Workers, req'[w].stage \in Holding PROVE w \in conns'
    <3>1. w \in conns
      BY <1>3, <2>4, EnteringHoldsConnection DEF PoolHolds
    <3> QED
      BY <2>1, <2>4, <3>1 DEF Kept
  <2>5. \A w \in conns' : req'[w].stage \in {"checked"} \union Holding
    BY <2>1 DEF Kept
  <2> QED
    BY <2>1, <2>2, <2>3, <2>4, <2>5 DEF PoolHolds
<1> QED
  BY <1>1, <1>2, <1>3
     DEF PooledNext, PooledBegin, PooledRead, PooledWrite, Advance, DetectDeadlock

\* The pool is never overdrawn, and the audit entry of an open transaction
\* always has a connection to go over: the transaction's own.
THEOREM PoolHeld == PooledSpec => []PoolHolds
<1>1. PooledInit /\ IInv => PoolHolds
  <2> SUFFICES ASSUME PooledInit PROVE PoolHolds
    OBVIOUS
  <2>1. IsFiniteSet({}) /\ Cardinality({}) = 0
    BY FS_EmptySet
  <2> QED
    BY <2>1, PoolAssumption DEF PooledInit, Init, Idle, Holding, PoolHolds
<1>2. IInv /\ PoolHolds /\ [PooledNext]_pooledVars => PoolHolds'
  BY PoolStep
<1> QED
  BY <1>1, <1>2, PoolRefines, Inductive, PTL DEF PooledSpec

----------------------------------------------------------------------------
(* Who waits for whom *)

\* What w waits for is an open transaction, and w has a connection itself.
LEMMA BlockersHold ==
  ASSUME PoolHolds, NEW w \in Workers
  PROVE  /\ Blockers(w) \subseteq {v \in conns : req[v].stage \in Holding}
         /\ Blockers(w) # {} => w \in conns /\ req[w].stage \in {"checked", "locked"}
<1>1. \A v \in Blockers(w) : v \in Workers /\ req[v].stage \in Holding
  BY DEF Blockers, HoldsEntry
<1>2. ASSUME Blockers(w) # {}
      PROVE  w \in conns /\ req[w].stage \in {"checked", "locked"}
  BY <1>2 DEF Blockers, NeedsRow, NeedsEntry, PoolHolds, Holding
<1> QED
  BY <1>1, <1>2 DEF PoolHolds

\* Who is on a circle waits for somebody who is on one.
LEMMA CircleGoesOn ==
  ASSUME NEW w \in Workers, OnCircle(w)
  PROVE  \E v \in Blockers(w) : OnCircle(v)
<1> SUFFICES ASSUME \A v \in Blockers(w) : ~ OnCircle(v)
             PROVE  FALSE
  OBVIOUS
<1> DEFINE Closed(S) == \A v \in S : Blockers(v) \subseteq S
           T == Blockers(w) \union
                {x \in Workers : \E v \in Blockers(w) : \E S \in SUBSET Workers :
                    Blockers(v) \subseteq S /\ Closed(S) /\ v \notin S /\ x \in S}
<1>1. Blockers(w) \subseteq Workers
  BY DEF Blockers
<1>2. \A v \in Blockers(w) :
         \E S \in SUBSET Workers : Blockers(v) \subseteq S /\ Closed(S) /\ v \notin S
  BY <1>1 DEF OnCircle
<1>3. T \in SUBSET Workers
  BY <1>1
<1>4. Closed(T)
  <2> SUFFICES ASSUME NEW x \in T PROVE Blockers(x) \subseteq T
    OBVIOUS
  <2>1. CASE x \in Blockers(w)
    <3>1. PICK S \in SUBSET Workers : Blockers(x) \subseteq S /\ Closed(S) /\ x \notin S
      BY <1>2, <2>1
    <3> QED
      BY <2>1, <3>1
  <2>2. CASE x \notin Blockers(w)
    <3>1. PICK v \in Blockers(w), S \in SUBSET Workers :
             Blockers(v) \subseteq S /\ Closed(S) /\ v \notin S /\ x \in S
      BY <2>2
    <3>2. Blockers(x) \subseteq S
      BY <3>1
    <3> QED
      BY <3>1, <3>2
  <2> QED
    BY <2>1, <2>2
<1>5. w \in T
  <2> HIDE DEF T
  <2>1. Blockers(w) \subseteq T
    BY DEF T
  <2> QED
    BY <1>3, <1>4, <2>1 DEF OnCircle
<1>6. w \notin Blockers(w)
  BY DEF Blockers
<1>7. PICK v \in Blockers(w), S \in SUBSET Workers :
         Blockers(v) \subseteq S /\ Closed(S) /\ v \notin S /\ w \in S
  BY <1>5, <1>6
<1>8. Blockers(w) \subseteq S
  BY <1>7
<1> QED
  BY <1>7, <1>8

\* Who is on a circle is in its transaction, with the row of a draft locked.
LEMMA CircleLocked ==
  ASSUME IInv, PoolHolds, NEW w \in Workers, OnCircle(w)
  PROVE  /\ req[w].stage = "locked" /\ req[w].op = "simulate"
         /\ req[w].id \in Ids /\ Stored(req[w].id)
         /\ rows[req[w].id].state = "draft" /\ req[w].write = NoScenario
<1> DEFINE S == {v \in Workers : req[v].stage \in Holding}
<1>1. \A v \in Workers : Blockers(v) \subseteq S
  BY DEF Blockers, HoldsEntry
<1>2. w \in S
  BY <1>1 DEF OnCircle
<1>3. Blockers(w) # {}
  BY DEF OnCircle
<1>4. req[w].stage = "locked"
  BY <1>2, <1>3, BlockersHold DEF Holding
<1>5. Checked(req[w]) /\ SeenStands(req[w]) /\ LockStands(req[w])
  BY <1>4 DEF IInv, RequestsSound, Pending, Holding
<1> QED
  BY <1>4, <1>5 DEF Checked, SeenStands, LockStands, InTransaction

\* Among finitely many that each wait for one of them, some are on a circle: a
\* smallest such set is one.
LEMMA CircleExists ==
  ASSUME NEW T \in SUBSET Workers, IsFiniteSet(T), T # {},
         \A w \in T : Blockers(w) \intersect T # {}
  PROVE  \E w \in T : OnCircle(w)
<1> SUFFICES ASSUME \A w \in T : ~ OnCircle(w)
             PROVE  FALSE
  OBVIOUS
<1> DEFINE Family == {U \in SUBSET T : U # {} /\ \A w \in U : Blockers(w) \intersect U # {}}
<1>1. IsWellFoundedOn(StrictSubsetOrdering(T), SUBSET T)
  BY FS_StrictSubsetOrderingWellFounded, FS_FiniteSubsetsOfFinite
<1>2. T \in Family /\ Family \subseteq SUBSET T
  OBVIOUS
<1>3. PICK U \in Family : \A V \in Family : <<V, U>> \notin StrictSubsetOrdering(T)
  <2> HIDE DEF Family
  <2> QED
    BY <1>1, <1>2, WFMin, Zenon
<1>4. PICK w \in U : TRUE
  BY <1>3
<1>5. w \in Workers /\ ~ OnCircle(w)
  BY <1>3, <1>4
<1>6. PICK S \in SUBSET Workers :
         Blockers(w) \subseteq S /\ (\A v \in S : Blockers(v) \subseteq S) /\ w \notin S
  BY <1>5 DEF OnCircle
<1> DEFINE V == U \intersect S
<1>7. V # {}
  BY <1>3, <1>4, <1>6
<1>8. \A v \in V : Blockers(v) \intersect V # {}
  BY <1>3, <1>6
<1>9. V \in Family
  BY <1>3, <1>7, <1>8
<1>10. <<V, U>> \in StrictSubsetOrdering(T)
  BY <1>3, <1>4, <1>6 DEF StrictSubsetOrdering
<1> QED
  BY <1>3, <1>9, <1>10

\* Who has a connection waits for none.
LEMMA OneConnectionEach ==
  ASSUME PoolHolds, NEW w \in conns
  PROVE  ~ WaitsForConnection(w)
BY DEF PoolHolds, WaitsForConnection, AuditOverOwn, Holding

\* Whatever the number of requests and the size of the pool, those that wait
\* for each other in a circle have their connections and wait for each other's
\* keys: the circle is one that the database sees and breaks.  What has no
\* connection waits for those that have one, and what has written, for nobody.
THEOREM CirclesDetected == PooledSpec => []CirclesAreDetected
<1>1. ASSUME IInv, PoolHolds, NEW S \in SUBSET Workers, S # {},
             \A w \in S : WaitsFor[w] \intersect S # {}
      PROVE  \E w \in S : OnCircle(w)
  <2> DEFINE T == S \intersect conns
  <2>1. \A w \in S : WaitsFor[w] \subseteq conns
    BY <1>1, BlockersHold DEF WaitsFor
  <2>2. T # {} /\ T \in SUBSET Workers
    BY <1>1, <2>1
  <2>3. IsFiniteSet(T)
    BY <1>1, FS_Subset DEF PoolHolds
  <2>4. ASSUME NEW w \in T PROVE Blockers(w) \intersect T # {}
    <3>1. WaitsFor[w] = Blockers(w)
      BY <1>1, OneConnectionEach DEF WaitsFor
    <3> QED
      BY <1>1, <2>1, <3>1
  <2>5. \E w \in T : OnCircle(w)
    <3> HIDE DEF T
    <3> QED
      BY <2>2, <2>3, <2>4, CircleExists
  <2> QED
    BY <2>5
<1>2. ASSUME IInv, PoolHolds, NEW w \in Workers, OnCircle(w)
      PROVE  /\ poolSize > 1
             /\ \E v \in Workers \ {w} :
                   /\ OnCircle(v)
                   /\ req[w].stage = "locked" /\ req[v].stage = "locked"
                   /\ rows[req[v].id].state = "draft"
                   /\ rows[req[v].id].key = req[w].key
  <2>1. PICK v \in Blockers(w) : OnCircle(v)
    BY <1>2, CircleGoesOn
  <2>2. v \in Workers \ {w}
    BY DEF Blockers
  <2> DEFINE r == req[w]
             s == req[v]
  <2>3. /\ r.stage = "locked" /\ r.op = "simulate"
        /\ r.id \in Ids /\ Stored(r.id)
    BY <1>2, CircleLocked
  <2>4. /\ s.stage = "locked" /\ s.id \in Ids /\ Stored(s.id)
        /\ rows[s.id].state = "draft" /\ s.write = NoScenario
    BY <1>2, <2>1, <2>2, CircleLocked
  <2>5. r.id # s.id
    BY <1>2, <2>2, <2>3, <2>4 DEF IInv, RowsApart, Holding
  <2>6. SameUnique(Completed(r), rows[s.id])
    BY <2>1, <2>3, <2>4 DEF Blockers, NeedsRow, HoldsEntry, NewRow
  <2>7. rows[r.id] \in Scenario /\ ~ SameUnique(rows[r.id], rows[s.id])
    BY <1>2, <2>3, <2>4, <2>5 DEF IInv, IndexesHold, TypeOK, Stored
  <2>8. Completed(r).key = r.key /\ Completed(r).input = rows[r.id].input
    BY <2>7 DEF Completed, SimulatedRow, Scenario
  <2>9. rows[s.id].key = r.key
    BY <2>6, <2>7, <2>8 DEF SameUnique
  <2>10. poolSize > 1
    <3>1. {w, v} \subseteq conns
      BY <1>2, <2>2, <2>3, <2>4 DEF PoolHolds, Holding
    <3>2. Cardinality({w, v}) = 2
      <4>1. IsFiniteSet({w}) /\ Cardinality({w}) = 1
        BY FS_Singleton
      <4>2. {w, v} = {w} \union {v} /\ v \notin {w}
        BY <2>2
      <4> QED
        BY <4>1, <4>2, FS_AddElement
    <3>3. 2 <= Cardinality(conns) /\ Cardinality(conns) \in Nat
      BY <1>2, <3>1, <3>2, FS_Subset, FS_CardinalityType DEF PoolHolds
    <3> QED
      BY <1>2, <3>3 DEF PoolHolds
  <2> QED
    BY <2>1, <2>2, <2>3, <2>4, <2>9, <2>10
<1>3. IInv /\ PoolHolds => CirclesAreDetected
  BY <1>1, <1>2 DEF CirclesAreDetected
<1> QED
  BY <1>3, PoolHeld, PoolRefines, Inductive, PTL

\* The guards of the next statement of w or of its answer, or the database
\* fails the statement.
CanProceed(w) ==
  LET r == req[w]
  IN  \/ r.stage \in {"loaded", "committed"} /\ FreeConnection
      \/ r.stage = "checked" /\ w \notin conns /\ FreeConnection
      \/ /\ r.stage = "checked" /\ w \in conns
         /\ IF r.op = "create" THEN ~ IndexBusy(w, NewRow(r))
            ELSE NeedsRow(w) => ~ Locked(w, r.id)
      \/ r.stage = "locked" /\ ~ IndexBusy(w, NewRow(r))
      \/ r.stage = "written" /\ AuditOverOwn(w)
      \/ r.stage \in {"recorded", "answered"}
      \/ OnCircle(w)

\* A request that waits for nobody can go on: only others stop it.
LEMMA OnlyOthersStop ==
  ASSUME IInv, PoolHolds, NEW w \in Workers, req[w].stage # "idle", WaitsFor[w] = {}
  PROVE  CanProceed(w)
<1>1. req[w].stage \in Stages
  BY DEF IInv, TypeOK, Request
<1>2. ~ WaitsForConnection(w)
  <2>1. ASSUME conns = {}
        PROVE  FreeConnection
    <3>1. Cardinality(conns) = 0
      BY <2>1, FS_EmptySet
    <3> QED
      BY <3>1 DEF PoolHolds, FreeConnection
  <2> QED
    BY <2>1 DEF WaitsFor, WaitsForConnection
<1>3. Blockers(w) = {}
  BY DEF WaitsFor
<1>4. NeedsRow(w) => ~ Locked(w, req[w].id)
  BY <1>3 DEF Blockers, Locked
<1>5. NeedsEntry(w) => ~ IndexBusy(w, NewRow(req[w]))
  BY <1>3 DEF Blockers, IndexBusy
<1> QED
  BY <1>1, <1>2, <1>4, <1>5 DEF CanProceed, Stages, WaitsForConnection, NeedsEntry,
                                PoolHolds, Holding, AuditOverOwn

\* While requests are in flight, one of them can go on or is failed.
SomeoneProceeds ==
  (\E w \in Workers : req[w].stage # "idle")
    => \E w \in Workers : req[w].stage # "idle" /\ CanProceed(w)

\* The server never comes to a stand with requests in flight, whatever the
\* size of the pool: neither the locks nor the pool stop all of them, unless
\* the database fails one to set the others free.
THEOREM NeverStuck == PooledSpec => []SomeoneProceeds
<1>1. IInv /\ PoolHolds /\ CirclesAreDetected => SomeoneProceeds
  <2> SUFFICES ASSUME IInv, PoolHolds, CirclesAreDetected,
                      NEW v \in Workers, req[v].stage # "idle"
               PROVE  \E w \in Workers : req[w].stage # "idle" /\ CanProceed(w)
    BY DEF SomeoneProceeds
  <2> DEFINE S == {w \in Workers : req[w].stage # "idle"}
  <2>1. S \in SUBSET Workers /\ S # {}
    OBVIOUS
  <2>2. CASE \E w \in S : OnCircle(w)
    BY <2>2 DEF CanProceed
  <2>3. CASE \E w \in S : WaitsFor[w] \intersect S = {}
    <3>1. PICK w \in S : WaitsFor[w] \intersect S = {}
      BY <2>3
    <3>2. WaitsFor[w] \subseteq S
      BY BlockersHold DEF WaitsFor, PoolHolds, Holding
    <3>3. WaitsFor[w] = {}
      BY <3>1, <3>2
    <3> QED
      BY <3>3, OnlyOthersStop
  <2> HIDE DEF S
  <2> QED
    BY <2>1, <2>2, <2>3 DEF CirclesAreDetected
<1> QED
  BY <1>1, PoolHeld, CirclesDetected, PoolRefines, Inductive, PTL DEF PooledSpec
=============================================================================
