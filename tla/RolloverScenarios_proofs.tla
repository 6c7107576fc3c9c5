---------------------- MODULE RolloverScenarios_proofs ----------------------
(***************************************************************************)
(* Theorems about RolloverScenarios, for every number of workers, users,   *)
(* scenarios, inputs and keys, and for an audit log of any length.         *)
(***************************************************************************)
EXTENDS RolloverInvariant, TLAPS

\* The rows the seed leaves behind satisfy the invariant.
LEMMA InitSound == Init => IInv
<1> SUFFICES ASSUME Init PROVE IInv
  OBVIOUS
<1>1. rows \in [Ids -> SeedScenario \union {NoScenario}]
  BY ConstantsAssumption DEF Init
<1>2. SeedScenario \subseteq Scenario
  BY DEF SeedScenario, Scenario, ScenarioStates
<1>3. TypeOK
  <2>1. Idle \in Request
    BY DEF Idle, Request, Stages, Codes
  <2> QED
    BY <1>1, <1>2, <2>1 DEF Init, TypeOK
<1>4. RowsSound
  <2> SUFFICES ASSUME NEW id \in Ids, Stored(id) PROVE RowSound(rows[id])
    BY DEF RowsSound
  <2>1. rows[id] \in SeedScenario /\ rows[id].result = Evaluate[rows[id].input]
    BY <1>1, ConstantsAssumption DEF Init, Stored
  <2> QED
    BY <2>1, ConstantsAssumption DEF SeedScenario, RowSound
<1>5. RequestsSound /\ RowsApart
  BY DEF Init, Idle, RequestsSound, RowsApart, Pending, Holding, InTransaction
<1>6. IndexesHold
  <2>1. \A w \in Workers : req[w].stage \notin InTransaction
    BY DEF Init, Idle, InTransaction
  <2> QED
    BY <2>1, ConstantsAssumption DEF Init, Stored, IndexesHold, SameUnique
<1> QED
  BY <1>3, <1>4, <1>5, <1>6 DEF IInv

\* A step that replaces one worker's request and nothing else preserves the
\* invariant if the new request is sound by itself.
LEMMA LocalStep ==
  ASSUME IInv, NEW w \in Workers, NEW r \in Request,
         req' = [req EXCEPT ![w] = r], UNCHANGED <<rows, audit>>,
         r.stage \in Pending => Checked(r) /\ SeenStands(r),
         r.stage \in Holding =>
            \A v \in Workers \ {w} : req[v].stage \in Holding => req[v].id # r.id,
         r.stage = "locked" => LockStands(r),
         r.stage \in InTransaction =>
            /\ WriteStands(r)
            /\ \A v \in Workers \ {w} :
                  req[v].stage \in InTransaction =>
                     ~ SameUnique(r.write, req[v].write)
            /\ \A id \in Ids \ {r.id} :
                  Stored(id) => ~ SameUnique(r.write, rows[id]),
         r.stage = "committed" => r.id \in Ids,
         r.op = "create" =>
            \A v \in Workers \ {w} : req[v].op = "create" => req[v].id # r.id
  PROVE  IInv'
<1>1. TypeOK'
  BY DEF IInv, TypeOK
<1>2. RowsSound'
  BY DEF IInv, RowsSound, Stored
<1>3. RequestsSound'
  <2> SUFFICES ASSUME NEW v \in Workers
               PROVE  (/\ req[v].stage \in Pending =>
                            Checked(req[v]) /\ SeenStands(req[v])
                       /\ req[v].stage = "locked" => LockStands(req[v])
                       /\ req[v].stage \in InTransaction => WriteStands(req[v])
                       /\ req[v].stage = "committed" => req[v].id \in Ids)'
    BY DEF RequestsSound
  <2>1. req'[v] = IF v = w THEN r ELSE req[v]
    BY DEF IInv, TypeOK
  <2>2. Checked(req[v])' <=> Checked(req'[v])
    BY DEF Checked, ReviewerSeparated, Manages, May, RowSound
  <2>3. SeenStands(req[v])' <=> SeenStands(req'[v])
    BY DEF SeenStands, Stored
  <2>4. /\ WriteStands(req[v])' <=> WriteStands(req'[v])
        /\ LockStands(req[v])' <=> LockStands(req'[v])
    BY DEF WriteStands, LockStands
  <2> QED
    BY <2>1, <2>2, <2>3, <2>4 DEF IInv, RequestsSound
<1>4. RowsApart'
  BY DEF IInv, TypeOK, RowsApart
<1>5. IndexesHold'
  <2>1. \A v \in Workers : req'[v] = IF v = w THEN r ELSE req[v]
    BY DEF IInv, TypeOK
  <2>2. ASSUME NEW v \in Workers, req'[v].stage \in InTransaction
        PROVE  UniqueWrite(v, req[v].write)'
    <3>1. CASE v = w
      BY <2>1, <2>2, <3>1 DEF UniqueWrite, Stored
    <3>2. CASE v # w
      BY <2>1, <2>2, <3>2 DEF IInv, IndexesHold, UniqueWrite, Stored, SameUnique
    <3> QED
      BY <3>1, <3>2
  <2> QED
    BY <2>2 DEF IInv, IndexesHold, Stored
<1> QED
  BY <1>1, <1>2, <1>3, <1>4, <1>5 DEF IInv

\* Answering, whatever the answer, preserves the invariant.
LEMMA AnswerStep ==
  ASSUME IInv, NEW w \in Workers, NEW code \in Codes,
         NEW reply \in Scenario \union {NoScenario},
         Answer(w, code, reply), UNCHANGED <<rows, audit>>
  PROVE  IInv'
<1> DEFINE r == [req[w] EXCEPT !.stage = "answered", !.write = NoScenario,
                               !.seen = NoScenario, !.code = code, !.reply = reply]
<1>1. req[w] \in Request
  BY DEF IInv, TypeOK
<1>2. r \in Request
  BY <1>1 DEF Request, Stages
<1>3. req' = [req EXCEPT ![w] = r]
  BY DEF Answer
<1>4. r.stage = "answered" /\ r.op = req[w].op /\ r.id = req[w].id
  BY <1>1 DEF Request
<1>5. r.op = "create" =>
        \A v \in Workers \ {w} : req[v].op = "create" => req[v].id # r.id
  BY <1>4 DEF IInv, RowsApart
<1> HIDE DEF r
<1> QED
  BY <1>2, <1>3, <1>4, <1>5, LocalStep DEF Pending, Holding, InTransaction

\* A request that was not refused starts with what its checks established.
LEMMA ArriveStep ==
  ASSUME IInv, NEW w \in Workers, NEW r \in Request, NEW refusal \in Codes,
         Arrive(w, r, refusal),
         r.stage \in {"loaded", "checked"},
         refusal = "none" => Checked(r) /\ SeenStands(r),
         r.op = "create" =>
            \A v \in Workers \ {w} : req[v].op = "create" => req[v].id # r.id
  PROVE  IInv'
<1>1. CASE refusal = "none"
  <2>1. req' = [req EXCEPT ![w] = r] /\ UNCHANGED <<rows, audit>>
    BY <1>1 DEF Arrive
  <2> QED
    BY <1>1, <2>1, LocalStep DEF Holding, InTransaction
<1>2. CASE refusal # "none"
  <2> DEFINE s == [r EXCEPT !.stage = "answered", !.seen = NoScenario,
                            !.code = refusal]
  <2>1. req' = [req EXCEPT ![w] = s] /\ UNCHANGED <<rows, audit>>
    BY <1>2 DEF Arrive
  <2>2. s \in Request
    BY DEF Request, Stages
  <2>3. s.stage = "answered" /\ s.op = r.op /\ s.id = r.id
    BY DEF Request
  <2> HIDE DEF s
  <2> QED
    BY <2>1, <2>2, <2>3, LocalStep DEF Pending, Holding, InTransaction
<1> QED
  BY <1>1, <1>2

LEMMA BeginCreateSound ==
  ASSUME IInv, NEW w \in Workers, NEW u \in Users, NEW id \in Ids,
         NEW i \in Inputs, BeginCreate(w, u, id, i)
  PROVE  IInv'
<1> DEFINE r == [Idle EXCEPT !.stage = "checked", !.op = "create", !.user = u,
                             !.id = id, !.input = i]
           refusal == IF May(u, "scenario.write") THEN "none" ELSE "forbidden"
<1>1. Arrive(w, r, refusal) /\ Free(id)
  BY DEF BeginCreate
<1>2. r \in Request /\ refusal \in Codes
  BY DEF Request, Idle, Stages, Ops, Codes
<1>3. /\ r.stage = "checked" /\ r.op = "create" /\ r.user = u /\ r.id = id
      /\ r.input = i /\ r.seen = NoScenario /\ r.write = NoScenario
  BY DEF Idle
<1>4. refusal = "none" => Checked(r) /\ SeenStands(r)
  BY <1>1, <1>3 DEF Checked, SeenStands, Free, Ops
<1>5. \A v \in Workers \ {w} : req[v].op = "create" => req[v].id # r.id
  BY <1>1, <1>3 DEF Free
<1> HIDE DEF r, refusal
<1> QED
  BY <1>1, <1>2, <1>3, <1>4, <1>5, ArriveStep

LEMMA BeginSimulateSound ==
  ASSUME IInv, NEW w \in Workers, NEW u \in Users, NEW id \in Ids,
         NEW k \in Keys \union {NoKey}, BeginSimulate(w, u, id, k)
  PROVE  IInv'
<1> DEFINE r == [Idle EXCEPT !.stage = "loaded", !.op = "simulate", !.user = u,
                             !.id = id, !.key = k, !.seen = rows[id]]
<1>1. Arrive(w, r, SimulateRefusal(u, id, k))
  BY DEF BeginSimulate
<1>2. rows[id] \in Scenario \union {NoScenario}
  BY DEF IInv, TypeOK
<1>3. r \in Request /\ SimulateRefusal(u, id, k) \in Codes
  BY <1>2 DEF Request, Idle, Stages, Ops, Codes, SimulateRefusal
<1>4. /\ r.stage = "loaded" /\ r.op = "simulate" /\ r.user = u /\ r.id = id
      /\ r.key = k /\ r.seen = rows[id] /\ r.write = NoScenario
  BY DEF Idle
<1>5. ASSUME SimulateRefusal(u, id, k) = "none"
      PROVE  Checked(r) /\ SeenStands(r)
  <2>1. /\ May(u, "scenario.run") /\ k \in Keys /\ Stored(id)
        /\ Manages(u, rows[id])
    BY <1>5 DEF SimulateRefusal
  <2>2. rows[id] \in Scenario /\ RowSound(rows[id])
    BY <1>2, <2>1 DEF IInv, RowsSound, Stored
  <2> QED
    BY <1>4, <2>1, <2>2 DEF Checked, SeenStands, Ops
<1> HIDE DEF r
<1> QED
  BY <1>1, <1>3, <1>4, <1>5, ArriveStep

LEMMA BeginTransitionSound ==
  ASSUME IInv, NEW w \in Workers, NEW u \in Users, NEW id \in Ids,
         NEW to \in Targets, BeginTransition(w, u, id, to)
  PROVE  IInv'
<1> DEFINE r == [Idle EXCEPT !.stage = "checked", !.op = "transition", !.user = u,
                             !.id = id, !.to = to, !.seen = rows[id]]
<1>1. Arrive(w, r, TransitionRefusal(u, id, to))
  BY DEF BeginTransition
<1>2. rows[id] \in Scenario \union {NoScenario}
  BY DEF IInv, TypeOK
<1>3. r \in Request /\ TransitionRefusal(u, id, to) \in Codes
  BY <1>2 DEF Request, Idle, Stages, Ops, Codes, TransitionRefusal
<1>4. /\ r.stage = "checked" /\ r.op = "transition" /\ r.user = u /\ r.id = id
      /\ r.to = to /\ r.seen = rows[id] /\ r.write = NoScenario
  BY DEF Idle
<1>5. ASSUME TransitionRefusal(u, id, to) = "none"
      PROVE  Checked(r) /\ SeenStands(r)
  <2>1. /\ Stored(id)
        /\ CanTransitionScenario(rows[id].state, to)
        /\ IF to = "verified"
           THEN May(u, "scenario.verify") /\ ReviewerSeparated(u, rows[id])
           ELSE May(u, "scenario.write") /\ Manages(u, rows[id])
    BY <1>5 DEF TransitionRefusal
  <2>2. rows[id] \in Scenario /\ RowSound(rows[id])
    BY <1>2, <2>1 DEF IInv, RowsSound, Stored
  <2> QED
    BY <1>4, <2>1, <2>2 DEF Checked, SeenStands, Ops
<1> HIDE DEF r
<1> QED
  BY <1>1, <1>3, <1>4, <1>5, ArriveStep

LEMMA BeginReplaySound ==
  ASSUME IInv, NEW w \in Workers, NEW u \in Users, NEW id \in Ids,
         BeginReplay(w, u, id)
  PROVE  IInv'
<1> DEFINE r == [Idle EXCEPT !.stage = "checked", !.op = "replay", !.user = u,
                             !.id = id, !.seen = rows[id]]
<1>1. Arrive(w, r, ReplayRefusal(u, id))
  BY DEF BeginReplay
<1>2. rows[id] \in Scenario \union {NoScenario}
  BY DEF IInv, TypeOK
<1>3. r \in Request /\ ReplayRefusal(u, id) \in Codes
  BY <1>2 DEF Request, Idle, Stages, Ops, Codes, ReplayRefusal
<1>4. /\ r.stage = "checked" /\ r.op = "replay" /\ r.user = u /\ r.id = id
      /\ r.seen = rows[id] /\ r.write = NoScenario
  BY DEF Idle
<1>5. ASSUME ReplayRefusal(u, id) = "none"
      PROVE  Checked(r) /\ SeenStands(r)
  <2>1. Stored(id) /\ rows[id].state # "draft"
    BY <1>5 DEF ReplayRefusal
  <2>2. rows[id] \in Scenario /\ RowSound(rows[id])
    BY <1>2, <2>1 DEF IInv, RowsSound, Stored
  <2> QED
    BY <1>4, <2>1, <2>2 DEF Checked, SeenStands, Ops
<1> HIDE DEF r
<1> QED
  BY <1>1, <1>3, <1>4, <1>5, ArriveStep

LEMMA LookUpKeySound ==
  ASSUME IInv, NEW w \in Workers, LookUpKey(w)
  PROVE  IInv'
<1> DEFINE r == req[w]
           BoundTo(id) == Stored(id) /\ rows[id].key = r.key
<1>1. /\ r \in Request /\ r.op = "simulate" /\ r.stage = "loaded"
      /\ UNCHANGED <<rows, audit>>
  BY DEF IInv, TypeOK, LookUpKey
<1>2. Checked(r) /\ SeenStands(r)
  BY <1>1 DEF IInv, RequestsSound, Pending
<1>3. CASE BoundTo(r.id) /\ Answer(w, "reused", rows[r.id])
  <2>1. rows[r.id] \in Scenario \union {NoScenario}
    BY <1>2 DEF IInv, TypeOK, Checked
  <2> QED
    BY <1>1, <1>3, <2>1, AnswerStep DEF Codes
<1>4. CASE Answer(w, "key_bound", NoScenario)
  BY <1>1, <1>4, AnswerStep DEF Codes
<1>5. CASE Answer(w, "illegal_state", NoScenario)
  BY <1>1, <1>5, AnswerStep DEF Codes
<1>6. CASE r.seen.state = "draft" /\ req' = [req EXCEPT ![w].stage = "checked"]
  <2> DEFINE s == [r EXCEPT !.stage = "checked"]
  <2>1. req' = [req EXCEPT ![w] = s]
    BY <1>6
  <2>2. s \in Request /\ s.stage = "checked" /\ s.op = "simulate"
    BY <1>1 DEF Request, Stages
  <2>3. Checked(s) /\ SeenStands(s)
    BY <1>1, <1>2, <1>6 DEF Request, Checked, SeenStands, InTransaction
  <2> HIDE DEF s
  <2> QED
    BY <1>1, <2>1, <2>2, <2>3, LocalStep DEF Holding, InTransaction
<1> QED
  BY <1>3, <1>4, <1>5, <1>6 DEF LookUpKey

\* A statement that stores a row its stage allows, with the lock free.
LEMMA WriteStep ==
  ASSUME IInv, NEW w \in Workers, req[w].stage \in {"checked", "locked"},
         NEW row \in Scenario, WriteInTransaction(w, row),
         WriteStands([req[w] EXCEPT !.write = row]), UniqueWrite(w, row),
         \A v \in Workers \ {w} : req[v].stage \in Holding => req[v].id # req[w].id
  PROVE  IInv'
<1> DEFINE r == req[w]
           s == [r EXCEPT !.stage = "written", !.write = row]
<1>1. r \in Request /\ Checked(r) /\ SeenStands(r)
  BY DEF IInv, TypeOK, RequestsSound, Pending, Holding
<1>2. s \in Request
  BY <1>1 DEF Request, Stages
<1>3. req' = [req EXCEPT ![w] = s] /\ UNCHANGED <<rows, audit>>
  BY DEF WriteInTransaction
<1>4. /\ s.stage = "written" /\ s.op = r.op /\ s.id = r.id /\ s.write = row
      /\ s.user = r.user /\ s.input = r.input /\ s.key = r.key /\ s.to = r.to
      /\ s.seen = r.seen
  BY <1>1 DEF Request
<1>5. Checked(s) /\ SeenStands(s)
  BY <1>1, <1>4 DEF Checked, SeenStands, InTransaction
<1>6. WriteStands(s)
  <2>1. s = [[r EXCEPT !.write = row] EXCEPT !.stage = "written"]
    BY <1>1 DEF Request
  <2> DEFINE t == [r EXCEPT !.write = row]
  <2>2. /\ t.op = r.op /\ t.id = r.id /\ t.write = row /\ t.user = r.user
        /\ t.input = r.input /\ t.key = r.key /\ t.to = r.to /\ t.seen = r.seen
    BY <1>1 DEF Request
  <2>3. WriteStands(t)
    OBVIOUS
  <2> HIDE DEF t, s
  <2> QED
    BY <1>4, <2>2, <2>3 DEF WriteStands, ReplayPasses
<1>7. s.op = "create" =>
        \A v \in Workers \ {w} : req[v].op = "create" => req[v].id # s.id
  BY <1>4 DEF IInv, RowsApart
<1>8. /\ \A v \in Workers \ {w} :
            req[v].stage \in InTransaction => ~ SameUnique(s.write, req[v].write)
      /\ \A id \in Ids \ {s.id} : Stored(id) => ~ SameUnique(s.write, rows[id])
  BY <1>4 DEF UniqueWrite
<1> HIDE DEF s
<1> QED
  BY <1>2, <1>3, <1>4, <1>5, <1>6, <1>7, <1>8, LocalStep

LEMMA RollBackStep ==
  ASSUME IInv, NEW w \in Workers, NEW code \in Codes, RollBack(w, code)
  PROVE  IInv'
BY AnswerStep DEF RollBack

\* The row an open transaction stores is sound, belongs to the input and
\* creator of the row it replaces, and is a row of the right type.
LEMMA OpenWriteSound ==
  ASSUME IInv, NEW w \in Workers, req[w].stage \in InTransaction
  PROVE  /\ req[w].id \in Ids
         /\ req[w].write \in Scenario
         /\ RowSound(req[w].write)
         /\ Stored(req[w].id) =>
              /\ req[w].write.creator = rows[req[w].id].creator
              /\ req[w].write.input = rows[req[w].id].input
<1> DEFINE r == req[w]
           old == rows[r.id]
<1>1. r \in Request /\ Checked(r) /\ SeenStands(r) /\ WriteStands(r)
  BY DEF IInv, TypeOK, RequestsSound, Pending, Holding, InTransaction
<1>2. r.op \in Ops /\ r.id \in Ids
  BY <1>1 DEF Checked
<1>3. ASSUME r.op # "create" PROVE old \in Scenario /\ RowSound(old)
  BY <1>1, <1>2, <1>3 DEF SeenStands, Stored, IInv, TypeOK, RowsSound
<1>4. CASE r.op = "create"
  <2>1. r.write = DraftRow(r.user, r.input) /\ r.user \in Users /\ r.input \in Inputs
    BY <1>1, <1>4 DEF WriteStands, Checked
  <2>2. ~ Stored(r.id)
    BY <1>1, <1>4 DEF SeenStands
  <2> QED
    BY <1>2, <2>1, <2>2 DEF DraftRow, RowSound, Scenario, ScenarioStates
<1>5. CASE r.op = "simulate"
  <2>1. /\ r.write = SimulatedRow(old, Evaluate[r.seen.input], r.key)
        /\ old.state = "draft" /\ old.input = r.seen.input
        /\ r.key \in Keys
    BY <1>1, <1>5 DEF WriteStands, SeenStands, Checked
  <2>2. Evaluate[old.input] \in Results
    BY <1>3, <1>5, ConstantsAssumption DEF Scenario
  <2>3. r.write \in Scenario
    BY <1>3, <1>5, <2>1, <2>2 DEF SimulatedRow, Scenario, ScenarioStates
  <2>4. RowSound(r.write)
    BY <1>3, <1>5, <2>1, <2>2, ConstantsAssumption DEF SimulatedRow, Scenario, RowSound
  <2> QED
    BY <1>2, <1>3, <1>5, <2>1, <2>3, <2>4 DEF SimulatedRow, Scenario
<1>6. CASE r.op = "transition"
  <2>1. /\ r.write = MovedRow(old, r.to, r.user)
        /\ old.state = r.seen.state
        /\ old.creator = r.seen.creator
        /\ r.to \in Targets /\ r.user \in Users
        /\ CanTransitionScenario(old.state, r.to)
        /\ r.to = "verified" =>
              May(r.user, "scenario.verify") /\ ReviewerSeparated(r.user, old)
    BY <1>1, <1>6 DEF WriteStands, SeenStands, Checked, ReviewerSeparated
  <2>2. r.write \in Scenario
    BY <1>3, <1>6, <2>1 DEF MovedRow, Scenario, ScenarioStates, Targets
  <2>3. old.state \notin {"draft", "verified"}
    BY <2>1 DEF CanTransitionScenario, Targets
  <2>4. RowSound(r.write)
    BY <1>3, <1>6, <2>1, <2>3 DEF MovedRow, Scenario, RowSound, ReviewerSeparated
  <2> QED
    BY <1>2, <1>3, <1>6, <2>1, <2>2, <2>4 DEF MovedRow, Scenario
<1>7. CASE r.op = "replay"
  <2>1. r.write = [old EXCEPT !.replayed = ReplayPasses(r)]
    BY <1>1, <1>7 DEF WriteStands
  <2>2. r.write \in Scenario
    BY <1>3, <1>7, <2>1 DEF Scenario, ReplayPasses
  <2>3. RowSound(r.write)
    BY <1>3, <1>7, <2>1 DEF Scenario, RowSound
  <2> QED
    BY <1>2, <1>3, <1>7, <2>1, <2>2, <2>3 DEF Scenario
<1> QED
  BY <1>2, <1>4, <1>5, <1>6, <1>7 DEF Ops

\* A simulation that finds its draft takes the row and nothing else.
LEMMA LockSound ==
  ASSUME IInv, NEW w \in Workers, LockDraft(w)
  PROVE  IInv'
<1> DEFINE r == req[w]
<1>1. r.op = "simulate" /\ r.stage = "checked"
  BY DEF LockDraft
<1>2. r \in Request /\ Checked(r) /\ SeenStands(r)
  BY <1>1 DEF IInv, TypeOK, RequestsSound, Pending
<1>3. CASE RollBack(w, "concurrent")
  BY <1>3, RollBackStep DEF Codes
<1>4. CASE /\ rows[r.id].state = "draft" /\ ~ Locked(w, r.id)
           /\ req' = [req EXCEPT ![w].stage = "locked"]
           /\ UNCHANGED <<rows, audit>>
  <2> DEFINE s == [r EXCEPT !.stage = "locked"]
  <2>1. req' = [req EXCEPT ![w] = s] /\ UNCHANGED <<rows, audit>>
    BY <1>4
  <2>2. s \in Request
    BY <1>2 DEF Request, Stages
  <2>3. /\ s.stage = "locked" /\ s.op = r.op /\ s.id = r.id
        /\ s.user = r.user /\ s.key = r.key /\ s.seen = r.seen /\ s.write = r.write
    BY <1>2 DEF Request
  <2>4. Checked(s) /\ SeenStands(s) /\ LockStands(s)
    BY <1>1, <1>2, <1>4, <2>3 DEF Checked, SeenStands, LockStands, InTransaction
  <2>5. \A v \in Workers \ {w} : req[v].stage \in Holding => req[v].id # s.id
    BY <1>4, <2>3 DEF Locked
  <2> HIDE DEF s
  <2> QED
    BY <1>1, <2>1, <2>2, <2>3, <2>4, <2>5, LocalStep DEF InTransaction
<1> QED
  BY <1>3, <1>4 DEF LockDraft

LEMMA WriteSound ==
  ASSUME IInv, NEW w \in Workers, Write(w)
  PROVE  IInv'
<1> DEFINE r == req[w]
<1>1. r.stage \in {"checked", "locked"}
  BY DEF Write, InsertScenario, LockDraft, CompleteSimulation, ApplyTransition,
         StoreReplay
<1>2. r \in Request /\ Checked(r) /\ SeenStands(r)
  BY <1>1 DEF IInv, TypeOK, RequestsSound, Pending, Holding
<1>3. ASSUME ~ Locked(w, r.id)
      PROVE  \A v \in Workers \ {w} : req[v].stage \in Holding => req[v].id # r.id
  BY <1>3 DEF Locked
\* An index entry is new, or it is the entry of the row that is updated.
<1>8. ASSUME NEW row \in Scenario, ~ IndexBusy(w, row), ~ Clashes(r.id, row)
      PROVE  UniqueWrite(w, row)
  <2>1. ASSUME NEW v \in Workers \ {w}, req[v].stage \in InTransaction
        PROVE  ~ SameUnique(row, req[v].write)
    <3>1. req[v].write # NoScenario
      BY <2>1, OpenWriteSound, ConstantsAssumption
    <3> QED
      BY <1>8, <2>1, <3>1 DEF IndexBusy, HoldsEntry, Holding, InTransaction
  <2> QED
    BY <1>8, <2>1 DEF UniqueWrite, Clashes
<1>9. ASSUME r.op # "create", NEW row \in Scenario,
             row.key = rows[r.id].key, row.input = rows[r.id].input, ~ Locked(w, r.id)
      PROVE  UniqueWrite(w, row)
  <2>1. Stored(r.id) /\ r.id \in Ids
    BY <1>2, <1>9 DEF SeenStands, Checked
  <2>2. \A x : SameUnique(row, x) <=> SameUnique(rows[r.id], x)
    BY <1>9 DEF SameUnique
  <2>3. ASSUME NEW v \in Workers \ {w}, req[v].stage \in InTransaction
        PROVE  ~ SameUnique(rows[r.id], req[v].write)
    <3>1. req[v].id # r.id
      BY <1>3, <1>9, <2>3 DEF Holding, InTransaction
    <3> QED
      BY <2>1, <2>3, <3>1 DEF IInv, IndexesHold, UniqueWrite, SameUnique
  <2> QED
    BY <2>1, <2>2, <2>3 DEF UniqueWrite, IInv, IndexesHold
<1>4. CASE InsertScenario(w)
  <2> DEFINE row == DraftRow(r.user, r.input)
  <2>1. r.op = "create" /\ row \in Scenario
    BY <1>2, <1>4 DEF InsertScenario, Checked, DraftRow, Scenario, ScenarioStates
  <2>2. CASE RollBack(w, "duplicate")
    BY <2>2, RollBackStep DEF Codes
  <2>3. CASE ~ Clashes(r.id, row) /\ WriteInTransaction(w, row)
    <3>1. WriteStands([r EXCEPT !.write = row])
      BY <1>2, <2>1 DEF WriteStands, Request
    <3>2. \A v \in Workers \ {w} :
             req[v].stage \in Holding => req[v].id # r.id
      <4> SUFFICES ASSUME NEW v \in Workers \ {w}, req[v].stage \in Holding
                   PROVE  req[v].id # r.id
        OBVIOUS
      <4>1. ~ Stored(r.id)
        BY <1>2, <2>1 DEF SeenStands
      <4>2. SeenStands(req[v])
        BY DEF IInv, RequestsSound, Pending
      <4> QED
        BY <2>1, <4>1, <4>2 DEF SeenStands, IInv, RowsApart
    <3>3. UniqueWrite(w, row)
      BY <1>4, <1>8, <2>1, <2>3 DEF InsertScenario
    <3> HIDE DEF row
    <3> QED
      BY <1>1, <2>1, <2>3, <3>1, <3>2, <3>3, WriteStep
  <2> QED
    BY <1>4, <2>2, <2>3 DEF InsertScenario
<1>5. CASE CompleteSimulation(w)
  <2> DEFINE row == Completed(r)
  <2>1. r.op = "simulate" /\ r.stage = "locked" /\ ~ IndexBusy(w, row)
    BY <1>5 DEF CompleteSimulation
  <2>2. CASE RollBack(w, "internal")
    BY <2>2, RollBackStep DEF Codes
  <2>3. CASE ~ Clashes(r.id, row) /\ WriteInTransaction(w, row)
    <3>1. rows[r.id] \in Scenario /\ r.seen.input \in Inputs /\ r.key \in Keys
      BY <1>2, <2>1 DEF Checked, SeenStands, Stored, IInv, TypeOK, Scenario
    <3>2. row \in Scenario
      BY <3>1, ConstantsAssumption
         DEF Completed, SimulatedRow, Scenario, ScenarioStates
    <3>3. WriteStands([r EXCEPT !.write = row])
      <4>1. rows[r.id].state = "draft"
        BY <2>1 DEF IInv, RequestsSound, LockStands
      <4> QED
        BY <1>2, <2>1, <4>1 DEF Completed, WriteStands, Request
    <3>4. UniqueWrite(w, row)
      BY <1>8, <2>1, <2>3, <3>2
    <3>5. \A v \in Workers \ {w} : req[v].stage \in Holding => req[v].id # r.id
      BY <2>1 DEF IInv, RowsApart, Holding
    <3> HIDE DEF row
    <3> QED
      BY <1>1, <2>3, <3>2, <3>3, <3>4, <3>5, WriteStep
  <2> QED
    BY <1>5, <2>2, <2>3 DEF CompleteSimulation
<1>6. CASE ApplyTransition(w)
  <2> DEFINE row == MovedRow(rows[r.id], r.to, r.user)
  <2>1. r.op = "transition"
    BY <1>6 DEF ApplyTransition
  <2>2. CASE RollBack(w, "concurrent")
    BY <2>2, RollBackStep DEF Codes
  <2>3. CASE /\ rows[r.id].state = r.seen.state /\ ~ Locked(w, r.id)
             /\ WriteInTransaction(w, row)
    <3>1. rows[r.id] \in Scenario /\ r.to \in Targets /\ r.user \in Users
      BY <1>2, <2>1 DEF Checked, SeenStands, Stored, IInv, TypeOK
    <3>2. row \in Scenario
      BY <3>1 DEF MovedRow, Scenario, ScenarioStates, Targets
    <3>3. WriteStands([r EXCEPT !.write = row])
      BY <1>2, <2>1, <2>3 DEF WriteStands, Request
    <3>4. UniqueWrite(w, row)
      BY <1>9, <2>1, <2>3, <3>1, <3>2 DEF MovedRow, Scenario
    <3> HIDE DEF row
    <3> QED
      BY <1>1, <1>3, <2>1, <2>3, <3>2, <3>3, <3>4, WriteStep
  <2> QED
    BY <1>6, <2>2, <2>3 DEF ApplyTransition
<1>7. CASE StoreReplay(w)
  <2> DEFINE row == [rows[r.id] EXCEPT !.replayed = ReplayPasses(r)]
  <2>1. r.op = "replay" /\ ~ Locked(w, r.id) /\ WriteInTransaction(w, row)
    BY <1>7 DEF StoreReplay
  <2>2. rows[r.id] \in Scenario
    BY <1>2, <2>1 DEF Checked, SeenStands, Stored, IInv, TypeOK
  <2>3. row \in Scenario
    BY <2>2 DEF Scenario, ReplayPasses
  <2>4. WriteStands([r EXCEPT !.write = row])
    BY <1>2, <2>1 DEF WriteStands, Request, ReplayPasses
  <2>5. UniqueWrite(w, row)
    BY <1>9, <2>1, <2>2, <2>3 DEF Scenario
  <2> HIDE DEF row
  <2> QED
    BY <1>1, <1>3, <2>1, <2>3, <2>4, <2>5, WriteStep
<1> QED
  BY <1>4, <1>5, <1>6, <1>7, LockSound DEF Write

LEMMA RecordAuditSound ==
  ASSUME IInv, NEW w \in Workers, RecordAudit(w)
  PROVE  IInv'
<1> DEFINE r == req[w]
           s == [r EXCEPT !.stage = "recorded"]
<1>1. r \in Request /\ Checked(r) /\ SeenStands(r) /\ WriteStands(r)
  BY DEF IInv, TypeOK, RequestsSound, RecordAudit, Pending, Holding, InTransaction
<1>2. s \in Request
  BY <1>1 DEF Request, Stages
<1>3. req' = [req EXCEPT ![w] = s] /\ UNCHANGED <<rows, audit>>
  BY DEF RecordAudit
<1>4. /\ s.stage = "recorded" /\ s.op = r.op /\ s.id = r.id /\ s.write = r.write
      /\ s.user = r.user /\ s.input = r.input /\ s.key = r.key /\ s.to = r.to
      /\ s.seen = r.seen
  BY <1>1 DEF Request
<1>5. Checked(s) /\ SeenStands(s) /\ WriteStands(s)
  BY <1>1, <1>4 DEF Checked, SeenStands, WriteStands, ReplayPasses, RecordAudit,
                    InTransaction
<1>6. \A v \in Workers \ {w} :
         /\ req[v].stage \in Holding => req[v].id # s.id
         /\ s.op = "create" /\ req[v].op = "create" => req[v].id # s.id
  BY <1>4 DEF IInv, RowsApart, RecordAudit, Holding
<1>7. /\ \A v \in Workers \ {w} :
            req[v].stage \in InTransaction => ~ SameUnique(s.write, req[v].write)
      /\ \A id \in Ids \ {s.id} : Stored(id) => ~ SameUnique(s.write, rows[id])
  BY <1>4 DEF IInv, IndexesHold, UniqueWrite, RecordAudit, InTransaction
<1> HIDE DEF s
<1> QED
  BY <1>2, <1>3, <1>4, <1>5, <1>6, <1>7, LocalStep

\* The after snapshot is a row of the right type too.
LEMMA AuditEntryTyped ==
  ASSUME IInv, NEW w \in Workers, req[w].stage = "recorded"
  PROVE  AuditEntry(req[w]) \in Entry
<1> DEFINE r == req[w]
<1>1. r \in Request /\ Checked(r) /\ r.write \in Scenario
  BY OpenWriteSound DEF IInv, TypeOK, RequestsSound, Pending, Holding, InTransaction
<1>2. r.user \in Users /\ r.id \in Ids /\ r.op \in Ops
  BY <1>1 DEF Checked
<1>3. r.seen \in Scenario \union {NoScenario}
  BY <1>1 DEF Checked
<1>4. AfterSnapshot(r) \in Scenario
  <2>1. CASE r.op = "create"
    BY <1>1, <2>1 DEF AfterSnapshot
  <2>2. CASE r.op = "simulate"
    <3>1. r.seen \in Scenario /\ r.key \in Keys /\ Evaluate[r.seen.input] \in Results
      BY <1>1, <2>2, ConstantsAssumption DEF Checked, Scenario
    <3> QED
      BY <2>2, <3>1 DEF AfterSnapshot, SimulatedRow, Scenario, ScenarioStates
  <2>3. CASE r.op = "transition"
    <3>1. r.seen \in Scenario /\ r.to \in Targets
      BY <1>1, <2>3 DEF Checked
    <3> QED
      BY <1>2, <2>3, <3>1 DEF AfterSnapshot, MovedRow, Scenario, ScenarioStates, Targets
  <2>4. CASE r.op = "replay"
    <3>1. r.seen \in Scenario
      BY <1>1, <2>4 DEF Checked
    <3> QED
      BY <2>4, <3>1 DEF AfterSnapshot, ReplayPasses, Scenario
  <2> QED
    BY <1>2, <2>1, <2>2, <2>3, <2>4 DEF Ops
<1> QED
  BY <1>2, <1>3, <1>4 DEF AuditEntry, Entry

LEMMA CommitSound ==
  ASSUME IInv, NEW w \in Workers, Commit(w)
  PROVE  IInv'
<1> DEFINE r == req[w]
<1>1. r \in Request /\ r.stage = "recorded" /\ Checked(r) /\ r.op \in Ops
  BY DEF IInv, TypeOK, RequestsSound, Commit, Pending, Holding, Checked
<1>2. /\ r.id \in Ids
      /\ r.write \in Scenario
      /\ RowSound(r.write)
      /\ Stored(r.id) => /\ r.write.creator = rows[r.id].creator
                         /\ r.write.input = rows[r.id].input
  BY <1>1, OpenWriteSound DEF InTransaction
<1>3. PICK s \in Request :
        /\ req' = [req EXCEPT ![w] = s]
        /\ s.stage \in {"answered", "committed"} /\ s.op = r.op /\ s.id = r.id
  <2>1. CASE Answer(w, "replay_differs", NoScenario)
    <3> DEFINE s == [r EXCEPT !.stage = "answered", !.write = NoScenario,
                              !.seen = NoScenario, !.code = "replay_differs",
                              !.reply = NoScenario]
    <3>1. s \in Request
      BY <1>1 DEF Request, Stages, Codes
    <3>2. s.stage = "answered" /\ s.op = r.op /\ s.id = r.id
      BY <1>1 DEF Request
    <3>3. req' = [req EXCEPT ![w] = s]
      BY <2>1 DEF Answer
    <3> QED
      BY <3>1, <3>2, <3>3
  <2>2. CASE req' = [req EXCEPT ![w].stage = "committed", ![w].seen = NoScenario,
                                ![w].write = NoScenario]
    <3> DEFINE s == [r EXCEPT !.stage = "committed", !.seen = NoScenario,
                              !.write = NoScenario]
    <3>1. s \in Request
      BY <1>1 DEF Request, Stages
    <3>2. s.stage = "committed" /\ s.op = r.op /\ s.id = r.id
      BY <1>1 DEF Request
    <3>3. req' = [req EXCEPT ![w] = s]
      BY <2>2
    <3> QED
      BY <3>1, <3>2, <3>3
  <2> QED
    BY <2>1, <2>2 DEF Commit
<1>4. rows' = [rows EXCEPT ![r.id] = r.write] /\ audit' = Append(audit, AuditEntry(r))
  BY DEF Commit
<1>5. TypeOK'
  <2>1. audit' \in Seq(Entry)
    BY <1>1, <1>4, AuditEntryTyped DEF IInv, TypeOK
  <2> QED
    BY <1>2, <1>3, <1>4, <2>1 DEF IInv, TypeOK
<1>6. RowsSound'
  <2> SUFFICES ASSUME NEW id \in Ids, Stored(id)' PROVE RowSound(rows[id])'
    BY DEF RowsSound
  <2>1. rows'[id] = IF id = r.id THEN r.write ELSE rows[id]
    BY <1>2, <1>4 DEF IInv, TypeOK
  <2>2. RowSound(rows[id])' <=> RowSound(rows'[id])
    BY DEF RowSound, May
  <2> QED
    BY <1>2, <2>1, <2>2 DEF IInv, RowsSound, Stored
<1>7. RequestsSound'
  <2> SUFFICES ASSUME NEW v \in Workers
               PROVE  (/\ req[v].stage \in Pending =>
                            Checked(req[v]) /\ SeenStands(req[v])
                       /\ req[v].stage = "locked" => LockStands(req[v])
                       /\ req[v].stage \in InTransaction => WriteStands(req[v])
                       /\ req[v].stage = "committed" => req[v].id \in Ids)'
    BY DEF RequestsSound
  <2>1. CASE v = w
    BY <1>2, <1>3, <2>1 DEF IInv, TypeOK, Pending, Holding, InTransaction
  <2>2. CASE v # w
    <3>1. req'[v] = req[v]
      BY <1>3, <2>2 DEF IInv, TypeOK
    <3>2. Checked(req[v])' <=> Checked(req[v])
      BY <3>1 DEF Checked, ReviewerSeparated, Manages, May, RowSound
    <3>3. ASSUME req[v].stage \in Pending PROVE SeenStands(req[v])'
      <4>1. Checked(req[v]) /\ SeenStands(req[v])
        BY <3>3 DEF IInv, RequestsSound
      <4>2. req[v].id \in Ids /\ rows \in [Ids -> Scenario \union {NoScenario}]
        BY <4>1 DEF Checked, IInv, TypeOK
      <4>3. CASE req[v].op = "create"
        \* Two creations never share an id, and no other request reached one
        \* that is not stored.
        <5>1. req[v].id # r.id
          <6>1. CASE r.op = "create"
            BY <2>2, <4>3, <6>1 DEF IInv, RowsApart
          <6>2. CASE r.op # "create"
            BY <1>1, <4>1, <4>3, <6>2 DEF SeenStands, IInv, RequestsSound, Pending,
                                                   Holding
          <6> QED
            BY <6>1, <6>2
        <5> QED
          BY <1>4, <3>1, <4>1, <4>2, <4>3, <5>1 DEF SeenStands, Stored
      <4>4. CASE req[v].op # "create" /\ req[v].id # r.id
        BY <1>4, <3>1, <4>1, <4>2, <4>4 DEF SeenStands, Stored
      <4>5. CASE req[v].op # "create" /\ req[v].id = r.id
        <5>1. rows'[r.id] = r.write /\ Stored(r.id)
          BY <1>2, <1>4, <4>1, <4>2, <4>5 DEF SeenStands
        <5>2. r.write # NoScenario
          BY <1>2, ConstantsAssumption
        <5> QED
          BY <1>2, <3>1, <4>1, <4>5, <5>1, <5>2 DEF SeenStands, Stored
      <4> QED
        BY <4>3, <4>4, <4>5
    <3>4. ASSUME req[v].stage \in Holding
          PROVE  /\ req[v].id \in Ids
                 /\ rows'[req[v].id] = rows[req[v].id]
      <4>1. Checked(req[v])
        BY <3>4 DEF IInv, RequestsSound, Pending
      <4>2. req[v].id # r.id
        BY <1>1, <2>2, <3>4 DEF IInv, RowsApart, Holding
      <4> QED
        BY <1>4, <4>1, <4>2 DEF Checked, IInv, TypeOK
    <3>5. ASSUME req[v].stage = "locked" PROVE LockStands(req[v])'
      BY <3>1, <3>4, <3>5 DEF IInv, RequestsSound, LockStands, Holding
    <3>6. ASSUME req[v].stage \in InTransaction PROVE WriteStands(req[v])'
      <4>1. WriteStands(req[v])
        BY <3>6 DEF IInv, RequestsSound
      <4>2. rows'[req[v].id] = rows[req[v].id]
        BY <3>4, <3>6 DEF Holding, InTransaction
      <4> QED
        BY <3>1, <4>1, <4>2 DEF WriteStands, ReplayPasses
    <3> QED
      BY <3>1, <3>2, <3>3, <3>5, <3>6 DEF IInv, RequestsSound
  <2> QED
    BY <2>1, <2>2
<1>8. RowsApart'
  BY <1>3 DEF IInv, TypeOK, RowsApart, Holding
<1>9. IndexesHold'
  <2>1. /\ rows \in [Ids -> Scenario \union {NoScenario}]
        /\ \A id \in Ids : rows'[id] = IF id = r.id THEN r.write ELSE rows[id]
        /\ \A v \in Workers \ {w} : req'[v] = req[v]
        /\ req'[w].stage \notin InTransaction
    BY <1>2, <1>3, <1>4 DEF IInv, TypeOK, InTransaction
  <2>2. UniqueWrite(w, r.write)
    BY <1>1 DEF IInv, IndexesHold, InTransaction
  <2>3. \A x, y : SameUnique(x, y) <=> SameUnique(y, x)
    BY DEF SameUnique
  <2>4. ASSUME NEW id \in Ids, NEW other \in Ids, id # other,
               Stored(id)', Stored(other)'
        PROVE  ~ SameUnique(rows'[id], rows'[other])
    BY <2>1, <2>2, <2>3, <2>4 DEF UniqueWrite, IInv, IndexesHold, Stored
  <2>5. ASSUME NEW v \in Workers, req'[v].stage \in InTransaction
        PROVE  UniqueWrite(v, req[v].write)'
    <3>1. v # w /\ req'[v] = req[v]
      BY <2>1, <2>5
    <3>2. UniqueWrite(v, req[v].write)
      BY <2>5, <3>1 DEF IInv, IndexesHold
    <3>3. ASSUME NEW id \in Ids \ {req[v].id}, Stored(id)'
          PROVE  ~ SameUnique(req[v].write, rows'[id])
      <4>1. req[v].id # r.id
        BY <1>1, <2>1, <2>5, <3>1 DEF IInv, RowsApart, Holding, InTransaction
      <4> QED
        BY <1>1, <2>1, <2>5, <3>1, <3>2, <3>3, <4>1 DEF UniqueWrite, Stored, InTransaction
    <3>4. ASSUME NEW u \in Workers \ {v}, req'[u].stage \in InTransaction
          PROVE  ~ SameUnique(req[v].write, req'[u].write)
      BY <2>1, <3>2, <3>4 DEF UniqueWrite
    <3> QED
      BY <3>1, <3>3, <3>4 DEF UniqueWrite, SameUnique
  <2> QED
    BY <2>4, <2>5 DEF IndexesHold, SameUnique
<1> QED
  BY <1>5, <1>6, <1>7, <1>8, <1>9 DEF IInv

\* Every step, stuttering included, preserves the invariant.
LEMMA NextSound == IInv /\ [Next]_vars => IInv'
<1> SUFFICES ASSUME IInv, [Next]_vars PROVE IInv'
  OBVIOUS
<1>1. ASSUME NEW w \in Workers, Begin(w) PROVE IInv'
  BY <1>1, BeginCreateSound, BeginSimulateSound, BeginTransitionSound,
     BeginReplaySound DEF Begin
<1>2. ASSUME NEW w \in Workers, Write(w) PROVE IInv'
  BY <1>2, WriteSound
<1>3. ASSUME NEW w \in Workers, Proceed(w) PROVE IInv'
  <2>1. CASE Reload(w)
    <3>1. rows[req[w].id] \in Scenario \union {NoScenario}
      BY <2>1 DEF Reload, IInv, TypeOK, RequestsSound
    <3> QED
      BY <2>1, <3>1, AnswerStep DEF Reload, Codes
  <2>2. CASE Deliver(w)
    <3>1. Idle \in Request
      BY DEF Idle, Request, Stages, Codes
    <3>2. Idle.stage = "idle" /\ Idle.op = "none"
      BY DEF Idle
    <3> QED
      BY <2>2, <3>1, <3>2, LocalStep DEF Deliver, Pending, Holding, InTransaction
  <2> QED
    BY <1>3, <2>1, <2>2, LookUpKeySound, RecordAuditSound, CommitSound DEF Proceed
<1>4. ASSUME NEW w \in Workers, Fail(w) PROVE IInv'
  BY <1>4, RollBackStep DEF Fail, Codes
<1>5. CASE Crash
  <2>1. Idle \in Request /\ Idle.stage = "idle" /\ Idle.op = "none"
    BY DEF Idle, Request, Stages, Codes
  <2>2. \A w \in Workers : req'[w] = Idle
    BY <1>5 DEF Crash
  <2>3. TypeOK' /\ RowsSound'
    BY <1>5, <2>1 DEF Crash, IInv, TypeOK, RowsSound, Stored
  <2>4. RequestsSound' /\ RowsApart'
    BY <2>1, <2>2 DEF RequestsSound, RowsApart, Pending, Holding, InTransaction
  <2>5. IndexesHold'
    BY <1>5, <2>1, <2>2 DEF Crash, IInv, IndexesHold, Stored, SameUnique, InTransaction
  <2> QED
    BY <2>3, <2>4, <2>5 DEF IInv
<1>6. CASE UNCHANGED vars
  BY <1>6 DEF vars, IInv, TypeOK, RowsSound, RowSound, Stored, RequestsSound,
     Checked, SeenStands, LockStands, WriteStands, RowsApart, IndexesHold, UniqueWrite,
     SameUnique
<1> QED
  BY <1>1, <1>2, <1>3, <1>4, <1>5, <1>6 DEF Next, HistoryFull

\* IInv is an invariant: what every later theorem rests on.
THEOREM Inductive == Spec => []IInv
<1>1. Init => IInv
  BY InitSound
<1>2. IInv /\ [Next]_vars => IInv'
  BY NextSound
<1> QED
  BY <1>1, <1>2, PTL DEF Spec

\* Every variable keeps its type, whatever the number of requests in flight.
THEOREM TypeCorrect == Spec => []TypeOK
<1>1. IInv => TypeOK
  BY DEF IInv
<1> QED
  BY <1>1, Inductive, PTL

\* The four-eyes rule holds in every committed row, though it is checked on a
\* row read before the transaction that verifies it.
THEOREM ReviewersSeparated == Spec => []ReviewerSeparation
<1>1. IInv => ReviewerSeparation
  BY DEF IInv, RowsSound, RowSound, ReviewerSeparation
<1> QED
  BY <1>1, Inductive, PTL

\* A stored result is always the one the frozen input determines.
THEOREM ResultsSound == Spec => []ResultsFollowInput
<1>1. IInv => ResultsFollowInput
  BY DEF IInv, RowsSound, RowSound, ResultsFollowInput
<1> QED
  BY <1>1, Inductive, PTL

\* No key and no input is bound twice, whichever requests race for it.
THEOREM KeysAndInputsUnique == Spec => []KeysAndInputsBindOnce
<1>1. IInv => KeysAndInputsBindOnce
  BY DEF IInv, IndexesHold, SameUnique, KeysAndInputsBindOnce
<1> QED
  BY <1>1, Inductive, PTL

\* Only a commit changes the committed rows.
LEMMA OnlyCommitChangesRows ==
  ASSUME [Next]_vars, rows' # rows \/ audit' # audit
  PROVE  \E w \in Workers : Commit(w)
<1> USE DEF RollBack
<1>1. ASSUME NEW w \in Workers, Begin(w) PROVE UNCHANGED <<rows, audit>>
  <2>1. \A r, refusal : Arrive(w, r, refusal) => UNCHANGED <<rows, audit>>
    BY DEF Arrive
  <2> QED
    BY <1>1, <2>1, Zenon
       DEF Begin, BeginCreate, BeginSimulate, BeginTransition, BeginReplay
<1>2. ASSUME NEW w \in Workers, Write(w) PROVE UNCHANGED <<rows, audit>>
  BY <1>2 DEF Write, InsertScenario, LockDraft, CompleteSimulation,
              ApplyTransition, StoreReplay, WriteInTransaction
<1>3. ASSUME NEW w \in Workers, Proceed(w), ~ Commit(w)
      PROVE  UNCHANGED <<rows, audit>>
  BY <1>3 DEF Proceed, LookUpKey, RecordAudit, Reload, Deliver
<1>4. ASSUME NEW w \in Workers, Fail(w) PROVE UNCHANGED <<rows, audit>>
  BY <1>4 DEF Fail
<1>5. CASE Crash \/ HistoryFull \/ UNCHANGED vars
  BY <1>5 DEF Crash, HistoryFull, vars
<1> QED
  BY <1>1, <1>2, <1>3, <1>4, <1>5 DEF Next

\* A commit stores one row, and what it may change of a stored one.
LEMMA CommitEffect ==
  ASSUME IInv, NEW w \in Workers, Commit(w)
  PROVE  LET r == req[w]
             old == rows[r.id]
         IN  /\ r.id \in Ids
             /\ rows' = [rows EXCEPT ![r.id] = r.write]
             /\ r.write \in Scenario
             /\ Checked(r) /\ SeenStands(r) /\ WriteStands(r)
             /\ Stored(r.id) =>
                  /\ r.write.creator = old.creator
                  /\ r.write.input = old.input
                  /\ old.result # NoResult => r.write.result = old.result
                  /\ old.state \in {"verified", "rollback"} =>
                        r.write = [old EXCEPT !.replayed = r.write.replayed]
<1> DEFINE r == req[w]
           old == rows[r.id]
<1>1. /\ r \in Request /\ r.stage = "recorded"
      /\ Checked(r) /\ SeenStands(r) /\ WriteStands(r)
      /\ rows' = [rows EXCEPT ![r.id] = r.write]
  BY DEF IInv, TypeOK, RequestsSound, Commit, Pending, Holding, InTransaction
<1>2. /\ r.id \in Ids
      /\ r.write \in Scenario
      /\ RowSound(r.write)
      /\ Stored(r.id) => r.write.creator = old.creator /\ r.write.input = old.input
  BY <1>1, OpenWriteSound DEF InTransaction
<1>3. ASSUME Stored(r.id)
      PROVE  /\ old.result # NoResult => r.write.result = old.result
             /\ old.state \in {"verified", "rollback"} =>
                   r.write = [old EXCEPT !.replayed = r.write.replayed]
  <2>1. old \in Scenario /\ RowSound(old)
    BY <1>2, <1>3 DEF IInv, TypeOK, RowsSound, Stored
  <2>2. r.op \in {"simulate", "transition", "replay"}
    BY <1>1, <1>3 DEF Checked, SeenStands, Ops
  <2>3. CASE r.op = "simulate"
    <3>1. /\ r.write = SimulatedRow(old, Evaluate[r.seen.input], r.key)
          /\ old.state = "draft" /\ old.input = r.seen.input
      BY <1>1, <2>3 DEF WriteStands, SeenStands
    <3> QED
      BY <2>1, <3>1 DEF SimulatedRow, Scenario, RowSound
  <2>4. CASE r.op = "transition"
    <3>1. /\ r.write = MovedRow(old, r.to, r.user)
          /\ CanTransitionScenario(old.state, r.to)
      BY <1>1, <2>4 DEF WriteStands, Checked
    <3>2. old.state \notin {"verified", "rollback"}
      BY <3>1 DEF CanTransitionScenario
    <3> QED
      BY <2>1, <3>1, <3>2 DEF MovedRow, Scenario
  <2>5. CASE r.op = "replay"
    <3>1. r.write = [old EXCEPT !.replayed = ReplayPasses(r)]
      BY <1>1, <2>5 DEF WriteStands
    <3> QED
      BY <2>1, <3>1 DEF Scenario
  <2> QED
    BY <2>2, <2>3, <2>4, <2>5
<1> QED
  BY <1>1, <1>2, <1>3

\* What no step of a racing request changes in a stored row.
LEMMA RowsKept ==
  ASSUME IInv, [Next]_vars, NEW id \in Ids, Stored(id)
  PROVE  /\ rows'[id] # NoScenario
         /\ rows'[id].creator = rows[id].creator
         /\ rows'[id].input = rows[id].input
         /\ rows[id].result # NoResult => rows'[id].result = rows[id].result
         /\ rows[id].state \in {"verified", "rollback"} =>
               rows'[id] = [rows[id] EXCEPT !.replayed = rows'[id].replayed]
<1>1. rows \in [Ids -> Scenario \union {NoScenario}] /\ rows[id] \in Scenario
  BY DEF IInv, TypeOK, Stored
<1>2. CASE rows'[id] = rows[id]
  BY <1>1, <1>2 DEF Stored, Scenario
<1>3. CASE rows'[id] # rows[id]
  <2>1. PICK w \in Workers : Commit(w)
    BY <1>3, OnlyCommitChangesRows
  <2>2. id = req[w].id /\ rows'[id] = req[w].write
    BY <1>1, <1>3, <2>1, CommitEffect
  <2> QED
    BY <2>1, <2>2, CommitEffect, ConstantsAssumption
<1> QED
  BY <1>2, <1>3

\* Creator, input, result and terminal states are never changed by a request,
\* however it races with others.
THEOREM Frozen == Spec => FrozenStaysFrozen
<1> DEFINE Step ==
      \A id \in Ids : Stored(id) =>
        /\ rows'[id] # NoScenario
        /\ rows'[id].creator = rows[id].creator
        /\ rows'[id].input = rows[id].input
        /\ rows[id].result # NoResult => rows'[id].result = rows[id].result
        /\ rows[id].state \in {"verified", "rollback"} =>
              rows'[id] = [rows[id] EXCEPT !.replayed = rows'[id].replayed]
<1>1. IInv /\ [Next]_vars => [Step]_rows
  BY RowsKept
<1> QED
  BY <1>1, Inductive, PTL DEF Spec, FrozenStaysFrozen

\* An answer given now is sound if it neither reports a difference nor claims
\* a simulation without its result.
LEMMA AnsweredSound ==
  ASSUME IInv, NEW w \in Workers, NEW code \in Codes, NEW reply,
         Answer(w, code, reply), code # "replay_differs",
         req[w].op = "simulate" /\ code \in {"ok", "reused"} => CarriesResult(reply)
  PROVE  AnswerSound(req[w])'
<1>1. req[w] \in Request /\ req \in [Workers -> Request]
  BY DEF IInv, TypeOK
<1>2. /\ req'[w].stage = "answered" /\ req'[w].op = req[w].op
      /\ req'[w].code = code /\ req'[w].reply = reply
  BY <1>1 DEF Answer, Request
<1> QED
  BY <1>2 DEF AnswerSound, CarriesResult

\* A request that goes on without an answer leaves its code and reply alone.
LEMMA UnansweredSound ==
  ASSUME NEW w \in Workers, AnswerSound(req[w]),
         req'[w].op = req[w].op, req'[w].code = req[w].code,
         req'[w].reply = req[w].reply, req'[w].stage # "committed"
  PROVE  AnswerSound(req[w])'
BY DEF AnswerSound, CarriesResult

\* A request that was refused is answered with the reason, any other one has
\* no answer yet.
LEMMA BegunSound ==
  ASSUME IInv, NEW w \in Workers, Begin(w)
  PROVE  AnswerSound(req[w])'
<1> DEFINE Refusals == {"none", "forbidden", "key_required", "not_found",
                        "illegal_state", "reviewer_required"}
<1>1. ASSUME NEW r \in Request, r.code = "none", r.stage # "committed",
             NEW refusal \in Refusals, Arrive(w, r, refusal)
      PROVE  AnswerSound(req[w])'
  <2>1. req \in [Workers -> Request]
    BY DEF IInv, TypeOK
  <2>2. req'[w].code \in Refusals /\ req'[w].stage # "committed"
    BY <1>1, <2>1 DEF Arrive, Request
  <2> QED
    BY <2>2 DEF AnswerSound
<1>2. ASSUME NEW u \in Users, NEW id \in Ids, NEW i \in Inputs, BeginCreate(w, u, id, i)
      PROVE  AnswerSound(req[w])'
  <2> DEFINE r == [Idle EXCEPT !.stage = "checked", !.op = "create", !.user = u,
                               !.id = id, !.input = i]
             refusal == IF May(u, "scenario.write") THEN "none" ELSE "forbidden"
  <2>1. r \in Request /\ r.code = "none" /\ r.stage # "committed" /\ refusal \in Refusals
    BY DEF Request, Idle, Stages, Ops, Codes
  <2>2. Arrive(w, r, refusal)
    BY <1>2 DEF BeginCreate
  <2> HIDE DEF r, refusal, Refusals
  <2> QED
    BY <1>1, <2>1, <2>2
<1>3. ASSUME NEW u \in Users, NEW id \in Ids, NEW k \in Keys \union {NoKey},
             BeginSimulate(w, u, id, k)
      PROVE  AnswerSound(req[w])'
  <2> DEFINE r == [Idle EXCEPT !.stage = "loaded", !.op = "simulate", !.user = u,
                               !.id = id, !.key = k, !.seen = rows[id]]
  <2>1. r \in Request /\ r.code = "none" /\ r.stage # "committed"
    BY DEF Request, Idle, Stages, Ops, Codes, IInv, TypeOK
  <2>2. Arrive(w, r, SimulateRefusal(u, id, k)) /\ SimulateRefusal(u, id, k) \in Refusals
    BY <1>3 DEF BeginSimulate, SimulateRefusal
  <2> HIDE DEF r, Refusals
  <2> QED
    BY <1>1, <2>1, <2>2
<1>4. ASSUME NEW u \in Users, NEW id \in Ids, NEW to \in Targets,
             BeginTransition(w, u, id, to)
      PROVE  AnswerSound(req[w])'
  <2> DEFINE r == [Idle EXCEPT !.stage = "checked", !.op = "transition", !.user = u,
                               !.id = id, !.to = to, !.seen = rows[id]]
  <2>1. r \in Request /\ r.code = "none" /\ r.stage # "committed"
    BY DEF Request, Idle, Stages, Ops, Codes, IInv, TypeOK
  <2>2. Arrive(w, r, TransitionRefusal(u, id, to))
        /\ TransitionRefusal(u, id, to) \in Refusals
    BY <1>4 DEF BeginTransition, TransitionRefusal
  <2> HIDE DEF r, Refusals
  <2> QED
    BY <1>1, <2>1, <2>2
<1>5. ASSUME NEW u \in Users, NEW id \in Ids, BeginReplay(w, u, id)
      PROVE  AnswerSound(req[w])'
  <2> DEFINE r == [Idle EXCEPT !.stage = "checked", !.op = "replay", !.user = u,
                               !.id = id, !.seen = rows[id]]
  <2>1. r \in Request /\ r.code = "none" /\ r.stage # "committed"
    BY DEF Request, Idle, Stages, Ops, Codes, IInv, TypeOK
  <2>2. Arrive(w, r, ReplayRefusal(u, id)) /\ ReplayRefusal(u, id) \in Refusals
    BY <1>5 DEF BeginReplay, ReplayRefusal
  <2> HIDE DEF r, Refusals
  <2> QED
    BY <1>1, <2>1, <2>2
<1> QED
  BY <1>2, <1>3, <1>4, <1>5 DEF Begin

\* A repeated key is answered from a row that has the key, hence a result.
LEMMA LookedUpSound ==
  ASSUME IInv, AnswersSound, NEW w \in Workers, LookUpKey(w)
  PROVE  AnswerSound(req[w])'
<1> DEFINE r == req[w]
<1>1. r \in Request /\ Checked(r) /\ SeenStands(r) /\ r.op = "simulate"
  BY DEF LookUpKey, IInv, TypeOK, RequestsSound, Pending
<1>2. CASE Stored(r.id) /\ rows[r.id].key = r.key /\ Answer(w, "reused", rows[r.id])
  <2>1. r.id \in Ids /\ r.key # NoKey
    BY <1>1, ConstantsAssumption DEF Checked
  <2>2. RowSound(rows[r.id])
    BY <1>2, <2>1 DEF IInv, RowsSound
  <2>3. CarriesResult(rows[r.id])
    BY <1>2, <2>1, <2>2 DEF RowSound, CarriesResult, Stored
  <2> QED
    BY <1>2, <2>3, AnsweredSound DEF Codes
<1>3. CASE \E code \in {"key_bound", "illegal_state"} : Answer(w, code, NoScenario)
  BY <1>3, AnsweredSound DEF Codes
<1>4. CASE req' = [req EXCEPT ![w].stage = "checked"]
  <2>1. /\ req'[w].op = r.op /\ req'[w].code = r.code /\ req'[w].reply = r.reply
        /\ req'[w].stage = "checked"
    BY <1>1, <1>4 DEF IInv, TypeOK, Request
  <2> QED
    BY <2>1, UnansweredSound DEF AnswersSound
<1> QED
  BY <1>2, <1>3, <1>4 DEF LookUpKey

\* A statement that fails is answered with an error, one that succeeds is not
\* answered yet.
LEMMA WrittenSound ==
  ASSUME IInv, AnswersSound, NEW w \in Workers, Write(w)
  PROVE  AnswerSound(req[w])'
<1>1. ASSUME NEW row, WriteInTransaction(w, row) PROVE AnswerSound(req[w])'
  <2>1. /\ req'[w].op = req[w].op /\ req'[w].code = req[w].code
        /\ req'[w].reply = req[w].reply /\ req'[w].stage = "written"
    BY <1>1 DEF WriteInTransaction, IInv, TypeOK, Request
  <2> QED
    BY <2>1, UnansweredSound DEF AnswersSound
<1>2. ASSUME NEW code \in {"duplicate", "concurrent", "internal"}, RollBack(w, code)
      PROVE  AnswerSound(req[w])'
  BY <1>2, AnsweredSound DEF RollBack, Codes
<1>3. CASE req' = [req EXCEPT ![w].stage = "locked"]
  <2>1. /\ req'[w].op = req[w].op /\ req'[w].code = req[w].code
        /\ req'[w].reply = req[w].reply /\ req'[w].stage = "locked"
    BY <1>3 DEF IInv, TypeOK, Request
  <2> QED
    BY <2>1, UnansweredSound DEF AnswersSound
<1> QED
  BY <1>1, <1>2, <1>3 DEF Write, InsertScenario, LockDraft, CompleteSimulation,
                          ApplyTransition, StoreReplay

\* The row a simulation committed has its result; a replay compared with one.
LEMMA CommittedSound ==
  ASSUME IInv, AnswersSound, NEW w \in Workers, Commit(w)
  PROVE  AnswerSound(req[w])'
<1> DEFINE r == req[w]
<1>1. /\ r \in Request /\ r.stage = "recorded" /\ r.id \in Ids
      /\ Checked(r) /\ SeenStands(r) /\ WriteStands(r)
      /\ rows'[r.id] = r.write /\ r.write \in Scenario
  BY CommitEffect DEF Commit, IInv, TypeOK
<1>2. ASSUME r.op = "replay" PROVE ReplayPasses(r)
  <2>1. r.seen.state # "draft" /\ RowSound(r.seen)
    BY <1>1, <1>2 DEF Checked
  <2> QED
    BY <2>1 DEF RowSound, ReplayPasses
<1>3. /\ req'[w].op = r.op /\ req'[w].code = r.code /\ req'[w].reply = r.reply
      /\ req'[w].id = r.id
  BY <1>1, <1>2 DEF Commit, IInv, TypeOK, Request
<1>4. ASSUME r.op = "simulate" PROVE CarriesResult(r.write)
  <2>1. /\ r.write = SimulatedRow(rows[r.id], Evaluate[r.seen.input], r.key)
        /\ rows[r.id].input = r.seen.input /\ rows[r.id] \in Scenario
    BY <1>1, <1>4 DEF WriteStands, SeenStands, Stored, IInv, TypeOK
  <2>2. r.write # NoScenario
    BY <1>1, ConstantsAssumption
  <2> QED
    BY <2>1, <2>2 DEF SimulatedRow, CarriesResult, Scenario
<1>5. AnswerSound(r)
  BY DEF AnswersSound
<1> HIDE DEF r
<1> QED
  BY <1>1, <1>3, <1>4, <1>5 DEF AnswerSound, CarriesResult

\* The answers stay sound, those of the moving request and those of others.
LEMMA AnswersStep == IInv /\ AnswersSound /\ [Next]_vars => AnswersSound'
<1> SUFFICES ASSUME IInv, AnswersSound, [Next]_vars, NEW v \in Workers
             PROVE  AnswerSound(req[v])'
  BY DEF AnswersSound
<1> DEFINE r == req[v]
<1>1. AnswerSound(r) /\ req \in [Workers -> Request]
  BY DEF AnswersSound, IInv, TypeOK
<1>2. CASE req'[v] = r
  <2>1. ASSUME r.op = "simulate", r.stage = "committed"
        PROVE  CarriesResult(rows[r.id])'
    <3>1. r.id \in Ids /\ CarriesResult(rows[r.id])
      BY <1>1, <2>1 DEF AnswerSound, IInv, RequestsSound
    <3>2. /\ rows[r.id] \in Scenario
          /\ Evaluate[rows[r.id].input] # NoResult
      BY <3>1, ConstantsAssumption DEF CarriesResult, IInv, TypeOK, Scenario
    <3>3. /\ rows'[r.id] # NoScenario /\ rows'[r.id].input = rows[r.id].input
          /\ rows'[r.id].result = rows[r.id].result
      BY <3>1, <3>2, RowsKept DEF CarriesResult, Stored
    <3> QED
      BY <1>2, <3>1, <3>3 DEF CarriesResult
  <2> QED
    BY <1>1, <1>2, <2>1 DEF AnswerSound, CarriesResult
<1>3. CASE req'[v] # r
  <2>1. CASE \E w \in Workers : Begin(w) \/ Write(w) \/ Proceed(w) \/ Fail(w)
    <3>1. PICK w \in Workers : Begin(w) \/ Write(w) \/ Proceed(w) \/ Fail(w)
      BY <2>1
    <3>2. \A u \in Workers \ {w} : req'[u] = req[u]
      <4>1. ASSUME NEW x, req' = [req EXCEPT ![w] = x]
            PROVE  \A u \in Workers \ {w} : req'[u] = req[u]
        BY <1>1, <4>1
      <4>2. CASE Begin(w)
        <5>1. ASSUME NEW q, NEW refusal, Arrive(w, q, refusal)
              PROVE  \A u \in Workers \ {w} : req'[u] = req[u]
          BY <4>1, <5>1 DEF Arrive
        <5>2. \E q, refusal : Arrive(w, q, refusal)
          BY <4>2 DEF Begin, BeginCreate, BeginSimulate, BeginTransition, BeginReplay
        <5> QED
          BY <5>1, <5>2
      <4>3. CASE Write(w)
        <5>1. ASSUME NEW row, WriteInTransaction(w, row)
              PROVE  \A u \in Workers \ {w} : req'[u] = req[u]
          BY <1>1, <5>1 DEF WriteInTransaction
        <5>2. ASSUME NEW code, RollBack(w, code)
              PROVE  \A u \in Workers \ {w} : req'[u] = req[u]
          BY <1>1, <5>2 DEF RollBack, Answer
        <5> QED
          BY <1>1, <4>3, <5>1, <5>2
             DEF Write, InsertScenario, LockDraft, CompleteSimulation, ApplyTransition,
                 StoreReplay
      <4>4. CASE LookUpKey(w)
        BY <1>1, <4>4 DEF LookUpKey, Answer
      <4>5. CASE RecordAudit(w) \/ Reload(w) \/ Deliver(w)
        BY <1>1, <4>5 DEF RecordAudit, Reload, Deliver, Answer
      <4>6. CASE Commit(w)
        BY <1>1, <4>6 DEF Commit, Answer
      <4>7. CASE Fail(w)
        BY <1>1, <4>7 DEF Fail, RollBack, Answer
      <4> QED
        BY <3>1, <4>2, <4>3, <4>4, <4>5, <4>6, <4>7 DEF Proceed
    <3>3. w = v
      BY <1>3, <3>2
    <3>4. CASE RecordAudit(v)
      <4>1. /\ req'[v].op = r.op /\ req'[v].code = r.code /\ req'[v].reply = r.reply
            /\ req'[v].stage = "recorded"
        BY <1>1, <3>4 DEF RecordAudit, Request
      <4> QED
        BY <1>1, <4>1, UnansweredSound
    <3>5. CASE Reload(v)
      BY <1>1, <3>5, AnsweredSound DEF Reload, AnswerSound, Codes
    <3>6. CASE Deliver(v)
      BY <1>1, <3>6 DEF Deliver, Idle, AnswerSound
    <3>7. CASE Fail(v)
      BY <3>7, AnsweredSound DEF Fail, RollBack, Codes
    <3> QED
      BY <3>1, <3>3, <3>4, <3>5, <3>6, <3>7, BegunSound, WrittenSound,
         LookedUpSound, CommittedSound DEF Proceed
  <2>2. CASE Crash
    BY <2>2 DEF Crash, Idle, AnswerSound
  <2> QED
    BY <1>3, <2>1, <2>2 DEF Next, HistoryFull, vars
<1> QED
  BY <1>2, <1>3

\* Before any request there is no answer.
LEMMA NoAnswerYet == Init => AnswersSound
BY DEF Init, AnswersSound, AnswerSound, Idle

\* A simulation answered with success carries the result of its frozen input,
\* though the row is read again after the commit.
THEOREM SimulationsAnswered == Spec => []SimulationAnswersCarryResult
<1>1. AnswersSound => SimulationAnswersCarryResult
  BY DEF AnswersSound, AnswerSound, CarriesResult, SimulationAnswersCarryResult
<1> QED
  BY <1>1, Inductive, NoAnswerYet, AnswersStep, PTL DEF Spec

\* No replay ever reports that it differs from the stored history.
THEOREM ReplaysPass == Spec => []ReplaysAgree
<1>1. AnswersSound => ReplaysAgree
  BY DEF AnswersSound, AnswerSound, ReplaysAgree
<1> QED
  BY <1>1, Inductive, NoAnswerYet, AnswersStep, PTL DEF Spec

\* No committed change without its audit entry, none the other way, and the
\* entry tells the truth about state, verifier and result.
THEOREM AuditAtomicity == Spec => AuditedAtomically
<1> DEFINE Step ==
      /\ Len(audit') = Len(audit) + 1
      /\ audit = SubSeq(audit', 1, Len(audit))
      /\ LET e == audit'[Len(audit) + 1]
         IN  /\ \A id \in Ids \ {e.id} : rows'[id] = rows[id]
             /\ e.action = "replay" =>
                   /\ StateOf(rows'[e.id]) = StateOf(rows[e.id])
                   /\ rows'[e.id].replayed = e.after.replayed
             /\ e.action # "replay" =>
                   /\ StateOf(rows[e.id]) = StateOf(e.before)
                   /\ rows'[e.id].state = e.after.state
                   /\ rows'[e.id].verifier = e.after.verifier
                   /\ rows'[e.id].result = e.after.result
<1>1. IInv /\ [Next]_vars => [Step]_<<rows, audit>>
  <2> SUFFICES ASSUME IInv, [Next]_vars, rows' # rows \/ audit' # audit
               PROVE  Step
    OBVIOUS
  <2>1. PICK w \in Workers : Commit(w)
    BY OnlyCommitChangesRows
  <2> DEFINE r == req[w]
             old == rows[r.id]
             e == AuditEntry(r)
  <2>2. /\ r.id \in Ids /\ rows' = [rows EXCEPT ![r.id] = r.write]
        /\ r.write \in Scenario
        /\ Checked(r) /\ SeenStands(r) /\ WriteStands(r)
    BY <2>1, CommitEffect
  <2>3. audit' = Append(audit, e) /\ audit \in Seq(Entry) /\ e \in Entry
    BY <2>1, AuditEntryTyped DEF Commit, IInv, TypeOK
  <2>4. /\ Len(audit') = Len(audit) + 1
        /\ audit = SubSeq(audit', 1, Len(audit))
        /\ audit'[Len(audit) + 1] = e
    BY <2>3
  <2>5. /\ e.id = r.id /\ e.action = r.op /\ e.before = r.seen
        /\ e.after = AfterSnapshot(r)
    BY DEF AuditEntry
  <2>6. rows'[r.id] = r.write /\ \A id \in Ids \ {r.id} : rows'[id] = rows[id]
    BY <2>2 DEF IInv, TypeOK
  <2>7. ASSUME r.op # "create"
        PROVE  /\ old \in Scenario /\ RowSound(old) /\ old.input = r.seen.input
               /\ old # NoScenario /\ r.seen # NoScenario /\ r.write # NoScenario
               /\ r.seen \in Scenario /\ RowSound(r.seen)
    BY <2>2, <2>7, ConstantsAssumption
       DEF SeenStands, Checked, Stored, IInv, TypeOK, RowsSound
  <2>8. CASE r.op = "create"
    <3>1. /\ r.seen = NoScenario /\ old = NoScenario
          /\ AfterSnapshot(r) = r.write
      BY <2>2, <2>8 DEF Checked, SeenStands, Stored, AfterSnapshot
    <3> QED
      BY <2>4, <2>5, <2>6, <2>8, <3>1
  <2>9. CASE r.op = "simulate"
    <3>1. /\ r.write = SimulatedRow(old, Evaluate[r.seen.input], r.key)
          /\ AfterSnapshot(r) = SimulatedRow(r.seen, Evaluate[r.seen.input], r.key)
      BY <2>2, <2>9 DEF WriteStands, AfterSnapshot
    <3>2. old.state = "draft"
      BY <2>2, <2>9 DEF WriteStands
    <3>3. r.seen.state = "draft"
      BY <2>1, <2>2, <2>9 DEF Checked, Commit
    <3>4. old.verifier = NoUser /\ r.seen.verifier = NoUser
      BY <2>7, <2>9, <3>2, <3>3 DEF RowSound
    <3>5. /\ r.write.state = AfterSnapshot(r).state
          /\ r.write.verifier = AfterSnapshot(r).verifier
          /\ r.write.result = AfterSnapshot(r).result
      BY <2>7, <2>9, <3>1, <3>4 DEF SimulatedRow, Scenario
    <3>6. StateOf(old) = StateOf(r.seen)
      BY <2>7, <2>9, <3>2, <3>3 DEF StateOf
    <3> HIDE DEF e, r, old
    <3> QED
      BY <2>4, <2>5, <2>6, <2>9, <3>5, <3>6 DEF old
  <2>10. CASE r.op = "transition"
    <3>1. /\ r.write = MovedRow(old, r.to, r.user)
          /\ AfterSnapshot(r) = MovedRow(r.seen, r.to, r.user)
      BY <2>2, <2>10 DEF WriteStands, AfterSnapshot
    <3>2. old.state = r.seen.state /\ CanTransitionScenario(r.seen.state, r.to)
          /\ r.to \in Targets
      BY <2>2, <2>10 DEF WriteStands, Checked
    <3>3. old.state \notin {"draft", "verified"}
      BY <3>2 DEF CanTransitionScenario, Targets
    <3>4. /\ old.verifier = NoUser /\ r.seen.verifier = NoUser
          /\ old.result = r.seen.result
      BY <2>7, <2>10, <3>2, <3>3 DEF RowSound
    <3>5. /\ r.write.state = AfterSnapshot(r).state
          /\ r.write.verifier = AfterSnapshot(r).verifier
          /\ r.write.result = AfterSnapshot(r).result
      BY <2>7, <2>10, <3>1, <3>4 DEF MovedRow, Scenario
    <3>6. StateOf(old) = StateOf(r.seen)
      BY <2>7, <2>10, <3>2 DEF StateOf
    <3> HIDE DEF e, r, old
    <3> QED
      BY <2>4, <2>5, <2>6, <2>10, <3>5, <3>6 DEF old
  <2>11. CASE r.op = "replay"
    <3>1. /\ r.write = [old EXCEPT !.replayed = ReplayPasses(r)]
          /\ AfterSnapshot(r) = [r.seen EXCEPT !.replayed = ReplayPasses(r)]
      BY <2>2, <2>11 DEF WriteStands, AfterSnapshot
    <3>2. /\ r.write.state = old.state
          /\ r.write.replayed = AfterSnapshot(r).replayed
      BY <2>7, <2>11, <3>1 DEF Scenario
    <3>3. StateOf(r.write) = StateOf(old)
      BY <2>7, <2>11, <3>2 DEF StateOf
    <3> HIDE DEF e, r, old
    <3> QED
      BY <2>4, <2>5, <2>6, <2>11, <3>2, <3>3 DEF old
  <2> QED
    BY <2>2, <2>8, <2>9, <2>10, <2>11 DEF Checked, Ops
<1> QED
  BY <1>1, Inductive, PTL DEF Spec, AuditedAtomically

\* What a committed row looks like through the refinement mapping.
LEMMA MappedRow ==
  ASSUME NEW row \in Scenario
  PROVE  [state |-> row.state, creator |-> row.creator, input |-> row.input,
          verifier |-> row.verifier] \in LifecycleView
BY DEF Scenario, LifecycleView

\* The committed rows a run starts from are an initial state of the life cycle.
LEMMA InitRefines == Init => Lifecycle!Init
<1> SUFFICES ASSUME Init PROVE Lifecycle!Init
  OBVIOUS
<1> DEFINE Simulated == [state : {"simulated"}, creator : Users, input : Inputs,
                         verifier : {NoUser}]
<1>1. rows \in [Ids -> SeedScenario \union {NoScenario}]
  BY ConstantsAssumption DEF Init
<1>2. ASSUME NEW id \in Ids
      PROVE  LifecycleOf[id] \in {NoScenario} \union Simulated
  <2>1. CASE Stored(id)
    <3>1. rows[id] \in SeedScenario
      BY <1>1, <2>1 DEF Stored
    <3> QED
      BY <2>1, <3>1 DEF LifecycleOf, SeedScenario
  <2>2. CASE ~ Stored(id)
    BY <2>2 DEF LifecycleOf
  <2> QED
    BY <2>1, <2>2
<1> QED
  BY <1>2 DEF Lifecycle!Init, LifecycleOf

\* Both levels read the same permission and transition tables.
LEMMA SameTables ==
  /\ \A u, permission : Lifecycle!HasPermission(RoleOf[u], permission)
                          <=> May(u, permission)
  /\ \A from, to : Lifecycle!CanTransitionScenario(from, to)
                     <=> CanTransitionScenario(from, to)
  /\ Lifecycle!ScenarioStates = ScenarioStates
<1>1. Lifecycle!Granted = Granted
  BY DEF Lifecycle!Granted, Granted, Lifecycle!Roles, Roles,
         Lifecycle!Permissions, Permissions
<1> QED
  BY <1>1 DEF Lifecycle!HasPermission, HasPermission, May,
     Lifecycle!CanTransitionScenario, CanTransitionScenario,
     Lifecycle!ScenarioStates, ScenarioStates

\* Every step is a step of the life cycle, or one it does not see.
LEMMA StepRefines ==
  ASSUME IInv, IInv', [Next]_vars
  PROVE  [Lifecycle!Next]_LifecycleOf
<1> DEFINE Mapped(row) == [state |-> row.state, creator |-> row.creator,
                           input |-> row.input, verifier |-> row.verifier]
<1>1. CASE rows' = rows
  BY <1>1 DEF LifecycleOf, Stored
<1>2. CASE rows' # rows
  <2>1. PICK w \in Workers : Commit(w)
    BY <1>2, OnlyCommitChangesRows
  <2> DEFINE r == req[w]
             old == rows[r.id]
  <2>2. /\ r.id \in Ids /\ rows' = [rows EXCEPT ![r.id] = r.write]
        /\ r.write \in Scenario /\ r.write # NoScenario
        /\ Checked(r) /\ SeenStands(r) /\ WriteStands(r) /\ r.stage = "recorded"
    <3>1. r.stage = "recorded"
      BY <2>1 DEF Commit
    <3>2. /\ r.id \in Ids /\ rows' = [rows EXCEPT ![r.id] = r.write]
          /\ r.write \in Scenario
          /\ Checked(r) /\ SeenStands(r) /\ WriteStands(r)
      BY <2>1, CommitEffect
    <3> QED
      BY <3>1, <3>2, ConstantsAssumption
  <2>3. LifecycleOf' = [LifecycleOf EXCEPT ![r.id] = Mapped(r.write)]
    BY <2>2 DEF LifecycleOf, Stored, IInv, TypeOK
  <2>4. r.user \in Users /\ r.op \in Ops
    BY <2>2 DEF Checked
  <2>5. ASSUME NEW id \in Ids
        PROVE  /\ Lifecycle!Stored(id) <=> Stored(id)
               /\ Stored(id) => LifecycleOf[id] = Mapped(rows[id])
    <3>1. CASE Stored(id)
      <4>1. rows[id] \in Scenario
        BY <3>1 DEF Stored, IInv, TypeOK
      <4>2. Mapped(rows[id]) # NoScenario
        BY <4>1, MappedRow, ConstantsAssumption
      <4> QED
        BY <3>1, <4>2 DEF LifecycleOf, Lifecycle!Stored
    <3>2. CASE ~ Stored(id)
      BY <3>2 DEF LifecycleOf, Lifecycle!Stored
    <3> QED
      BY <3>1, <3>2
  <2>6. ASSUME r.op # "create"
        PROVE  /\ Stored(r.id) /\ old \in Scenario /\ RowSound(old)
               /\ LifecycleOf[r.id] = Mapped(old)
               /\ old.creator = r.seen.creator
    BY <2>2, <2>5, <2>6 DEF SeenStands, Stored, IInv, TypeOK, RowsSound
  <2>7. CASE r.op = "create"
    <3>1. /\ r.write = DraftRow(r.user, r.input) /\ ~ Stored(r.id)
          /\ May(r.user, "scenario.write") /\ r.input \in Inputs
      BY <2>2, <2>7 DEF WriteStands, SeenStands, Checked
    <3>2. ASSUME NEW other \in Ids, Lifecycle!Stored(other)
          PROVE  LifecycleOf[other].input # r.input
      <4>1. Stored(other) /\ LifecycleOf[other] = Mapped(rows[other])
        BY <2>5, <3>2
      <4>2. ~ SameUnique(r.write, rows[other])
        BY <2>2, <3>1, <4>1 DEF IInv, IndexesHold, UniqueWrite, InTransaction
      <4> QED
        BY <3>1, <4>1, <4>2 DEF SameUnique, DraftRow
    <3>3. Mapped(r.write) = [state |-> "draft", creator |-> r.user,
                             input |-> r.input, verifier |-> NoUser]
      BY <3>1 DEF DraftRow
    <3>4. Lifecycle!Create(r.id, r.user, r.input)
      BY <2>2, <2>3, <2>5, <3>1, <3>2, <3>3, SameTables DEF Lifecycle!Create
    <3> QED
      BY <2>2, <2>4, <3>1, <3>4 DEF Lifecycle!Next
  <2>8. CASE r.op = "simulate"
    <3>1. /\ r.write = SimulatedRow(old, Evaluate[r.seen.input], r.key)
          /\ old.state = "draft"
          /\ May(r.user, "scenario.run") /\ Manages(r.user, r.seen)
      BY <2>2, <2>8 DEF WriteStands, Checked
    <3>2. Mapped(r.write) = [Mapped(old) EXCEPT !.state = "simulated"]
      BY <2>6, <2>8, <3>1 DEF SimulatedRow, Scenario
    <3>3. LifecycleOf' = [LifecycleOf EXCEPT ![r.id].state = "simulated"]
      BY <2>3, <2>6, <2>8, <3>2
    <3>4. Lifecycle!Simulate(r.id, r.user)
      BY <2>2, <2>5, <2>6, <2>8, <3>1, <3>3, SameTables
         DEF Lifecycle!Simulate, Lifecycle!Manages, Manages
    <3> QED
      BY <2>2, <2>4, <3>4 DEF Lifecycle!Next
  <2>9. CASE r.op = "transition"
    <3>1. /\ r.write = MovedRow(old, r.to, r.user)
          /\ r.to \in Targets /\ CanTransitionScenario(old.state, r.to)
      BY <2>2, <2>9 DEF WriteStands, Checked
    <3>2. CASE r.to = "verified"
      <4>1. May(r.user, "scenario.verify") /\ r.user # old.creator
        BY <2>2, <2>6, <2>9, <3>2 DEF Checked, ReviewerSeparated
      <4>2. /\ r.write.state = "verified" /\ r.write.verifier = r.user
            /\ r.write.creator = old.creator /\ r.write.input = old.input
        BY <2>6, <2>9, <3>1, <3>2 DEF MovedRow, Scenario
      <4>3. LifecycleOf' = [LifecycleOf EXCEPT ![r.id] =
              [state |-> "verified", creator |-> @.creator, input |-> @.input,
               verifier |-> r.user]]
        <5>1. /\ LifecycleOf[r.id].creator = old.creator
              /\ LifecycleOf[r.id].input = old.input
          BY <2>6, <2>9
        <5>2. Mapped(r.write) =
                [state |-> "verified", creator |-> LifecycleOf[r.id].creator,
                 input |-> LifecycleOf[r.id].input, verifier |-> r.user]
          BY <4>2, <5>1
        <5> QED
          BY <2>3, <5>2
      <4>4. Lifecycle!Verify(r.id, r.user)
        BY <2>2, <2>5, <2>6, <2>9, <3>1, <3>2, <4>1, <4>3, SameTables
           DEF Lifecycle!Verify
      <4> QED
        BY <2>2, <2>4, <4>4 DEF Lifecycle!Next
    <3>3. CASE r.to # "verified"
      <4>1. May(r.user, "scenario.write") /\ Manages(r.user, r.seen)
        BY <2>2, <2>9, <3>3 DEF Checked
      <4>2. r.to \in ScenarioStates /\ r.to \notin {"simulated", "verified"}
        BY <3>1, <3>3 DEF Targets, ScenarioStates
      <4>3. Mapped(r.write) = [Mapped(old) EXCEPT !.state = r.to]
        BY <2>6, <2>9, <3>1, <3>3 DEF MovedRow, Scenario
      <4>4. LifecycleOf' = [LifecycleOf EXCEPT ![r.id].state = r.to]
        BY <2>2, <2>3, <2>6, <2>9, <4>3
      <4>5. Lifecycle!Move(r.id, r.user, r.to)
        BY <2>2, <2>5, <2>6, <2>9, <3>1, <4>1, <4>2, <4>4, SameTables
           DEF Lifecycle!Move, Lifecycle!Manages, Manages
      <4> QED
        BY <2>2, <2>4, <4>2, <4>5, SameTables DEF Lifecycle!Next
    <3> QED
      BY <3>2, <3>3
  <2>10. CASE r.op = "replay"
    <3>1. r.write = [old EXCEPT !.replayed = ReplayPasses(r)]
      BY <2>2, <2>10 DEF WriteStands
    <3>2. Mapped(r.write) = LifecycleOf[r.id]
      BY <2>6, <2>10, <3>1 DEF Scenario
    <3> QED
      BY <2>2, <2>3, <3>2 DEF LifecycleOf
  <2> QED
    BY <2>4, <2>7, <2>8, <2>9, <2>10 DEF Ops
<1> QED
  BY <1>1, <1>2

\* The handlers over the database implement the atomic life cycle.
THEOREM Refinement == Spec => ImplementsLifecycle
<1>1. IInv /\ IInv' /\ [Next]_vars => [Lifecycle!Next]_LifecycleOf
  BY StepRefines
<1> QED
  BY <1>1, InitRefines, Inductive, PTL DEF Spec, ImplementsLifecycle, Lifecycle!Spec

\* The entry a commit appends, and what it says of the stored row.
LEMMA SimulationsNotedKept ==
  ASSUME IInv, SimulationsNoted, [Next]_vars
  PROVE  SimulationsNoted'
<1>1. CASE UNCHANGED <<rows, audit>>
  BY <1>1 DEF SimulationsNoted, SimulatedOncePerDraft, Redraft, Stored
<1>2. CASE ~ UNCHANGED <<rows, audit>>
  <2>1. PICK w \in Workers : Commit(w)
    BY <1>2, OnlyCommitChangesRows
  <2> DEFINE r == req[w]
             e == AuditEntry(r)
  <2>2. /\ r.id \in Ids /\ rows' = [rows EXCEPT ![r.id] = r.write]
        /\ r.write \in Scenario
        /\ Checked(r) /\ SeenStands(r) /\ WriteStands(r)
    BY <2>1, CommitEffect
  <2>3. audit' = Append(audit, e) /\ audit \in Seq(Entry) /\ e \in Entry
    BY <2>1, AuditEntryTyped DEF Commit, IInv, TypeOK
  <2>0. PICK last \in Nat : last = Len(audit) + 1
    BY <2>3
  <2>4. /\ DOMAIN audit = 1 .. last - 1 /\ DOMAIN audit' = 1 .. last
        /\ \A n \in DOMAIN audit : n < last /\ n \in Nat /\ audit'[n] = audit[n]
        /\ audit'[last] = e
    BY <2>0, <2>3
  <2>5. /\ e.id = r.id /\ e.action = r.op /\ e.after = AfterSnapshot(r)
    BY DEF AuditEntry
  <2>6. /\ rows'[r.id] = r.write /\ r.write # NoScenario
        /\ \A id \in Ids \ {r.id} : rows'[id] = rows[id]
    BY <2>2, ConstantsAssumption DEF IInv, TypeOK
  <2>7. \A n \in DOMAIN audit : audit[n].id \in Ids
    <3>1. \A n \in DOMAIN audit : audit[n] \in Entry
      BY <2>3
    <3> QED
      BY <3>1 DEF Entry
  <2> HIDE DEF e
  \* What the new entry finds: a draft, redrafted after every simulation.
  <2>8. ASSUME r.op = "simulate", NEW n \in DOMAIN audit,
               audit[n].action = "simulate", audit[n].id = r.id
        PROVE  \E p \in DOMAIN audit : n <= p /\ Redraft(p, r.id)
    <3>1. rows[r.id].state = "draft"
      BY <2>2, <2>8 DEF WriteStands
    <3> QED
      BY <2>8, <3>1 DEF SimulationsNoted
  <2>9. ASSUME NEW p \in DOMAIN audit, NEW id, Redraft(p, id) PROVE Redraft(p, id)'
    BY <2>4, <2>9 DEF Redraft
  <2>10. ASSUME NEW n \in DOMAIN audit', audit'[n].action = "simulate"
         PROVE  /\ Stored(audit[n].id)'
                /\ rows'[audit'[n].id].state = "draft" =>
                     \E p \in DOMAIN audit' : n <= p /\ Redraft(p, audit[n].id)'
    <3>1. CASE n = last
      <4>1. r.op = "simulate" /\ audit'[n].id = r.id
        BY <2>4, <2>5, <2>10, <3>1
      <4>2. r.write.state = "simulated"
        <5>1. rows[r.id] \in Scenario /\ r.write = SimulatedRow(rows[r.id], Evaluate[r.seen.input], r.key)
          BY <2>2, <4>1 DEF WriteStands, SeenStands, Stored, IInv, TypeOK
        <5> QED
          BY <5>1 DEF SimulatedRow, Scenario
      <4> QED
        BY <2>6, <4>1, <4>2 DEF Stored
    <3>2. CASE n \in DOMAIN audit
      <4>0. PICK id \in Ids : audit[n].id = id
        BY <2>7, <3>2
      <4>1. audit'[n] = audit[n] /\ audit[n].id = id /\ audit[n].action = "simulate"
        BY <2>4, <2>10, <3>2, <4>0
      <4>2. Stored(id) /\ (rows[id].state = "draft" =>
                \E p \in DOMAIN audit : n <= p /\ Redraft(p, id))
        BY <3>2, <4>1 DEF SimulationsNoted
      <4>3. Stored(id)'
        BY <2>6, <4>1, <4>2 DEF Stored
      <4>4. ASSUME rows'[id].state = "draft"
            PROVE  \E p \in DOMAIN audit' : n <= p /\ Redraft(p, id)'
        <5>1. CASE rows[id].state = "draft"
          BY <2>4, <2>9, <4>2, <5>1
        <5>2. CASE rows[id].state # "draft"
          <6>1. id = r.id /\ r.write.state = "draft"
            BY <2>6, <4>1, <4>4, <5>2
          <6>2. r.op # "create" /\ rows[id] \in Scenario
            BY <2>2, <4>1, <4>2, <6>1 DEF SeenStands, Stored, IInv, TypeOK
          <6>3. r.op = "transition"
            BY <2>2, <5>2, <6>1, <6>2 DEF Checked, Ops, WriteStands, Scenario
          <6>4. r.to = "draft" /\ r.seen \in Scenario
            BY <2>2, <6>1, <6>2, <6>3 DEF WriteStands, MovedRow, Checked, Scenario
          <6>5. e.after.state = "draft"
            BY <2>5, <6>3, <6>4 DEF AfterSnapshot, MovedRow, Scenario
          <6>6. Redraft(last, id)'
            BY <2>4, <2>5, <6>1, <6>3, <6>5 DEF Redraft
          <6> QED
            BY <2>4, <3>2, <6>6
        <5> QED
          BY <5>1, <5>2
      <4> QED
        BY <4>1, <4>3, <4>4 DEF Redraft, Stored
    <3> QED
      BY <2>4, <2>10, <3>1, <3>2
  <2>11. SimulatedOncePerDraft'
    <3> SUFFICES ASSUME NEW m \in DOMAIN audit', NEW n \in DOMAIN audit', m < n,
                        audit'[m].id = audit'[n].id,
                        audit'[m].action = "simulate", audit'[n].action = "simulate"
                 PROVE  \E p \in m .. n :
                          /\ audit'[p].id = audit'[m].id
                          /\ audit'[p].action = "transition"
                          /\ audit'[p].after.state = "draft"
      BY DEF SimulatedOncePerDraft
    <3>1. m \in DOMAIN audit /\ audit'[m] = audit[m]
      BY <2>4
    <3>2. CASE n \in DOMAIN audit
      <4>1. PICK p \in m .. n : /\ audit[p].id = audit[m].id
                                /\ audit[p].action = "transition"
                                /\ audit[p].after.state = "draft"
        BY <2>4, <3>1, <3>2 DEF SimulationsNoted, SimulatedOncePerDraft
      <4>2. p \in DOMAIN audit /\ audit'[p] = audit[p]
        BY <2>4, <3>1, <3>2
      <4> QED
        BY <3>1, <4>1, <4>2
    <3>3. CASE n = last
      <4>1. r.op = "simulate" /\ audit[m].id = r.id
        BY <2>4, <2>5, <3>1, <3>3
      <4>2. PICK p \in DOMAIN audit : m <= p /\ Redraft(p, r.id)
        BY <2>8, <3>1, <4>1
      <4>3. p \in m .. n /\ audit'[p] = audit[p]
        BY <2>4, <3>1, <3>3, <4>2
      <4> QED
        BY <3>1, <4>1, <4>2, <4>3 DEF Redraft
    <3> QED
      BY <2>4, <3>2, <3>3
  <2> QED
    BY <2>10, <2>11 DEF SimulationsNoted
<1> QED
  BY <1>1, <1>2

\* A draft is simulated once: a later simulation comes after a redraft.
THEOREM SimulatedOnce == Spec => []SimulatedOncePerDraft
<1>1. Init => SimulationsNoted
  BY DEF Init, SimulationsNoted, SimulatedOncePerDraft
<1>2. SimulationsNoted => SimulatedOncePerDraft
  BY DEF SimulationsNoted
<1>3. IInv /\ SimulationsNoted /\ [Next]_vars => SimulationsNoted'
  BY SimulationsNotedKept
<1> QED
  BY <1>1, <1>2, <1>3, Inductive, PTL DEF Spec
=============================================================================
