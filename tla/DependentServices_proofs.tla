---------------------- MODULE DependentServices_proofs ----------------------
(***************************************************************************)
(* Theorems about DependentServices, for every number of workers, users,   *)
(* services and chains, and for an audit log of any length.                *)
(***************************************************************************)
EXTENDS DependentServices, TLAPS

(***************************************************************************)
(* The invariant: what a handler knows, and how long it stays true.        *)
(***************************************************************************)

Pending == {"loaded", "checked", "written", "recorded"}

\* What the checks of a request established.  References that were found stay
\* found; the graph that was searched may be another one by now.
Known(r) ==
    /\ r.user \in Users /\ r.service \in Codes /\ r.op \in Ops
    /\ r.op = "create" => r.seen = NoService
    /\ r.op # "create" => r.seen \in Service /\ Stored(r.service)
    /\ r.stage = "loaded" => r.op # "deactivate" /\ r.graph = NoGraph
    /\ r.op # "deactivate" => r.body \in Payload
    /\ r.op = "update" =>
          MayTransfer(r.user, r.body.team) /\ Owns(r.user, r.seen.team)
    /\ r.stage # "loaded" /\ r.op # "deactivate" =>
          /\ r.body.chain \in Chains
          /\ r.op = "update" => r.service \notin r.body.edges
          /\ \A d \in r.body.edges : Stored(d)
          /\ r.graph # NoGraph =>
                \/ r.op = "create" /\ Stored(r.service)
                \/ Acyclic([r.graph EXCEPT ![r.service] = r.body.edges])

\* What an open transaction stores: the lock keeps the row as it was found.
OpenWrite(r) ==
    /\ r.op = "create" =>
          ~ Stored(r.service) /\ r.write = NewService(r.body)
    /\ r.op = "update" => r.write = Updated(services[r.service], r.body)
    /\ r.op = "deactivate" =>
          /\ services[r.service].state = "active"
          /\ r.write = [services[r.service] EXCEPT !.state = "inactive"]

RequestSound(r) ==
    /\ r.stage \in Pending => Known(r)
    /\ r.stage \in InTransaction => OpenWrite(r)

RequestsSound == \A w \in Workers : RequestSound(req[w])

\* Open transactions are about different services.
LocksExclude ==
    \A v, w \in Workers :
        v # w /\ req[v].stage \in InTransaction /\ req[w].stage \in InTransaction =>
            req[v].service # req[w].service

\* Retirements are recorded once, and of stored services only.
RetirementsRecorded ==
    /\ RetiredOnce
    /\ \A c \in Codes : ~ Stored(c) => Deactivations(c) = {}

IInv ==
    /\ TypeOK
    /\ ReferencesExist
    /\ RequestsSound
    /\ LocksExclude
    /\ RetirementsRecorded

\* Before any request the tables are what the seed left.
LEMMA InitSound == Init => IInv
<1> SUFFICES ASSUME Init PROVE IInv
  OBVIOUS
<1>1. /\ services \in [Codes -> Service \union {NoService}]
      /\ \A c \in Codes : services[c] # NoService => services[c].state = "active"
      /\ ReferencesHold(services)
  BY ServiceAssumption DEF Init, ServiceAssumption
<1>2. Idle \in Request
  BY DEF Idle, Request, Stages, Answers
<1>3. TypeOK /\ ReferencesExist
  BY <1>1, <1>2 DEF Init, TypeOK, ReferencesExist
<1>4. RequestsSound /\ LocksExclude
  BY DEF Init, Idle, RequestsSound, RequestSound, LocksExclude, Pending, InTransaction
<1>5. \A c \in Codes : Deactivations(c) = {}
  <2>1. DOMAIN audit = {}
    BY DEF Init
  <2> QED
    BY <2>1 DEF Deactivations
<1>6. RetirementsRecorded
  BY <1>1, <1>5 DEF RetirementsRecorded, RetiredOnce, Stored
<1> QED
  BY <1>3, <1>4, <1>6 DEF IInv

\* A step that replaces one worker's request and nothing else preserves the
\* invariant if the new request is sound by itself.
LEMMA LocalStep ==
  ASSUME IInv, NEW w \in Workers, NEW r \in Request,
         req' = [req EXCEPT ![w] = r], UNCHANGED <<services, audit>>,
         RequestSound(r),
         r.stage \in InTransaction =>
            \A v \in Workers \ {w} :
                req[v].stage \in InTransaction => req[v].service # r.service
  PROVE  IInv'
<1>1. TypeOK' /\ ReferencesExist'
  BY DEF IInv, TypeOK, ReferencesExist
<1>2. \A v \in Workers : req'[v] = IF v = w THEN r ELSE req[v]
  BY DEF IInv, TypeOK
<1>3. RequestsSound'
  <2>1. ASSUME NEW s PROVE RequestSound(s)' <=> RequestSound(s)
    BY DEF RequestSound, Known, OpenWrite, Stored, MayTransfer
  <2>2. ASSUME NEW v \in Workers PROVE RequestSound(req[v])'
    <3>1. PICK s : s = req'[v]
      OBVIOUS
    <3>2. RequestSound(s)
      BY <1>2, <3>1 DEF IInv, RequestsSound
    <3>3. RequestSound(s)'
      BY <2>1, <3>2
    <3> QED
      BY <3>1, <3>3 DEF RequestSound, Known, OpenWrite, Stored, MayTransfer
  <2> QED
    BY <2>2 DEF RequestsSound
<1>4. LocksExclude'
  BY <1>2 DEF IInv, LocksExclude
<1>5. RetirementsRecorded'
  BY DEF IInv, RetirementsRecorded, RetiredOnce, Deactivations, Stored
<1> QED
  BY <1>1, <1>3, <1>4, <1>5 DEF IInv

\* Answering, whatever the answer, preserves the invariant.
LEMMA AnswerStep ==
  ASSUME IInv, NEW w \in Workers, NEW code \in Answers, Answer(w, code),
         UNCHANGED <<services, audit>>
  PROVE  IInv'
<1> DEFINE r == [Idle EXCEPT !.stage = "answered", !.answer = code]
<1>1. r \in Request /\ r.stage = "answered"
  BY DEF Idle, Request, Stages
<1>2. req' = [req EXCEPT ![w] = r]
  BY DEF Answer
<1> HIDE DEF r
<1> QED
  BY <1>1, <1>2, LocalStep DEF RequestSound, Pending, InTransaction

\* A request that was not refused starts with what its checks established.
LEMMA ArriveStep ==
  ASSUME IInv, NEW w \in Workers, NEW r \in Request, NEW refusal \in Answers,
         Arrive(w, r, refusal),
         r.stage \in {"loaded", "checked"},
         refusal = "none" => Known(r)
  PROVE  IInv'
<1>1. CASE refusal = "none"
  <2>1. req' = [req EXCEPT ![w] = r] /\ UNCHANGED <<services, audit>>
    BY <1>1 DEF Arrive
  <2> QED
    BY <1>1, <2>1, LocalStep DEF RequestSound, InTransaction
<1>2. CASE refusal # "none"
  BY <1>2, AnswerStep DEF Arrive
<1> QED
  BY <1>1, <1>2

LEMMA BeginCreateSound ==
  ASSUME IInv, NEW w \in Workers, NEW u \in Users, NEW c \in Codes,
         NEW body \in Payloads, BeginCreate(w, u, c, body)
  PROVE  IInv'
<1> DEFINE r == [Idle EXCEPT !.stage = "loaded", !.op = "create", !.user = u,
                             !.service = c, !.body = body]
           refusal == IF May(u) /\ Owns(u, body.team) THEN "none" ELSE "forbidden"
<1>1. Arrive(w, r, refusal)
  BY DEF BeginCreate
<1>2. body \in Payload
  BY ServiceAssumption DEF ServiceAssumption
<1>3. r \in Request /\ refusal \in Answers
  BY <1>2 DEF Idle, Request, Stages, Ops, Answers
<1>4. /\ r.stage = "loaded" /\ r.op = "create" /\ r.user = u /\ r.service = c
      /\ r.body = body /\ r.seen = NoService /\ r.graph = NoGraph
  BY DEF Idle
<1>5. Known(r)
  BY <1>2, <1>4 DEF Known, Ops
<1> HIDE DEF r, refusal
<1> QED
  BY <1>1, <1>3, <1>4, <1>5, ArriveStep

LEMMA BeginUpdateSound ==
  ASSUME IInv, NEW w \in Workers, NEW u \in Users, NEW c \in Codes,
         NEW body \in Payloads, BeginUpdate(w, u, c, body)
  PROVE  IInv'
<1> DEFINE r == [Idle EXCEPT !.stage = "loaded", !.op = "update", !.user = u,
                             !.service = c, !.body = body, !.seen = services[c]]
           refusal == IF ~ May(u)                         THEN "forbidden"
                      ELSE IF ~ Stored(c)                 THEN "not_found"
                      ELSE IF ~ Owns(u, services[c].team) THEN "forbidden"
                      ELSE IF ~ MayTransfer(u, body.team) THEN "forbidden"
                      ELSE "none"
<1>1. Arrive(w, r, refusal)
  BY DEF BeginUpdate
<1>2. body \in Payload /\ services[c] \in Service \union {NoService}
  BY ServiceAssumption DEF ServiceAssumption, IInv, TypeOK
<1>3. r \in Request /\ refusal \in Answers
  BY <1>2 DEF Idle, Request, Stages, Ops, Answers
<1>4. /\ r.stage = "loaded" /\ r.op = "update" /\ r.user = u /\ r.service = c
      /\ r.body = body /\ r.seen = services[c] /\ r.graph = NoGraph
  BY DEF Idle
<1>5. refusal = "none" =>
        Stored(c) /\ MayTransfer(u, body.team) /\ Owns(u, services[c].team)
  OBVIOUS
<1> HIDE DEF r, refusal
<1>6. refusal = "none" => Known(r)
  BY <1>2, <1>4, <1>5 DEF Known, Ops, Stored
<1> QED
  BY <1>1, <1>3, <1>4, <1>6, ArriveStep

LEMMA BeginDeactivateSound ==
  ASSUME IInv, NEW w \in Workers, NEW u \in Users, NEW c \in Codes,
         BeginDeactivate(w, u, c)
  PROVE  IInv'
<1> DEFINE r == [Idle EXCEPT !.stage = "checked", !.op = "deactivate", !.user = u,
                             !.service = c, !.seen = services[c]]
           refusal == IF ~ May(u)                          THEN "forbidden"
                      ELSE IF ~ Stored(c)                  THEN "not_found"
                      ELSE IF ~ Owns(u, services[c].team)  THEN "forbidden"
                      ELSE IF services[c].state # "active" THEN "inactive"
                      ELSE "none"
<1>1. Arrive(w, r, refusal)
  BY DEF BeginDeactivate
<1>2. services[c] \in Service \union {NoService}
  BY DEF IInv, TypeOK
<1>3. r \in Request /\ refusal \in Answers
  BY <1>2 DEF Idle, Request, Stages, Ops, Answers
<1>4. /\ r.stage = "checked" /\ r.op = "deactivate" /\ r.user = u /\ r.service = c
      /\ r.seen = services[c]
  BY DEF Idle
<1>5. refusal = "none" => Stored(c)
  OBVIOUS
<1> HIDE DEF r, refusal
<1>6. refusal = "none" => Known(r)
  BY <1>2, <1>4, <1>5 DEF Known, Ops, Stored
<1> QED
  BY <1>1, <1>3, <1>4, <1>6, ArriveStep

\* The edges of a table are a graph over all codes.
LEMMA EdgesTyped ==
  ASSUME TypeOK
  PROVE  /\ EdgesIn(services) \in [Codes -> SUBSET Codes]
         /\ EdgesIn(services) # NoGraph
<1>1. ASSUME NEW c \in Codes
      PROVE  (IF services[c] = NoService THEN {} ELSE services[c].edges) \in SUBSET Codes
  <2>1. services[c] \in Service \union {NoService}
    BY DEF TypeOK
  <2> QED
    BY <2>1 DEF Service
<1>2. EdgesIn(services) \in [Codes -> SUBSET Codes]
  BY <1>1 DEF EdgesIn
<1> QED
  BY <1>2, ServiceAssumption DEF ServiceAssumption

\* A request whose checks have passed goes on with the graph it searched.
LEMMA CheckedStep ==
  ASSUME IInv, NEW w \in Workers, req[w].stage = "loaded",
         NEW graph \in [Codes -> SUBSET Codes] \union {NoGraph},
         req' = [req EXCEPT ![w].stage = "checked", ![w].graph = graph],
         UNCHANGED <<services, audit>>,
         ReferencesFound(req[w]),
         graph # NoGraph =>
            \/ req[w].op = "create" /\ Stored(req[w].service)
            \/ Acyclic([graph EXCEPT ![req[w].service] = req[w].body.edges])
  PROVE  IInv'
<1>1. PICK r : r = req[w]
  OBVIOUS
<1> DEFINE s == [r EXCEPT !.stage = "checked", !.graph = graph]
<1>2. r \in Request /\ Known(r)
  BY <1>1 DEF IInv, TypeOK, RequestsSound, RequestSound, Pending
<1>3. s \in Request
  BY <1>2 DEF Request, Stages
<1>4. req' = [req EXCEPT ![w] = s]
  BY <1>1 DEF IInv, TypeOK
<1>5. /\ s.stage = "checked" /\ s.op = r.op /\ s.user = r.user /\ s.service = r.service
      /\ s.body = r.body /\ s.seen = r.seen /\ s.graph = graph
  BY <1>2 DEF Request
<1> HIDE DEF s
<1>6. Known(s)
  BY <1>1, <1>2, <1>5 DEF Known, ReferencesFound
<1> QED
  BY <1>3, <1>4, <1>5, <1>6, LocalStep DEF RequestSound, InTransaction

LEMMA CheckGraphSound ==
  ASSUME IInv, NEW w \in Workers, CheckGraph(w)
  PROVE  IInv'
<1> DEFINE graph == EdgesIn(services)
<1>1. req[w].stage = "loaded" /\ UNCHANGED <<services, audit>>
  BY DEF CheckGraph
<1>2. graph \in [Codes -> SUBSET Codes]
  BY EdgesTyped DEF IInv
<1>3. CASE Answer(w, "bad_reference") \/ Answer(w, "cyclic")
  BY <1>1, <1>3, AnswerStep DEF Answers
<1>4. CASE /\ ReferencesFound(req[w]) /\ Acyclic(Candidate(req[w], graph))
           /\ req' = [req EXCEPT ![w].stage = "checked", ![w].graph = graph]
  <2>1. \/ req[w].op = "create" /\ Stored(req[w].service)
        \/ Acyclic([graph EXCEPT ![req[w].service] = req[w].body.edges])
    BY <1>4 DEF Candidate
  <2> HIDE DEF graph
  <2> QED
    BY <1>1, <1>2, <1>4, <2>1, CheckedStep
<1> QED
  BY <1>3, <1>4 DEF CheckGraph

LEMMA CheckGraphUnreadSound ==
  ASSUME IInv, NEW w \in Workers, CheckGraphUnread(w)
  PROVE  IInv'
<1>1. /\ req[w].stage = "loaded" /\ UNCHANGED <<services, audit>>
      /\ ReferencesFound(req[w])
  BY DEF CheckGraphUnread
<1>2. CASE Answer(w, "cyclic")
  BY <1>1, <1>2, AnswerStep DEF Answers
<1>3. CASE req' = [req EXCEPT ![w].stage = "checked"]
  <2>1. req[w] \in Request /\ req[w].graph = NoGraph
    BY <1>1 DEF IInv, TypeOK, RequestsSound, RequestSound, Pending, Known
  <2>2. req' = [req EXCEPT ![w].stage = "checked", ![w].graph = NoGraph]
    BY <1>3, <2>1 DEF IInv, TypeOK, Request
  <2> QED
    BY <1>1, <2>2, CheckedStep
<1> QED
  BY <1>2, <1>3 DEF CheckGraphUnread

(***************************************************************************)
(* The transaction.                                                        *)
(***************************************************************************)

\* A row with the columns of an acceptable request is a service.
LEMMA RowsTyped ==
  /\ \A body \in Payload : body.chain \in Chains => NewService(body) \in Service
  /\ \A row \in Service, body \in Payload :
        body.chain \in Chains => Updated(row, body) \in Service
  /\ \A row \in Service : [row EXCEPT !.state = "inactive"] \in Service
BY DEF Service, Payload, NewService, Updated

\* A statement that stores the row its operation means, with the lock free.
LEMMA WriteStep ==
  ASSUME IInv, NEW w \in Workers, req[w].stage = "checked",
         NEW row \in Service, WriteInTransaction(w, row),
         ~ Locked(w, req[w].service),
         OpenWrite([req[w] EXCEPT !.write = row])
  PROVE  IInv'
<1>1. PICK r : r = req[w]
  OBVIOUS
<1> DEFINE s == [r EXCEPT !.stage = "written", !.write = row]
           t == [r EXCEPT !.write = row]
<1>2. r \in Request /\ Known(r)
  BY <1>1 DEF IInv, TypeOK, RequestsSound, RequestSound, Pending
<1>3. s \in Request
  BY <1>2 DEF Request, Stages
<1>4. req' = [req EXCEPT ![w] = s] /\ UNCHANGED <<services, audit>>
  BY <1>1 DEF WriteInTransaction, IInv, TypeOK
<1>5. /\ s.stage = "written" /\ s.op = r.op /\ s.user = r.user /\ s.service = r.service
      /\ s.body = r.body /\ s.seen = r.seen /\ s.graph = r.graph /\ s.write = row
  BY <1>2 DEF Request
<1>6. t.op = r.op /\ t.service = r.service /\ t.body = r.body /\ t.write = row
  BY <1>2 DEF Request
<1>7. OpenWrite(t)
  BY <1>1
<1> HIDE DEF s, t
<1>8. Known(s) /\ OpenWrite(s)
  BY <1>1, <1>2, <1>5, <1>6, <1>7 DEF Known, OpenWrite
<1>9. \A v \in Workers \ {w} :
        req[v].stage \in InTransaction => req[v].service # s.service
  BY <1>1, <1>5 DEF Locked
<1> QED
  BY <1>3, <1>4, <1>8, <1>9, LocalStep DEF RequestSound

LEMMA WriteSound ==
  ASSUME IInv, NEW w \in Workers, Write(w)
  PROVE  IInv'
<1>1. PICK r : r = req[w]
  OBVIOUS
<1>2. ASSUME NEW code \in Answers, RollBack(w, code) PROVE IInv'
  BY <1>2, AnswerStep DEF RollBack
<1>3. ASSUME NEW row
      PROVE  LET t == [r EXCEPT !.write = row]
             IN  r \in Request => t.op = r.op /\ t.service = r.service
                                  /\ t.body = r.body /\ t.write = row
  BY DEF Request
<1>4. ASSUME r.stage = "checked"
      PROVE  r \in Request /\ Known(r)
  BY <1>1, <1>4 DEF IInv, TypeOK, RequestsSound, RequestSound, Pending
<1>5. CASE InsertService(w)
  <2>1. r.op = "create" /\ r.stage = "checked" /\ ~ Locked(w, req[w].service)
    BY <1>1, <1>5 DEF InsertService
  <2>2. CASE RollBack(w, "duplicate")
    BY <1>2, <2>2 DEF Answers
  <2>3. CASE ~ Stored(r.service) /\ WriteInTransaction(w, NewService(r.body))
    <3>1. PICK row : row = NewService(r.body)
      OBVIOUS
    <3>2. row \in Service
      BY <1>4, <2>1, <3>1, RowsTyped DEF Known
    <3>3. OpenWrite([r EXCEPT !.write = row])
      BY <1>3, <1>4, <2>1, <2>3, <3>1 DEF OpenWrite
    <3> QED
      BY <1>1, <2>1, <2>3, <3>1, <3>2, <3>3, WriteStep
  <2> QED
    BY <1>1, <1>5, <2>2, <2>3 DEF InsertService
<1>6. CASE UpdateService(w)
  <2>1. /\ r.op = "update" /\ r.stage = "checked" /\ ~ Locked(w, req[w].service)
        /\ WriteInTransaction(w, Updated(services[r.service], r.body))
    BY <1>1, <1>6 DEF UpdateService
  <2>2. PICK row : row = Updated(services[r.service], r.body)
    OBVIOUS
  <2>3. services[r.service] \in Service
    BY <1>4, <2>1 DEF Known, Stored, IInv, TypeOK
  <2>4. row \in Service
    BY <1>4, <2>1, <2>2, <2>3, RowsTyped DEF Known
  <2>5. OpenWrite([r EXCEPT !.write = row])
    BY <1>3, <1>4, <2>1, <2>2 DEF OpenWrite
  <2> QED
    BY <1>1, <2>1, <2>2, <2>4, <2>5, WriteStep
<1>7. CASE DeactivateService(w)
  <2>1. r.op = "deactivate" /\ r.stage = "checked" /\ ~ Locked(w, req[w].service)
    BY <1>1, <1>7 DEF DeactivateService
  <2>2. CASE RollBack(w, "concurrent")
    BY <1>2, <2>2 DEF Answers
  <2>3. CASE /\ services[r.service].state = "active"
             /\ WriteInTransaction(w, [services[r.service] EXCEPT !.state = "inactive"])
    <3>1. PICK row : row = [services[r.service] EXCEPT !.state = "inactive"]
      OBVIOUS
    <3>2. services[r.service] \in Service
      BY <1>4, <2>1 DEF Known, Stored, IInv, TypeOK
    <3>3. row \in Service
      BY <3>1, <3>2, RowsTyped
    <3>4. OpenWrite([r EXCEPT !.write = row])
      BY <1>3, <1>4, <2>1, <2>3, <3>1 DEF OpenWrite
    <3> QED
      BY <1>1, <2>1, <2>3, <3>1, <3>3, <3>4, WriteStep
  <2> QED
    BY <1>1, <1>7, <2>2, <2>3 DEF DeactivateService
<1> QED
  BY <1>5, <1>6, <1>7 DEF Write

LEMMA RecordAuditSound ==
  ASSUME IInv, NEW w \in Workers, RecordAudit(w)
  PROVE  IInv'
<1>1. PICK r : r = req[w]
  OBVIOUS
<1> DEFINE s == [r EXCEPT !.stage = "recorded"]
<1>2. r.stage = "written" /\ UNCHANGED <<services, audit>>
  BY <1>1 DEF RecordAudit
<1>3. r \in Request /\ Known(r) /\ OpenWrite(r)
  BY <1>1, <1>2 DEF IInv, TypeOK, RequestsSound, RequestSound, Pending, InTransaction
<1>4. s \in Request
  BY <1>3 DEF Request, Stages
<1>5. req' = [req EXCEPT ![w] = s]
  BY <1>1 DEF RecordAudit, IInv, TypeOK
<1>6. /\ s.stage = "recorded" /\ s.op = r.op /\ s.user = r.user /\ s.service = r.service
      /\ s.body = r.body /\ s.seen = r.seen /\ s.graph = r.graph /\ s.write = r.write
  BY <1>3 DEF Request
<1> HIDE DEF s
<1>7. Known(s) /\ OpenWrite(s)
  BY <1>2, <1>3, <1>6 DEF Known, OpenWrite
<1>8. \A v \in Workers \ {w} :
        req[v].stage \in InTransaction => req[v].service # s.service
  BY <1>1, <1>2, <1>6 DEF IInv, LocksExclude, InTransaction
<1> QED
  BY <1>2, <1>4, <1>5, <1>7, <1>8, LocalStep DEF RequestSound

AuditEntry(r) == [user |-> r.user, service |-> r.service, action |-> r.op,
                  before |-> r.seen, after |-> AfterSnapshot(r)]

\* What a commit stores and records.
LEMMA CommitEffect ==
  ASSUME IInv, NEW w \in Workers, Commit(w), NEW r, r = req[w]
  PROVE  /\ r \in Request /\ r.stage = "recorded" /\ Known(r) /\ OpenWrite(r)
         /\ r.service \in Codes /\ r.write \in Service /\ r.write # NoService
         /\ services' = [services EXCEPT ![r.service] = r.write]
         /\ audit' = Append(audit, AuditEntry(r)) /\ audit \in Seq(Entry)
         /\ AuditEntry(r) \in Entry
         /\ r.op = "deactivate" => AuditEntry(r).after.state = "inactive"
         /\ req' = [req EXCEPT ![w] = [Idle EXCEPT !.stage = "committed"]]
<1>1. /\ r.stage = "recorded" /\ services' = [services EXCEPT ![r.service] = r.write]
      /\ audit' = Append(audit, AuditEntry(r))
      /\ req' = [req EXCEPT ![w] = [Idle EXCEPT !.stage = "committed"]]
  BY DEF Commit, AuditEntry
<1>2. r \in Request /\ Known(r) /\ OpenWrite(r) /\ audit \in Seq(Entry)
  BY <1>1 DEF IInv, TypeOK, RequestsSound, RequestSound, Pending, InTransaction
<1>3. r.service \in Codes /\ r.user \in Users /\ r.op \in Ops
      /\ r.seen \in Service \union {NoService}
  BY <1>2 DEF Known, Request
<1>4. r.op # "create" => services[r.service] \in Service /\ r.seen \in Service
  BY <1>2 DEF Known, Stored, IInv, TypeOK
<1>5. r.op # "deactivate" => r.body \in Payload /\ r.body.chain \in Chains
  BY <1>1, <1>2 DEF Known
<1>6. r.op = "create" => r.write = NewService(r.body) /\ AfterSnapshot(r) = r.write
  BY <1>2 DEF OpenWrite, AfterSnapshot
<1>7. r.op = "update" => /\ r.write = Updated(services[r.service], r.body)
                         /\ AfterSnapshot(r) = Updated(r.seen, r.body)
  BY <1>2 DEF OpenWrite, AfterSnapshot
<1>8. r.op = "deactivate" =>
        /\ r.write = [services[r.service] EXCEPT !.state = "inactive"]
        /\ AfterSnapshot(r) = [r.seen EXCEPT !.state = "inactive"]
  BY <1>2 DEF OpenWrite, AfterSnapshot
<1>9. r.write \in Service /\ AfterSnapshot(r) \in Service
  BY <1>3, <1>4, <1>5, <1>6, <1>7, <1>8, RowsTyped DEF Ops
<1>10. r.write # NoService
  BY <1>9, ServiceAssumption DEF ServiceAssumption
<1>11. AuditEntry(r) \in Entry
  BY <1>3, <1>9 DEF AuditEntry, Entry
<1>12. r.op = "deactivate" => AuditEntry(r).after.state = "inactive"
  BY <1>4, <1>8 DEF AuditEntry, Service
<1> QED
  BY <1>1, <1>2, <1>3, <1>9, <1>10, <1>11, <1>12

\* The columns of what a commit stores.
LEMMA CommittedRow ==
  ASSUME IInv, NEW w \in Workers, Commit(w), NEW r, r = req[w]
  PROVE  /\ r.op = "create" =>
              /\ ~ Stored(r.service)
              /\ r.write.team = r.body.team /\ r.write.chain = r.body.chain
              /\ r.write.edges = r.body.edges /\ r.write.state = "active"
         /\ r.op = "update" =>
              /\ Stored(r.service)
              /\ r.write.team = r.body.team /\ r.write.chain = r.body.chain
              /\ r.write.edges = r.body.edges
              /\ r.write.state = services[r.service].state
         /\ r.op = "deactivate" =>
              /\ Stored(r.service) /\ services[r.service].state = "active"
              /\ r.write.team = services[r.service].team
              /\ r.write.chain = services[r.service].chain
              /\ r.write.edges = services[r.service].edges
              /\ r.write.state = "inactive"
<1>1. Known(r) /\ OpenWrite(r)
  BY CommitEffect
<1>2. r.op # "create" => Stored(r.service) /\ services[r.service] \in Service
  BY <1>1 DEF Known, Stored, IInv, TypeOK
<1>3. CASE r.op = "create"
  BY <1>1, <1>3 DEF OpenWrite, NewService
<1>4. CASE r.op = "update"
  BY <1>1, <1>2, <1>4 DEF OpenWrite, Updated, Service
<1>5. CASE r.op = "deactivate"
  BY <1>1, <1>2, <1>5 DEF OpenWrite, Service
<1> QED
  BY <1>1, <1>3, <1>4, <1>5 DEF Known, Ops

\* After a commit every stored reference leads to a row still, though it was
\* found long before.
LEMMA CommitKeepsReferences ==
  ASSUME IInv, NEW w \in Workers, Commit(w), NEW r, r = req[w]
  PROVE  /\ ReferencesExist'
         /\ r.write.chain \in Chains /\ r.service \notin r.write.edges
         /\ \A d \in r.write.edges : services[d] # NoService
<1>1. /\ Known(r) /\ r.stage = "recorded" /\ r.service \in Codes /\ r.write \in Service
      /\ r.write # NoService
      /\ services' = [services EXCEPT ![r.service] = r.write]
  BY CommitEffect
<1>2. /\ services'[r.service] = r.write
      /\ \A c \in Codes \ {r.service} : services'[c] = services[c]
  BY <1>1 DEF IInv, TypeOK
<1>3. \A c \in Codes : services[c] # NoService => services'[c] # NoService
  BY <1>1, <1>2
<1>4. /\ r.write.chain \in Chains /\ r.service \notin r.write.edges
      /\ \A d \in r.write.edges : services[d] # NoService
  <2>1. CASE r.op = "create"
    BY <1>1, <2>1, CommittedRow DEF Known, Stored
  <2>2. CASE r.op = "update"
    BY <1>1, <2>2, CommittedRow DEF Known, Stored
  <2>3. CASE r.op = "deactivate"
    BY <1>1, <2>3, CommittedRow DEF IInv, ReferencesExist, ReferencesHold, Stored
  <2> QED
    BY <1>1, <2>1, <2>2, <2>3 DEF Known, Ops
<1>5. ASSUME NEW c \in Codes, services'[c] # NoService
      PROVE  /\ services'[c].chain \in Chains
             /\ c \notin services'[c].edges
             /\ \A d \in services'[c].edges : services'[d] # NoService
  <2>1. CASE c = r.service
    <3>1. r.write.edges \subseteq Codes
      BY <1>1 DEF Service
    <3> QED
      BY <1>2, <1>3, <1>4, <2>1, <3>1
  <2>2. CASE c # r.service
    <3>1. services'[c] = services[c]
      BY <1>2, <2>2
    <3>2. services[c].edges \subseteq Codes
      BY <1>5, <3>1 DEF IInv, TypeOK, Service
    <3>3. /\ services[c].chain \in Chains /\ c \notin services[c].edges
          /\ \A d \in services[c].edges : services[d] # NoService
      BY <1>5, <3>1 DEF IInv, ReferencesExist, ReferencesHold
    <3> QED
      BY <1>3, <3>1, <3>2, <3>3
  <2> QED
    BY <2>1, <2>2
<1> QED
  BY <1>4, <1>5 DEF ReferencesExist, ReferencesHold

\* A commit leaves what the other handlers know true.
LEMMA CommitKeepsKnowledge ==
  ASSUME IInv, NEW w \in Workers, Commit(w), NEW v \in Workers, v # w,
         NEW s, s = req[v]
  PROVE  RequestSound(s)'
<1>1. PICK r : r = req[w]
  OBVIOUS
<1>2. /\ r.stage = "recorded" /\ r.service \in Codes /\ r.write # NoService
      /\ services' = [services EXCEPT ![r.service] = r.write]
  BY <1>1, CommitEffect
<1>3. /\ services'[r.service] = r.write
      /\ \A c \in Codes \ {r.service} : services'[c] = services[c]
  BY <1>2 DEF IInv, TypeOK
<1>4. \A c \in Codes : Stored(c) => Stored(c)'
  BY <1>2, <1>3 DEF Stored
<1>5. RequestSound(s)
  BY DEF IInv, RequestsSound
<1>6. ASSUME s.stage \in Pending PROVE Known(s)'
  <2>1. Known(s)
    BY <1>5, <1>6 DEF RequestSound
  <2>2. s.stage # "loaded" /\ s.op # "deactivate" => \A d \in s.body.edges : Stored(d)'
    BY <1>4, <2>1 DEF Known, Payload
  <2> QED
    BY <1>4, <2>1, <2>2 DEF Known, MayTransfer
<1>7. ASSUME s.stage \in InTransaction PROVE OpenWrite(s)'
  <2>1. OpenWrite(s) /\ s.service \in Codes
    BY <1>5, <1>7 DEF RequestSound, Known, Pending, InTransaction
  <2>2. s.service # r.service
    BY <1>1, <1>2, <1>7 DEF IInv, LocksExclude, InTransaction
  <2>3. services'[s.service] = services[s.service]
    BY <1>3, <2>1, <2>2
  <2> QED
    BY <2>1, <2>3 DEF OpenWrite, Stored
<1> QED
  BY <1>6, <1>7 DEF RequestSound

\* A commit records a retirement exactly when it retires.
LEMMA CommitKeepsRetirements ==
  ASSUME IInv, NEW w \in Workers, Commit(w)
  PROVE  RetirementsRecorded'
<1>1. PICK r : r = req[w]
  OBVIOUS
<1> DEFINE n == Len(audit) + 1
           e == AuditEntry(r)
<1>2. /\ r.service \in Codes /\ r.write # NoService /\ Known(r)
      /\ services' = [services EXCEPT ![r.service] = r.write]
      /\ audit' = Append(audit, e) /\ audit \in Seq(Entry) /\ e \in Entry
  BY <1>1, CommitEffect
<1>3. e.action = r.op /\ e.service = r.service
  BY DEF AuditEntry
<1> HIDE DEF e
<1>4. /\ DOMAIN audit' = DOMAIN audit \union {n} /\ n \notin DOMAIN audit
      /\ audit'[n] = e /\ \A m \in DOMAIN audit : audit'[m] = audit[m]
  BY <1>2
<1> HIDE DEF n
<1>5. ASSUME NEW c \in Codes
      PROVE  Deactivations(c)' =
                IF r.op = "deactivate" /\ r.service = c
                THEN Deactivations(c) \union {n} ELSE Deactivations(c)
  BY <1>3, <1>4 DEF Deactivations
<1>6. /\ services'[r.service] = r.write
      /\ \A c \in Codes \ {r.service} : services'[c] = services[c]
  BY <1>2 DEF IInv, TypeOK
<1>7. ASSUME NEW c \in Codes
      PROVE  /\ Stored(c)' =>
                  /\ services'[c].state = "inactive" <=> Deactivations(c)' # {}
                  /\ \A m, k \in Deactivations(c)' : m = k
             /\ ~ Stored(c)' => Deactivations(c)' = {}
  <2>1. /\ Stored(c) =>
             /\ services[c].state = "inactive" <=> Deactivations(c) # {}
             /\ \A m, k \in Deactivations(c) : m = k
        /\ ~ Stored(c) => Deactivations(c) = {}
    BY DEF IInv, RetirementsRecorded, RetiredOnce
  <2>2. CASE c # r.service
    BY <1>5, <1>6, <2>1, <2>2 DEF Stored
  <2>3. CASE c = r.service
    <3>1. Stored(c)' /\ services'[c] = r.write
      BY <1>2, <1>6, <2>3 DEF Stored
    <3>2. CASE r.op = "create"
      BY <1>1, <1>5, <2>1, <2>3, <3>1, <3>2, CommittedRow
    <3>3. CASE r.op = "update"
      BY <1>1, <1>5, <2>1, <2>3, <3>1, <3>3, CommittedRow
    <3>4. CASE r.op = "deactivate"
      <4>1. Deactivations(c) = {}
        BY <1>1, <2>1, <2>3, <3>4, CommittedRow
      <4>2. Deactivations(c)' = {n}
        BY <1>5, <2>3, <3>4, <4>1
      <4> QED
        BY <1>1, <3>1, <3>4, <4>2, CommittedRow
    <3> QED
      BY <1>2, <3>2, <3>3, <3>4 DEF Known, Ops
  <2> QED
    BY <2>2, <2>3
<1> QED
  BY <1>7 DEF RetirementsRecorded, RetiredOnce

LEMMA CommitSound ==
  ASSUME IInv, NEW w \in Workers, Commit(w)
  PROVE  IInv'
<1>1. PICK r : r = req[w]
  OBVIOUS
<1>2. /\ r.service \in Codes /\ r.write \in Service
      /\ services' = [services EXCEPT ![r.service] = r.write]
      /\ audit' = Append(audit, AuditEntry(r)) /\ audit \in Seq(Entry)
      /\ AuditEntry(r) \in Entry
      /\ req' = [req EXCEPT ![w] = [Idle EXCEPT !.stage = "committed"]]
  BY <1>1, CommitEffect
<1>3. \A v \in Workers : req'[v] =
        IF v = w THEN [Idle EXCEPT !.stage = "committed"] ELSE req[v]
  BY <1>2 DEF IInv, TypeOK
<1>4. TypeOK'
  <2>1. [Idle EXCEPT !.stage = "committed"] \in Request
    BY DEF Idle, Request, Stages, Answers
  <2>2. audit' \in Seq(Entry)
    BY <1>2
  <2> QED
    BY <1>2, <2>1, <2>2 DEF IInv, TypeOK
<1>5. ReferencesExist'
  BY <1>1, CommitKeepsReferences
<1>6. RequestsSound'
  <2>1. ASSUME NEW v \in Workers PROVE RequestSound(req[v])'
    <3>1. CASE v = w
      BY <1>3, <3>1 DEF RequestSound, Idle, Pending, InTransaction
    <3>2. CASE v # w
      <4>1. PICK s : s = req[v]
        OBVIOUS
      <4>2. RequestSound(s)' /\ req'[v] = s
        BY <1>3, <3>2, <4>1, CommitKeepsKnowledge
      <4> QED
        BY <4>2 DEF RequestSound, Known, OpenWrite, Stored, MayTransfer
    <3> QED
      BY <3>1, <3>2
  <2> QED
    BY <2>1 DEF RequestsSound
<1>7. LocksExclude'
  BY <1>3 DEF IInv, LocksExclude, Idle, InTransaction
<1> QED
  BY <1>4, <1>5, <1>6, <1>7, CommitKeepsRetirements DEF IInv

(***************************************************************************)
(* Every step.                                                             *)
(***************************************************************************)

LEMMA NextSound == IInv /\ [Next]_vars => IInv'
<1> SUFFICES ASSUME IInv, [Next]_vars PROVE IInv'
  OBVIOUS
<1>1. ASSUME NEW w \in Workers, Begin(w) PROVE IInv'
  BY <1>1, BeginCreateSound, BeginUpdateSound, BeginDeactivateSound DEF Begin
<1>2. ASSUME NEW w \in Workers, Write(w) PROVE IInv'
  BY <1>2, WriteSound
<1>3. ASSUME NEW w \in Workers, Reload(w) PROVE IInv'
  BY <1>3, AnswerStep DEF Reload, Answers
<1>4. ASSUME NEW w \in Workers, Deliver(w) PROVE IInv'
  <2>1. Idle \in Request /\ RequestSound(Idle) /\ Idle.stage \notin InTransaction
    BY DEF Idle, Request, Stages, Answers, RequestSound, Pending, InTransaction
  <2>2. req' = [req EXCEPT ![w] = Idle] /\ UNCHANGED <<services, audit>>
    BY <1>4 DEF Deliver
  <2> QED
    BY <2>1, <2>2, LocalStep
<1>5. ASSUME NEW w \in Workers, Proceed(w) PROVE IInv'
  BY <1>3, <1>4, <1>5, CheckGraphSound, CheckGraphUnreadSound, RecordAuditSound, CommitSound
     DEF Proceed
<1>6. ASSUME NEW w \in Workers, Fail(w) PROVE IInv'
  BY <1>6, AnswerStep DEF Fail, RollBack, Answers
<1>7. CASE Crash
  <2>1. Idle \in Request
    BY DEF Idle, Request, Stages, Answers
  <2>2. req' = [v \in Workers |-> Idle] /\ UNCHANGED <<services, audit>>
    BY <1>7 DEF Crash
  <2>3. TypeOK' /\ ReferencesExist' /\ RetirementsRecorded'
    BY <2>1, <2>2 DEF IInv, TypeOK, ReferencesExist, RetirementsRecorded, RetiredOnce,
         Deactivations, Stored
  <2>4. RequestsSound' /\ LocksExclude'
    BY <2>2 DEF RequestsSound, RequestSound, LocksExclude, Idle, Pending, InTransaction
  <2> QED
    BY <2>3, <2>4 DEF IInv
<1>8. CASE UNCHANGED vars
  <2>1. TypeOK' /\ ReferencesExist' /\ RetirementsRecorded' /\ LocksExclude'
    BY <1>8 DEF vars, IInv, TypeOK, ReferencesExist, RetirementsRecorded, RetiredOnce,
         Deactivations, Stored, LocksExclude
  <2>2. RequestsSound'
    BY <1>8 DEF vars, IInv, RequestsSound, RequestSound, Known, OpenWrite, Stored, MayTransfer
  <2> QED
    BY <2>1, <2>2 DEF IInv
<1> QED
  BY <1>1, <1>2, <1>5, <1>6, <1>7, <1>8 DEF Next, HistoryFull

\* The invariant of the services' handlers, for any numbers of them.
THEOREM Inductive == Spec => []IInv
BY InitSound, NextSound, PTL DEF Spec

\* Every reachable state of the services is well typed.
THEOREM TypeCorrect == Spec => []TypeOK
<1>1. IInv => TypeOK
  BY DEF IInv
<1> QED
  BY <1>1, Inductive, PTL

\* References found before the transaction lead to rows ever after.
THEOREM ReferencesLead == Spec => []ReferencesExist
<1>1. IInv => ReferencesExist
  BY DEF IInv
<1> QED
  BY <1>1, Inductive, PTL

\* A service is retired once and stays retired, however deactivations and
\* updates that read it earlier race.
THEOREM Retired == Spec => []RetiredOnce
<1>1. IInv => RetiredOnce
  BY DEF IInv, RetirementsRecorded
<1> QED
  BY <1>1, Inductive, PTL

\* Rows and audit log change in commits only.
LEMMA OnlyCommitChanges ==
  ASSUME [Next]_vars, <<services, audit>>' # <<services, audit>>
  PROVE  \E w \in Workers : Commit(w)
<1>1. CASE UNCHANGED vars \/ Crash
  BY <1>1 DEF vars, Crash
<1>2. ASSUME NEW w \in Workers, Begin(w) PROVE FALSE
  BY <1>2 DEF Begin, BeginCreate, BeginUpdate, BeginDeactivate, Arrive
<1>3. ASSUME NEW w \in Workers, Write(w) PROVE FALSE
  BY <1>3 DEF Write, InsertService, UpdateService, DeactivateService, RollBack,
       WriteInTransaction
<1>4. ASSUME NEW w \in Workers, Proceed(w), ~ Commit(w) PROVE FALSE
  BY <1>4 DEF Proceed, CheckGraph, CheckGraphUnread, RecordAudit, Reload, Deliver
<1>5. ASSUME NEW w \in Workers, Fail(w) PROVE FALSE
  BY <1>5 DEF Fail, RollBack
<1> QED
  BY <1>1, <1>2, <1>3, <1>4, <1>5 DEF Next, HistoryFull

\* What a commit of one handler does, seen from outside.
LEMMA CommitSeen ==
  ASSUME IInv, NEW w \in Workers, Commit(w), NEW r, r = req[w]
  PROVE  /\ r.service \in Codes
         /\ services'[r.service] = r.write
         /\ \A c \in Codes \ {r.service} : services'[c] = services[c]
         /\ Len(audit') = Len(audit) + 1
         /\ audit = SubSeq(audit', 1, Len(audit))
         /\ audit'[Len(audit) + 1] = AuditEntry(r)
<1>1. /\ r.service \in Codes
      /\ services' = [services EXCEPT ![r.service] = r.write]
      /\ audit' = Append(audit, AuditEntry(r)) /\ audit \in Seq(Entry)
      /\ AuditEntry(r) \in Entry
  BY CommitEffect
<1>2. /\ services'[r.service] = r.write
      /\ \A c \in Codes \ {r.service} : services'[c] = services[c]
  BY <1>1 DEF IInv, TypeOK
<1> HIDE DEF AuditEntry
<1>3. PICK e \in Entry : e = AuditEntry(r)
  BY <1>1
<1>4. /\ Len(audit') = Len(audit) + 1
      /\ audit = SubSeq(audit', 1, Len(audit))
      /\ audit'[Len(audit) + 1] = e
  BY <1>1, <1>3
<1> QED
  BY <1>1, <1>2, <1>3, <1>4

\* Row and audit entry become visible in one step, and the entry shows what
\* the request changed although it is made from a row read before.
THEOREM AuditAtomicity == Spec => AuditedAtomically
<1> DEFINE Step ==
      /\ Len(audit') = Len(audit) + 1
      /\ audit = SubSeq(audit', 1, Len(audit))
      /\ LET e == audit'[Len(audit) + 1]
             row == services'[e.service]
         IN  /\ \A c \in Codes \ {e.service} : services'[c] = services[c]
             /\ e.action \in {"create", "update"} =>
                   /\ row.team = e.after.team
                   /\ row.chain = e.after.chain
                   /\ row.edges = e.after.edges
             /\ e.action = "deactivate" => row.state = e.after.state
<1>1. IInv /\ [Next]_vars => [Step]_<<services, audit>>
  <2> SUFFICES ASSUME IInv, [Next]_vars, <<services, audit>>' # <<services, audit>>
               PROVE  Step
    OBVIOUS
  <2>1. PICK w \in Workers : Commit(w)
    BY OnlyCommitChanges
  <2>2. PICK r : r = req[w]
    OBVIOUS
  <2> DEFINE e == AuditEntry(r)
  <2>3. /\ services'[r.service] = r.write
        /\ \A c \in Codes \ {r.service} : services'[c] = services[c]
        /\ Len(audit') = Len(audit) + 1
        /\ audit = SubSeq(audit', 1, Len(audit))
        /\ audit'[Len(audit) + 1] = e
    BY <2>1, <2>2, CommitSeen
  <2>4. Known(r) /\ OpenWrite(r) /\ e \in Entry
        /\ (r.op = "deactivate" => e.after.state = "inactive")
    BY <2>1, <2>2, CommitEffect
  <2>5. e.service = r.service /\ e.action = r.op /\ e.after = AfterSnapshot(r)
    BY DEF AuditEntry
  <2>6. CASE r.op = "create"
    <3>1. e.after = r.write
      BY <2>5, <2>6 DEF AfterSnapshot
    <3> QED
      BY <2>3, <2>5, <2>6, <3>1
  <2>7. CASE r.op = "update"
    <3>1. /\ e.after.team = r.body.team /\ e.after.chain = r.body.chain
          /\ e.after.edges = r.body.edges
      BY <2>4, <2>5, <2>7 DEF AfterSnapshot, Updated, Known, Service
    <3>2. /\ r.write.team = r.body.team /\ r.write.chain = r.body.chain
          /\ r.write.edges = r.body.edges
      BY <2>1, <2>2, <2>7, CommittedRow
    <3> QED
      BY <2>3, <2>5, <2>7, <3>1, <3>2
  <2>8. CASE r.op = "deactivate"
    <3>1. r.write.state = "inactive"
      BY <2>1, <2>2, <2>8, CommittedRow
    <3> QED
      BY <2>3, <2>4, <2>5, <2>8, <3>1
  <2> QED
    BY <2>4, <2>6, <2>7, <2>8 DEF Known, Ops
<1> QED
  BY <1>1, Inductive, PTL DEF Spec, AuditedAtomically

\* An owner's commit moves a service to no team but their own, and only if
\* the row their request read was in it.
THEOREM OwnersKeep == Spec => OwnersGiveNothingAway
<1> DEFINE Step ==
      audit' # audit =>
          LET e == audit'[Len(audit')]
              before == services[e.service]
              after  == services'[e.service]
          IN  RoleOf[e.user] = "service_owner" /\ before # NoService
              /\ after.team # before.team =>
                  /\ after.team = TeamOf[e.user]
                  /\ e.before.team = TeamOf[e.user]
<1>1. IInv /\ [Next]_vars => [Step]_<<services, audit>>
  <2> SUFFICES ASSUME IInv, [Next]_vars, <<services, audit>>' # <<services, audit>>
               PROVE  Step
    OBVIOUS
  <2>1. PICK w \in Workers : Commit(w)
    BY OnlyCommitChanges
  <2>2. PICK r : r = req[w]
    OBVIOUS
  <2> DEFINE e == AuditEntry(r)
  <2>3. /\ services'[r.service] = r.write /\ audit'[Len(audit')] = e
        /\ Known(r)
    BY <2>1, <2>2, CommitSeen, CommitEffect
  <2>4. e.service = r.service /\ e.user = r.user /\ e.before = r.seen
    BY DEF AuditEntry
  <2> HIDE DEF e
  <2> SUFFICES ASSUME RoleOf[r.user] = "service_owner", services[r.service] # NoService,
                      r.write.team # services[r.service].team
               PROVE  r.write.team = TeamOf[r.user] /\ r.seen.team = TeamOf[r.user]
    BY <2>3, <2>4
  <2>5. CASE r.op = "create"
    BY <2>1, <2>2, <2>5, CommittedRow DEF Stored
  <2>6. CASE r.op = "update"
    <3>1. r.write.team = r.body.team
      BY <2>1, <2>2, <2>6, CommittedRow
    <3> QED
      BY <2>3, <2>6, <3>1 DEF Known, MayTransfer, Owns
  <2>7. CASE r.op = "deactivate"
    BY <2>1, <2>2, <2>7, CommittedRow
  <2> QED
    BY <2>3, <2>5, <2>6, <2>7 DEF Known, Ops
<1> QED
  BY <1>1, Inductive, PTL DEF Spec, OwnersGiveNothingAway

\* A commit closes a cycle only if its handler searched another graph, for
\* any number of services.
THEOREM CyclesAreStale == Spec => CyclesOnlyFromStaleReads
<1> DEFINE Step ==
      Acyclic(EdgesIn(services)) /\ ~ Acyclic(EdgesIn(services')) =>
          \E w \in Workers :
              /\ req[w].stage = "recorded" /\ req'[w].stage = "committed"
              /\ req[w].graph # EdgesIn(services)
<1>1. IInv /\ [Next]_vars => [Step]_services
  <2> SUFFICES ASSUME IInv, [Next]_vars, services' # services,
                      Acyclic(EdgesIn(services)), ~ Acyclic(EdgesIn(services'))
               PROVE  \E w \in Workers :
                        /\ req[w].stage = "recorded" /\ req'[w].stage = "committed"
                        /\ req[w].graph # EdgesIn(services)
    OBVIOUS
  <2>1. PICK w \in Workers : Commit(w)
    BY OnlyCommitChanges
  <2>2. PICK r : r = req[w]
    OBVIOUS
  <2>3. /\ r.stage = "recorded" /\ Known(r) /\ r.service \in Codes
        /\ r.write \in Service /\ r.write # NoService
        /\ req' = [req EXCEPT ![w] = [Idle EXCEPT !.stage = "committed"]]
    BY <2>1, <2>2, CommitEffect
  <2>4. req'[w].stage = "committed"
    BY <2>3 DEF IInv, TypeOK, Idle
  <2>5. SUFFICES ASSUME r.graph = EdgesIn(services) PROVE FALSE
    BY <2>2, <2>3, <2>4
  <2>6. /\ services'[r.service] = r.write
        /\ \A c \in Codes \ {r.service} : services'[c] = services[c]
    BY <2>1, <2>2, CommitSeen
  <2>7. EdgesIn(services') = [EdgesIn(services) EXCEPT ![r.service] = r.write.edges]
    BY <2>3, <2>6 DEF EdgesIn
  <2>8. CASE r.op = "deactivate"
    <3>1. Stored(r.service) /\ r.write.edges = services[r.service].edges
      BY <2>1, <2>2, <2>8, CommittedRow
    <3>2. EdgesIn(services)[r.service] = r.write.edges
      BY <2>3, <3>1 DEF EdgesIn, Stored
    <3>3. EdgesIn(services') = EdgesIn(services)
      BY <2>7, <3>2 DEF EdgesIn
    <3> QED
      BY <3>3
  <2>9. CASE r.op # "deactivate"
    <3>1. r.write.edges = r.body.edges /\ (r.op = "create" => ~ Stored(r.service))
      BY <2>1, <2>2, <2>3, <2>9, CommittedRow DEF Known, Ops
    <3>2. r.graph # NoGraph
      BY <2>5, EdgesTyped DEF IInv
    <3>3. Acyclic([r.graph EXCEPT ![r.service] = r.body.edges])
      BY <2>3, <2>9, <3>1, <3>2 DEF Known
    <3> QED
      BY <2>5, <2>7, <3>1, <3>3
  <2> QED
    BY <2>8, <2>9
<1> QED
  BY <1>1, Inductive, PTL DEF Spec, CyclesOnlyFromStaleReads

(***************************************************************************)
(* The committed rows are the inventory readers are promised.              *)
(***************************************************************************)

\* The table as readers see it.
LEMMA MappedRow ==
  ASSUME TypeOK
  PROVE  /\ Table \in [Codes -> Promised!Service \union {NoService}]
         /\ \A c \in Codes :
              /\ Stored(c) <=> Table[c] # NoService
              /\ Stored(c) => /\ Table[c].chain = services[c].chain
                              /\ Table[c].edges = services[c].edges
                              /\ Table[c].state = services[c].state
<1>1. ASSUME NEW c \in Codes, Stored(c)
      PROVE  [chain |-> services[c].chain, edges |-> services[c].edges,
              state |-> services[c].state] \in Promised!Service
  <2>1. services[c] \in Service
    BY <1>1 DEF TypeOK, Stored
  <2> QED
    BY <2>1 DEF Service, Promised!Service
<1>2. NoService \notin Promised!Service
  BY ServiceAssumption DEF ServiceAssumption, Promised!Service
<1> QED
  BY <1>1, <1>2 DEF Table

LEMMA InitRefines == Init => Promised!Init
<1> SUFFICES ASSUME Init PROVE Promised!Init
  OBVIOUS
<1>1. TypeOK /\ ReferencesExist
  BY InitSound DEF IInv
<1>2. \A c \in Codes : Stored(c) => services[c].state = "active"
  BY ServiceAssumption DEF ServiceAssumption, Init, Stored
<1>3. [c \in Chains |-> "validated"] \in [Chains -> Promised!ChainStates \union {NoService}]
  BY DEF Promised!ChainStates
<1>4. Promised!References
  <2>1. ASSUME NEW c \in Codes, Stored(c)
        PROVE  Promised!RefersTo(c, services[c].chain, services[c].edges)
    <3>1. /\ services[c].chain \in Chains /\ c \notin services[c].edges
          /\ \A d \in services[c].edges : Stored(d) /\ d \in Codes
      BY <1>1, <2>1 DEF ReferencesExist, ReferencesHold, Stored, TypeOK, Service
    <3>2. "validated" # NoService
      BY ServiceAssumption DEF ServiceAssumption, ChainStates
    <3> QED
      BY <1>1, <3>1, <3>2, MappedRow DEF Promised!RefersTo
  <2> QED
    BY <1>1, <2>1, MappedRow DEF Promised!References
<1> QED
  BY <1>1, <1>2, <1>3, <1>4, MappedRow DEF Promised!Init

LEMMA StepRefines ==
  ASSUME IInv, [Next]_vars
  PROVE  [Promised!Next]_<<[c \in Chains |-> "validated"], Table>>
<1>1. CASE <<services, audit>>' = <<services, audit>>
  BY <1>1 DEF Table, Stored
<1>2. CASE <<services, audit>>' # <<services, audit>>
  <2>1. PICK w \in Workers : Commit(w)
    BY <1>2, OnlyCommitChanges
  <2>2. PICK r : r = req[w]
    OBVIOUS
  <2>3. /\ r.service \in Codes /\ r.write \in Service /\ r.write # NoService /\ Known(r)
    BY <2>1, <2>2, CommitEffect
  <2>4. /\ services'[r.service] = r.write
        /\ \A c \in Codes \ {r.service} : services'[c] = services[c]
    BY <2>1, <2>2, CommitSeen
  <2> DEFINE new == [chain |-> r.write.chain, edges |-> r.write.edges,
                     state |-> r.write.state]
  <2>5. Table' = [Table EXCEPT ![r.service] = new]
    BY <2>3, <2>4 DEF Table, Stored
  <2>6. /\ r.write.chain \in Chains /\ r.service \notin r.write.edges
        /\ \A d \in r.write.edges : services[d] # NoService /\ d \in Codes
    BY <2>1, <2>2, <2>3, CommitKeepsReferences DEF Service
  <2>7. r.write.edges \in SUBSET Codes
    BY <2>3 DEF Service
  <2>8. Promised!RefersTo(r.service, r.write.chain, r.write.edges)
    <3>1. "validated" # NoService
      BY ServiceAssumption DEF ServiceAssumption, ChainStates
    <3> QED
      BY <2>6, <3>1, MappedRow DEF Promised!RefersTo, IInv, Stored
  <2>9. CASE r.op # "deactivate"
    <3>1. new = [chain |-> r.write.chain, edges |-> r.write.edges,
                 state |-> IF Table[r.service] = NoService THEN "active"
                           ELSE Table[r.service].state]
      <4>1. \/ ~ Stored(r.service) /\ r.write.state = "active"
            \/ Stored(r.service) /\ r.write.state = services[r.service].state
        BY <2>1, <2>2, <2>3, <2>9, CommittedRow DEF Known, Ops
      <4> QED
        BY <2>3, <4>1, MappedRow DEF IInv
    <3>2. Promised!StoreService(r.service, r.write.chain, r.write.edges)
      BY <2>5, <2>8, <3>1 DEF Promised!StoreService
    <3> QED
      BY <2>3, <2>6, <2>7, <3>2 DEF Promised!Next
  <2>10. CASE r.op = "deactivate"
    <3>1. /\ Stored(r.service) /\ services[r.service].state = "active"
          /\ r.write.chain = services[r.service].chain
          /\ r.write.edges = services[r.service].edges
          /\ r.write.state = "inactive"
      BY <2>1, <2>2, <2>10, CommittedRow
    <3>2. Table[r.service] = [chain |-> r.write.chain, edges |-> r.write.edges,
                              state |-> "active"]
      BY <2>3, <3>1 DEF Table
    <3>3. new = [Table[r.service] EXCEPT !.state = "inactive"]
      BY <3>1, <3>2
    <3>4. Promised!RetireService(r.service)
      BY <2>3, <2>5, <3>1, <3>2, <3>3, MappedRow DEF Promised!RetireService, IInv
    <3> QED
      BY <2>3, <3>4 DEF Promised!Next
  <2> QED
    BY <2>9, <2>10
<1> QED
  BY <1>1, <1>2

\* The services' handlers implement the inventory that freezing relies on.
THEOREM Refinement == Spec => ImplementsInventory
<1>1. Init => Promised!Init
  BY InitRefines
<1>2. IInv /\ [Next]_vars => [Promised!Next]_<<[c \in Chains |-> "validated"], Table>>
  BY StepRefines
<1> QED
  BY <1>1, <1>2, Inductive, PTL DEF Spec, ImplementsInventory, Promised!Spec
=============================================================================
