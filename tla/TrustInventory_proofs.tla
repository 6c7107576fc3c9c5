----------------------- MODULE TrustInventory_proofs -----------------------
(***************************************************************************)
(* Theorems about TrustInventory, for every number of workers, anchors and *)
(* chains, for any certificates, and for a clock and an audit log of any   *)
(* length.                                                                 *)
(***************************************************************************)
EXTENDS TrustInventory, TLAPS

(***************************************************************************)
(* The invariant.                                                          *)
(***************************************************************************)

\* The stored state of an anchor is behind the reported one, or the same.
AnchorLags(anchor) ==
    /\ anchor.state = "revoked" <=> anchor.revoked
    /\ ~ anchor.revoked => Age(anchor.state) <= Age(Reported(anchor))

AnchorsSound ==
    \A c \in AnchorCodes : anchors[c] # NoRow =>
        anchors[c].certificate.root /\ AnchorLags(anchors[c])

\* The stored window of a chain lies within that of its anchor.
ChainWithin(chain) ==
    LET anchor == anchors[chain.anchor]
    IN  /\ anchor # NoRow
        /\ anchor.certificate.from <= chain.from
        /\ chain.to <= anchor.certificate.to

ChainsSound == \A c \in ChainCodes : chains[c] # NoRow => ChainWithin(chains[c])

\* Two versions of one chain: only its state ever changes.
SameChain(one, other) ==
    /\ one.anchor = other.anchor /\ one.fingerprint = other.fingerprint
    /\ one.from = other.from /\ one.to = other.to

\* What a request that is about to be stored was found to be.
Known(r) ==
    /\ r.op \in Ops
    /\ r.op = "import_anchor" =>
          /\ r.code \in AnchorCodes /\ r.seen = NoRow /\ r.to = "none"
          /\ r.row \in Anchor /\ r.row.certificate.root /\ AnchorLags(r.row)
          /\ ~ r.row.revoked /\ ~ r.row.archived
    /\ r.op = "lifecycle" =>
          /\ r.code \in AnchorCodes /\ r.to \in Actions
          /\ anchors[r.code] # NoRow
          /\ r.seen \in Anchor /\ r.row \in Anchor
    /\ r.op = "import_chain" =>
          /\ r.code \in ChainCodes /\ r.seen = NoRow /\ r.to = "none"
          /\ r.row \in Chain /\ r.row.state = "validated" /\ ChainWithin(r.row)
    /\ r.op = "transition" =>
          /\ r.code \in ChainCodes /\ r.to \in Targets
          /\ chains[r.code] # NoRow
          /\ r.seen \in Chain /\ SameChain(r.seen, chains[r.code])
          /\ CanTransitionChain(r.seen.state, r.to)
          /\ r.row = [r.seen EXCEPT !.state = r.to]

RequestsSound == \A w \in Workers : req[w].stage = "checked" => Known(req[w])

HasLast(entries) == \E n \in entries : \A m \in entries : m <= n

Revocations(c) == EntriesOf({"lifecycle"}, c, {"revoke"})
Archivings(c) == EntriesOf({"lifecycle"}, c, {"archive", "restore"})
Moves(c) == EntriesOf({"import_chain", "transition"}, c, Targets \union {"none"})

\* The rows follow the log, which has a last entry wherever it has one and
\* says nothing of the life of anchors that are not there.
LogSound ==
    /\ InventoryFollowsAudit
    /\ \A c \in AnchorCodes :
          /\ Archivings(c) # {} => HasLast(Archivings(c))
          /\ anchors[c] = NoRow => Revocations(c) = {} /\ Archivings(c) = {}
    /\ \A c \in ChainCodes : Moves(c) # {} => HasLast(Moves(c))

IInv == TypeOK /\ AnchorsSound /\ ChainsSound /\ RequestsSound /\ LogSound

(***************************************************************************)
(* Certificates.                                                           *)
(***************************************************************************)

LEMMA CertificatesTyped ==
  /\ \A a \in Anchor : /\ a.certificate \in Certificates
                       /\ a.certificate.from \in Int /\ a.certificate.to \in Int
                       /\ a.certificate.root \in BOOLEAN
  /\ \A at, to : \A revoked \in BOOLEAN :
        CalculateCertificateState(at, to, revoked) \in CertificateStates
BY InventoryAssumption
   DEF InventoryAssumption, Anchor, Certificate, CalculateCertificateState, CertificateStates

\* Time takes the reported state forward only.
LEMMA StatesAge ==
  ASSUME NEW at \in Nat, NEW later \in Nat, at <= later, NEW to \in Int
  PROVE  /\ Age(CalculateCertificateState(at, to, FALSE)) \in 1 .. 3
         /\ Age(CalculateCertificateState(later, to, FALSE)) \in 1 .. 3
         /\ Age(CalculateCertificateState(at, to, FALSE))
                <= Age(CalculateCertificateState(later, to, FALSE))
<1>1. Expiring \in Nat
  BY InventoryAssumption DEF InventoryAssumption
<1>2. Age("valid") = 1 /\ Age("expiring") = 2 /\ Age("expired") = 3
  BY DEF Age
<1> DEFINE early == CalculateCertificateState(at, to, FALSE)
           late == CalculateCertificateState(later, to, FALSE)
<1>3. /\ at >= to => early = "expired"
      /\ ~ (at >= to) /\ at + Expiring >= to => early = "expiring"
      /\ ~ (at >= to) /\ ~ (at + Expiring >= to) => early = "valid"
      /\ later >= to => late = "expired"
      /\ ~ (later >= to) /\ later + Expiring >= to => late = "expiring"
      /\ ~ (later >= to) /\ ~ (later + Expiring >= to) => late = "valid"
  BY DEF CalculateCertificateState
<1> HIDE DEF early, late
<1>4. /\ at >= to => Age(early) = 3
      /\ ~ (at >= to) /\ at + Expiring >= to => Age(early) = 2
      /\ ~ (at >= to) /\ ~ (at + Expiring >= to) => Age(early) = 1
      /\ later >= to => Age(late) = 3
      /\ ~ (later >= to) /\ later + Expiring >= to => Age(late) = 2
      /\ ~ (later >= to) /\ ~ (later + Expiring >= to) => Age(late) = 1
  BY <1>2, <1>3
<1>5. Age(early) \in 1 .. 3 /\ Age(late) \in 1 .. 3 /\ Age(early) <= Age(late)
  BY <1>1, <1>4
<1> QED
  BY <1>5 DEF early, late

\* Behind once, behind always.
LEMMA LagsKept ==
  ASSUME now \in Nat, now' \in Nat, now <= now', NEW a \in Anchor, AnchorLags(a)
  PROVE  AnchorLags(a)'
<1>1. a.certificate.to \in Int /\ a.revoked \in BOOLEAN /\ a.state \in CertificateStates
  BY CertificatesTyped DEF Anchor
<1>2. CASE a.revoked
  BY <1>2 DEF AnchorLags
<1>3. CASE ~ a.revoked
  <2>1. /\ Reported(a) = CalculateCertificateState(now, a.certificate.to, FALSE)
        /\ Reported(a)' = CalculateCertificateState(now', a.certificate.to, FALSE)
    BY <1>1, <1>3 DEF Reported, CalculateCertificateState
  <2>2. /\ Age(Reported(a)) \in 1 .. 3 /\ Age(Reported(a)') \in 1 .. 3
        /\ Age(Reported(a)) <= Age(Reported(a)')
    <3>1. PICK to \in Int : to = a.certificate.to
      BY <1>1
    <3>2. /\ Age(CalculateCertificateState(now, to, FALSE)) \in 1 .. 3
          /\ Age(CalculateCertificateState(now', to, FALSE)) \in 1 .. 3
          /\ Age(CalculateCertificateState(now, to, FALSE))
                <= Age(CalculateCertificateState(now', to, FALSE))
      <4>1. PICK at \in Nat, later \in Nat : at = now /\ later = now' /\ at <= later
        OBVIOUS
      <4>2. /\ Age(CalculateCertificateState(at, to, FALSE)) \in 1 .. 3
            /\ Age(CalculateCertificateState(later, to, FALSE)) \in 1 .. 3
            /\ Age(CalculateCertificateState(at, to, FALSE))
                  <= Age(CalculateCertificateState(later, to, FALSE))
        BY <4>1, StatesAge
      <4> QED
        BY <4>1, <4>2
    <3> QED
      BY <2>1, <3>1, <3>2
  <2>3. a.state # "revoked" /\ Age(a.state) <= Age(Reported(a))
    BY <1>3 DEF AnchorLags
  <2>4. Age(a.state) \in 1 .. 3
    BY <1>1, <2>3 DEF Age, CertificateStates
  <2>5. Age(a.state) <= Age(Reported(a)')
    BY <2>2, <2>3, <2>4
  <2>6. Age(Reported(a))' = Age(Reported(a)')
    BY DEF Age
  <2> QED
    BY <1>3, <2>3, <2>5, <2>6 DEF AnchorLags, Age
<1> QED
  BY <1>2, <1>3

\* Reading rows at a fresh state gives an anchor that is not behind.
LEMMA FreshAnchor ==
  ASSUME TypeOK, NEW certificate \in Certificates
  PROVE  /\ NewAnchor(certificate) \in Anchor
         /\ AnchorLags(NewAnchor(certificate))
<1> DEFINE a == NewAnchor(certificate)
<1>1. a \in Anchor
  BY CertificatesTyped DEF NewAnchor, Anchor
<1>2. /\ a.state = CalculateCertificateState(now, certificate.to, FALSE)
      /\ a.revoked = FALSE /\ a.certificate = certificate
  BY DEF NewAnchor
<1>3. certificate.to \in Int /\ now \in Nat
  BY InventoryAssumption DEF InventoryAssumption, Certificate, TypeOK
<1>4. Age(CalculateCertificateState(now, certificate.to, FALSE)) \in 1 .. 3
  <2>1. PICK at \in Nat, to \in Int : at = now /\ to = certificate.to /\ at <= at
    BY <1>3
  <2>2. Age(CalculateCertificateState(at, to, FALSE)) \in 1 .. 3
    BY <2>1, StatesAge
  <2> QED
    BY <2>1, <2>2
<1>5. CalculateCertificateState(now, certificate.to, FALSE) # "revoked"
  BY DEF CalculateCertificateState
<1> HIDE DEF a
<1>6. AnchorLags(a)
  <2>1. Reported(a) = a.state
    BY <1>2 DEF Reported
  <2>2. Age(a.state) \in 1 .. 3
    BY <1>2, <1>4
  <2>3. Age(a.state) <= Age(Reported(a))
    BY <2>1, <2>2
  <2>4. a.state = "revoked" <=> a.revoked
    BY <1>2, <1>5
  <2> QED
    BY <2>3, <2>4 DEF AnchorLags
<1> QED
  BY <1>1, <1>6 DEF a

(***************************************************************************)
(* What every step keeps.                                                  *)
(***************************************************************************)

\* Time goes on, rows stay, with the columns that no request changes.
RowsKept ==
    /\ now \in Nat /\ now' \in Nat /\ now <= now'
    /\ \A c \in AnchorCodes : anchors[c] # NoRow =>
          anchors'[c] # NoRow /\ anchors'[c].certificate = anchors[c].certificate
    /\ \A c \in ChainCodes : chains[c] # NoRow =>
          chains'[c] # NoRow /\ SameChain(chains[c], chains'[c])

\* What a request was found to be stays so while rows are kept.
LEMMA KnownKept ==
  ASSUME RowsKept, NEW r, Known(r)
  PROVE  Known(r)'
<1>1. CASE r.op = "import_anchor"
  <2>1. r.row \in Anchor /\ AnchorLags(r.row)
    BY <1>1 DEF Known
  <2>2. PICK a \in Anchor : a = r.row
    BY <2>1
  <2>3. AnchorLags(a)'
    BY <2>1, <2>2, LagsKept DEF RowsKept
  <2>4. AnchorLags(r.row)'
    BY <2>2, <2>3 DEF AnchorLags, Reported
  <2> QED
    BY <1>1, <2>4 DEF Known
<1>2. CASE r.op = "lifecycle"
  BY <1>2 DEF Known, RowsKept
<1>3. CASE r.op = "import_chain"
  <2>1. r.row \in Chain /\ ChainWithin(r.row) /\ r.row.anchor \in AnchorCodes
    BY <1>3 DEF Known, Chain
  <2>2. ChainWithin(r.row)'
    BY <2>1 DEF ChainWithin, RowsKept
  <2> QED
    BY <1>3, <2>2 DEF Known
<1>4. CASE r.op = "transition"
  BY <1>4 DEF Known, RowsKept, SameChain
<1> QED
  BY <1>1, <1>2, <1>3, <1>4 DEF Known, Ops

\* Sound rows stay sound while they only age.
LEMMA AgeingSound ==
  ASSUME IInv, RowsKept, UNCHANGED <<anchors, chains, audit>>
  PROVE  AnchorsSound' /\ ChainsSound' /\ LogSound'
<1>1. AnchorsSound'
  <2>1. ASSUME NEW c \in AnchorCodes, anchors[c] # NoRow
        PROVE  anchors[c].certificate.root /\ AnchorLags(anchors[c])'
    <3>1. anchors[c] \in Anchor /\ anchors[c].certificate.root /\ AnchorLags(anchors[c])
      BY <2>1 DEF IInv, TypeOK, AnchorsSound
    <3>2. PICK a \in Anchor : a = anchors[c]
      BY <3>1
    <3>3. AnchorLags(a)'
      BY <3>1, <3>2, LagsKept DEF RowsKept
    <3> QED
      BY <3>1, <3>2, <3>3 DEF AnchorLags, Reported
  <2> QED
    BY <2>1 DEF AnchorsSound
<1>2. ChainsSound'
  BY DEF IInv, ChainsSound, ChainWithin
<1>3. LogSound'
  BY DEF IInv, LogSound, InventoryFollowsAudit, HasLast, Revocations, Archivings, Moves,
       EntriesOf, LastOf
<1> QED
  BY <1>1, <1>2, <1>3

\* The rows the seed leaves behind satisfy the invariant.
LEMMA InitSound == Init => IInv
<1> SUFFICES ASSUME Init PROVE IInv
  OBVIOUS
<1>1. /\ anchors \in [AnchorCodes -> Anchor \union {NoRow}]
      /\ chains \in [ChainCodes -> Chain \union {NoRow}]
      /\ MaxTime \in Nat
  BY InventoryAssumption DEF InventoryAssumption, Init
<1>2. Idle \in Request
  BY DEF Idle, Request, Answers
<1>3. TypeOK
  BY <1>1, <1>2 DEF Init, TypeOK
<1>4. /\ \A c \in AnchorCodes : anchors[c] # NoRow =>
            /\ anchors[c].certificate.root /\ ~ anchors[c].revoked /\ ~ anchors[c].archived
            /\ anchors[c].state = CalculateCertificateState(0, anchors[c].certificate.to, FALSE)
      /\ \A c \in ChainCodes : chains[c] # NoRow =>
            chains[c].state = "validated" /\ ChainWithin(chains[c])
  BY SeedAssumption DEF SeedAssumption, Init, ChainWithin
<1>5. AnchorsSound
  <2>1. ASSUME NEW c \in AnchorCodes, anchors[c] # NoRow PROVE AnchorLags(anchors[c])
    <3>1. anchors[c] \in Anchor /\ anchors[c].certificate \in Certificates
          /\ anchors[c].revoked \in BOOLEAN
      BY <1>1, <2>1 DEF Anchor
    <3>2. PICK certificate \in Certificates : certificate = anchors[c].certificate
      BY <3>1
    <3>3. /\ NewAnchor(certificate).state = anchors[c].state
          /\ NewAnchor(certificate).revoked = anchors[c].revoked
          /\ NewAnchor(certificate).certificate = anchors[c].certificate
      BY <1>4, <2>1, <3>1, <3>2 DEF NewAnchor, Init
    <3>4. AnchorLags(NewAnchor(certificate))
      BY <1>3, FreshAnchor
    <3> HIDE DEF NewAnchor
    <3> QED
      BY <3>3, <3>4 DEF AnchorLags, Reported
  <2> QED
    BY <1>4, <2>1 DEF AnchorsSound
<1>6. ChainsSound
  BY <1>4 DEF ChainsSound
<1>7. RequestsSound
  BY DEF Init, RequestsSound, Idle
<1>8. LogSound
  <2>1. \A ops, code, actions : EntriesOf(ops, code, actions) = {}
    BY DEF EntriesOf, Init
  <2> QED
    BY <1>4, <2>1 DEF LogSound, InventoryFollowsAudit, Revocations, Archivings, Moves
<1> QED
  BY <1>3, <1>5, <1>6, <1>7, <1>8 DEF IInv

\* A step that replaces one worker's request and nothing else preserves the
\* invariant if the new request is sound by itself.
LEMMA LocalStep ==
  ASSUME IInv, NEW w \in Workers, NEW r \in Request,
         req' = [req EXCEPT ![w] = r], UNCHANGED <<now, anchors, chains, audit>>,
         r.stage = "checked" => Known(r)
  PROVE  IInv'
<1>1. RowsKept
  BY InventoryAssumption DEF InventoryAssumption, IInv, TypeOK, RowsKept, SameChain
<1>2. TypeOK'
  BY DEF IInv, TypeOK
<1>3. RequestsSound'
  <2>1. ASSUME NEW v \in Workers, req'[v].stage = "checked" PROVE Known(req[v])'
    <3>1. PICK s : s = req'[v]
      OBVIOUS
    <3>2. Known(s)
      BY <2>1, <3>1 DEF IInv, TypeOK, RequestsSound
    <3>3. Known(s)'
      BY <1>1, <3>2, KnownKept
    <3> QED
      BY <3>1, <3>3 DEF Known, AnchorLags, Reported, ChainWithin, SameChain
  <2> QED
    BY <2>1 DEF RequestsSound
<1> QED
  BY <1>1, <1>2, <1>3, AgeingSound DEF IInv

LEMMA AnswerStep ==
  ASSUME IInv, NEW w \in Workers, NEW code \in Answers, Answer(w, code),
         UNCHANGED <<now, anchors, chains, audit>>
  PROVE  IInv'
<1> DEFINE r == [Idle EXCEPT !.stage = "answered", !.answer = code]
<1>1. r \in Request /\ r.stage = "answered"
  BY DEF Idle, Request
<1>2. req' = [req EXCEPT ![w] = r]
  BY DEF Answer
<1> HIDE DEF r
<1> QED
  BY <1>1, <1>2, LocalStep

\* A request that was not refused starts with what its checks established.
LEMMA ArriveStep ==
  ASSUME IInv, NEW w \in Workers, NEW r, NEW refusal \in Answers,
         Arrive(w, r, refusal),
         refusal = "none" => r \in Request /\ (r.stage = "checked" => Known(r))
  PROVE  IInv'
<1>1. CASE refusal = "none"
  BY <1>1, LocalStep DEF Arrive
<1>2. CASE refusal # "none"
  BY <1>2, AnswerStep DEF Arrive
<1> QED
  BY <1>1, <1>2

LEMMA BeginImportAnchorSound ==
  ASSUME IInv, NEW w \in Workers, NEW role \in Roles, NEW code \in AnchorCodes,
         NEW certificate \in Certificates, BeginImportAnchor(w, role, code, certificate)
  PROVE  IInv'
<1> DEFINE r == [Idle EXCEPT !.stage = "checked", !.op = "import_anchor", !.code = code,
                             !.row = NewAnchor(certificate)]
           refusal == IF ~ HasPermission(role, "anchor.write")  THEN "forbidden"
                      ELSE IF ~ AnchorValid(certificate, now)   THEN "invalid"
                      ELSE "none"
<1>1. Arrive(w, r, refusal)
  BY DEF BeginImportAnchor
<1>2. NewAnchor(certificate) \in Anchor /\ AnchorLags(NewAnchor(certificate))
  BY FreshAnchor DEF IInv
<1>3. ~ NewAnchor(certificate).revoked /\ ~ NewAnchor(certificate).archived
      /\ NewAnchor(certificate).certificate = certificate
  BY DEF NewAnchor
<1>4. PICK row \in Anchor : row = NewAnchor(certificate)
  BY <1>2
<1>5. r = [Idle EXCEPT !.stage = "checked", !.op = "import_anchor", !.code = code, !.row = row]
  BY <1>4
<1> HIDE DEF r
<1>6. r \in Request /\ refusal \in Answers
  BY <1>5 DEF Idle, Request, Ops, Answers
<1>7. /\ r.op = "import_anchor" /\ r.code = code /\ r.seen = NoRow /\ r.to = "none"
      /\ r.row = row
  BY <1>5 DEF Idle
<1>8. refusal = "none" => certificate.root
  BY DEF AnchorValid
<1> HIDE DEF refusal
<1>9. AnchorLags(row) /\ ~ row.revoked /\ ~ row.archived /\ row.certificate = certificate
  BY <1>2, <1>3, <1>4
<1>10. refusal = "none" => Known(r)
  BY <1>7, <1>8, <1>9 DEF Known, Ops
<1> QED
  BY <1>1, <1>6, <1>10, ArriveStep

LEMMA BeginLifecycleSound ==
  ASSUME IInv, NEW w \in Workers, NEW role \in Roles, NEW code \in AnchorCodes,
         NEW action \in Actions, BeginLifecycle(w, role, code, action)
  PROVE  IInv'
<1>1. PICK seen \in Anchor, row \in {Edited(anchors[code], action)} :
        seen = anchors[code] /\ row = Edited(anchors[code], action)
  BY DEF BeginLifecycle, IInv, TypeOK
<1>2. row \in Anchor
  BY <1>1 DEF Edited, Anchor, Actions, CertificateStates
<1> DEFINE r == [Idle EXCEPT !.stage = "checked", !.op = "lifecycle", !.code = code,
                             !.to = action, !.seen = seen, !.row = row]
           refusal == IF ~ HasPermission(role, "anchor.write") THEN "forbidden"
                      ELSE IF action # "archive" /\ anchors[code].revoked THEN "conflict"
                      ELSE "none"
<1>3. Arrive(w, r, refusal) /\ anchors[code] # NoRow
  BY <1>1 DEF BeginLifecycle
<1>4. r \in Request /\ refusal \in Answers
  BY <1>2 DEF Idle, Request, Ops, Answers
<1>5. /\ r.op = "lifecycle" /\ r.code = code /\ r.seen = seen /\ r.to = action
      /\ r.row = row
  BY DEF Idle
<1> HIDE DEF r, refusal
<1>6. Known(r)
  BY <1>2, <1>3, <1>5 DEF Known, Ops
<1> QED
  BY <1>3, <1>4, <1>6, ArriveStep

LEMMA BeginImportChainSound ==
  ASSUME IInv, NEW w \in Workers, NEW role \in Roles, NEW code \in ChainCodes,
         NEW anchor \in AnchorCodes, NEW bundle \in Bundles,
         BeginImportChain(w, role, code, anchor, bundle)
  PROVE  IInv'
<1>1. PICK row : row = NewChain(anchor, bundle)
  OBVIOUS
<1>2. anchors[anchor] \in Anchor /\ anchors[anchor] # NoRow
  BY DEF BeginImportChain, IInv, TypeOK
<1>3. /\ anchors[anchor].certificate.from \in Int /\ anchors[anchor].certificate.to \in Int
      /\ bundle.from \in Int /\ bundle.to \in Int /\ bundle.fingerprint \in Fingerprints
  BY <1>2, CertificatesTyped, InventoryAssumption DEF InventoryAssumption, Bundle
<1>4. /\ row \in Chain /\ row.state = "validated" /\ row.anchor = anchor
      /\ anchors[anchor].certificate.from <= row.from
      /\ row.to <= anchors[anchor].certificate.to
  <2>1. PICK from \in Int, to \in Int :
            /\ from = anchors[anchor].certificate.from
            /\ to = anchors[anchor].certificate.to
    BY <1>3
  <2>2. row = [anchor |-> anchor, fingerprint |-> bundle.fingerprint,
               from |-> IF bundle.from > from THEN bundle.from ELSE from,
               to |-> IF bundle.to < to THEN bundle.to ELSE to, state |-> "validated"]
    BY <1>1, <2>1 DEF NewChain, Window
  <2>3. row.from \in Int /\ row.to \in Int /\ from <= row.from /\ row.to <= to
    BY <1>3, <2>2
  <2>4. row \in Chain
    BY <1>3, <2>2, <2>3 DEF Chain, ChainStates
  <2> QED
    BY <2>1, <2>2, <2>3, <2>4
<1> DEFINE r == [Idle EXCEPT !.stage = "checked", !.op = "import_chain", !.code = code,
                             !.row = row]
           refusal == IF ~ HasPermission(role, "chain.write")              THEN "forbidden"
                      ELSE IF ~ ChainValid(anchors[anchor], bundle, now)   THEN "invalid"
                      ELSE "none"
<1>5. Arrive(w, r, refusal)
  BY <1>1 DEF BeginImportChain
<1>6. r \in Request /\ refusal \in Answers
  BY <1>4 DEF Idle, Request, Ops, Answers
<1>7. /\ r.op = "import_chain" /\ r.code = code /\ r.seen = NoRow /\ r.to = "none"
      /\ r.row = row
  BY DEF Idle
<1> HIDE DEF r, refusal
<1>8. Known(r)
  BY <1>2, <1>4, <1>7 DEF Known, Ops, ChainWithin
<1> QED
  BY <1>5, <1>6, <1>8, ArriveStep

LEMMA BeginTransitionSound ==
  ASSUME IInv, NEW w \in Workers, NEW role \in Roles, NEW code \in ChainCodes,
         NEW to \in Targets, BeginTransition(w, role, code, to)
  PROVE  IInv'
<1>1. PICK seen \in Chain : seen = chains[code]
  BY DEF BeginTransition, IInv, TypeOK
<1>2. PICK row : row = [seen EXCEPT !.state = to]
  OBVIOUS
<1>3. row \in Chain
  BY <1>2 DEF Chain, Targets, ChainStates
<1> DEFINE r == [Idle EXCEPT !.stage = "checked", !.op = "transition", !.code = code,
                             !.to = to, !.seen = seen, !.row = row]
           refusal == IF ~ HasPermission(role, "chain.write")      THEN "forbidden"
                      ELSE IF ~ CanTransitionChain(seen.state, to) THEN "illegal_state"
                      ELSE "none"
<1>4. Arrive(w, r, refusal) /\ chains[code] # NoRow
  BY <1>1, <1>2 DEF BeginTransition
<1>5. r \in Request /\ refusal \in Answers
  BY <1>3 DEF Idle, Request, Ops, Answers
<1>6. /\ r.op = "transition" /\ r.code = code /\ r.seen = seen /\ r.to = to
      /\ r.row = row
  BY DEF Idle
<1>7. refusal = "none" => CanTransitionChain(seen.state, to)
  OBVIOUS
<1> HIDE DEF r, refusal
<1>8. refusal = "none" => Known(r)
  BY <1>1, <1>2, <1>4, <1>6, <1>7 DEF Known, Ops, SameChain
<1> QED
  BY <1>4, <1>5, <1>8, ArriveStep

(***************************************************************************)
(* The log.                                                                *)
(***************************************************************************)

\* What one more entry does to the entries about one row.
LEMMA LogGrows ==
  ASSUME audit \in Seq(Entry), NEW e \in Entry, audit' = Append(audit, e),
         NEW ops, NEW code, NEW actions
  PROVE  IF e.op \in ops /\ e.code = code /\ e.action \in actions
         THEN /\ EntriesOf(ops, code, actions)' # {}
              /\ HasLast(EntriesOf(ops, code, actions)')
              /\ LastOf(EntriesOf(ops, code, actions))' = e
         ELSE /\ EntriesOf(ops, code, actions)' = EntriesOf(ops, code, actions)
              /\ HasLast(EntriesOf(ops, code, actions)) =>
                    LastOf(EntriesOf(ops, code, actions))' = LastOf(EntriesOf(ops, code, actions))
<1> DEFINE old == EntriesOf(ops, code, actions)
           n == Len(audit) + 1
<1>1. /\ DOMAIN audit' = DOMAIN audit \union {n} /\ audit'[n] = e
      /\ \A m \in DOMAIN audit : audit'[m] = audit[m] /\ m \in Nat /\ m <= n /\ m # n
      /\ n \in Nat
  OBVIOUS
<1> HIDE DEF n
<1>2. old \subseteq DOMAIN audit
  BY DEF EntriesOf
<1>3. CASE e.op \in ops /\ e.code = code /\ e.action \in actions
  <2>1. EntriesOf(ops, code, actions)' = old \union {n}
    BY <1>1, <1>3 DEF EntriesOf
  <2> DEFINE new == old \union {n}
  <2>2. n \in new /\ \A m \in new : m <= n /\ m \in Nat
    BY <1>1, <1>2
  <2>3. (CHOOSE k \in new : \A m \in new : m <= k) = n
    <3> HIDE DEF new
    <3>1. ASSUME NEW k \in new, \A m \in new : m <= k PROVE k = n
      <4>1. k <= n /\ n <= k /\ k \in Nat /\ n \in Nat
        BY <1>1, <2>2, <3>1
      <4> QED
        BY <4>1
    <3> QED
      BY <2>2, <3>1
  <2>4. LastOf(EntriesOf(ops, code, actions))' = audit'[n]
    BY <2>1, <2>3 DEF LastOf
  <2> QED
    BY <1>1, <1>3, <2>1, <2>2, <2>4 DEF HasLast
<1>4. CASE ~ (e.op \in ops /\ e.code = code /\ e.action \in actions)
  <2>1. EntriesOf(ops, code, actions)' = old
    BY <1>1, <1>4 DEF EntriesOf
  <2>2. ASSUME HasLast(old)
        PROVE  LastOf(EntriesOf(ops, code, actions))' = LastOf(old)
    <3>1. PICK k : k = CHOOSE j \in old : \A m \in old : m <= j
      OBVIOUS
    <3> HIDE DEF old
    <3>2. k \in old
      BY <2>2, <3>1 DEF HasLast
    <3>3. audit'[k] = audit[k]
      BY <1>1, <1>2, <3>2
    <3> QED
      BY <2>1, <3>1, <3>3 DEF LastOf
  <2> QED
    BY <1>4, <2>1, <2>2
<1> QED
  BY <1>3, <1>4

(***************************************************************************)
(* The transaction.                                                        *)
(***************************************************************************)

AuditEntry(r) == [op |-> r.op, code |-> r.code, action |-> r.to,
                  before |-> r.seen, after |-> r.row]

\* A commit keeps the invariant if the rows and the log agree after it.
LEMMA WriteStep ==
  ASSUME IInv, NEW w \in Workers, UNCHANGED now, Record(w), RowsKept,
         anchors' \in [AnchorCodes -> Anchor \union {NoRow}],
         chains' \in [ChainCodes -> Chain \union {NoRow}],
         AuditEntry(req[w]) \in Entry,
         AnchorsSound', ChainsSound', LogSound'
  PROVE  IInv'
<1> DEFINE r == [Idle EXCEPT !.stage = "committed"]
<1>1. r \in Request /\ r.stage = "committed"
  BY DEF Idle, Request, Answers
<1>2. req' = [req EXCEPT ![w] = r] /\ audit' = Append(audit, AuditEntry(req[w]))
  BY DEF Record, AuditEntry
<1> HIDE DEF r
<1>3. TypeOK'
  <2>1. PICK e \in Entry : audit' = Append(audit, e)
    BY <1>2
  <2>2. audit' \in Seq(Entry)
    BY <2>1 DEF IInv, TypeOK
  <2> QED
    BY <1>1, <1>2, <2>2 DEF IInv, TypeOK
<1>4. RequestsSound'
  <2>1. ASSUME NEW v \in Workers, req'[v].stage = "checked" PROVE Known(req[v])'
    <3>1. PICK s : s = req'[v]
      OBVIOUS
    <3>2. Known(s)
      BY <1>1, <1>2, <2>1, <3>1 DEF IInv, TypeOK, RequestsSound
    <3>3. Known(s)'
      BY <3>2, KnownKept
    <3> QED
      BY <3>1, <3>3 DEF Known, AnchorLags, Reported, ChainWithin, SameChain
  <2> QED
    BY <2>1 DEF RequestsSound
<1> QED
  BY <1>3, <1>4 DEF IInv

\* What the log says of one anchor and of one chain.
AnchorFollows(c) ==
    IF anchors[c] = NoRow
    THEN Revocations(c) = {} /\ Archivings(c) = {}
    ELSE /\ anchors[c].revoked <=> Revocations(c) # {}
         /\ anchors[c].archived <=>
               Archivings(c) # {} /\ LastOf(Archivings(c)).action = "archive"
         /\ Archivings(c) # {} => HasLast(Archivings(c))

ChainFollows(c) ==
    /\ Moves(c) # {} => HasLast(Moves(c))
    /\ chains[c] # NoRow =>
          chains[c].state = IF Moves(c) = {} THEN "validated" ELSE LastOf(Moves(c)).after.state

LEMMA LogPerRow ==
  LogSound <=> /\ \A c \in AnchorCodes : AnchorFollows(c)
               /\ \A c \in ChainCodes : ChainFollows(c)
BY DEF LogSound, InventoryFollowsAudit, AnchorFollows, ChainFollows, Revocations,
   Archivings, Moves, HasLast

LEMMA LogPerRowAfter ==
  ASSUME \A c \in AnchorCodes : AnchorFollows(c)', \A c \in ChainCodes : ChainFollows(c)'
  PROVE  LogSound'
BY DEF LogSound, InventoryFollowsAudit, AnchorFollows, ChainFollows, Revocations,
   Archivings, Moves, HasLast

\* An entry about something else leaves what the log says alone.
LEMMA OtherAnchor ==
  ASSUME audit \in Seq(Entry), NEW e \in Entry, audit' = Append(audit, e),
         NEW c \in AnchorCodes, anchors'[c] = anchors[c], AnchorFollows(c),
         e.op # "lifecycle" \/ e.code # c
  PROVE  AnchorFollows(c)'
<1>1. Revocations(c)' = Revocations(c)
  BY LogGrows DEF Revocations
<1>2. /\ Archivings(c)' = Archivings(c)
      /\ HasLast(Archivings(c)) => LastOf(Archivings(c))' = LastOf(Archivings(c))
  BY LogGrows DEF Archivings
<1> QED
  BY <1>1, <1>2 DEF AnchorFollows, HasLast

LEMMA OtherChain ==
  ASSUME audit \in Seq(Entry), NEW e \in Entry, audit' = Append(audit, e),
         NEW c \in ChainCodes, chains'[c] = chains[c], ChainFollows(c),
         e.op \notin {"import_chain", "transition"} \/ e.code # c
  PROVE  ChainFollows(c)'
<1>1. /\ Moves(c)' = Moves(c)
      /\ HasLast(Moves(c)) => LastOf(Moves(c))' = LastOf(Moves(c))
  BY LogGrows DEF Moves
<1> QED
  BY <1>1 DEF ChainFollows, HasLast

\* What any commit starts from.
LEMMA Committing ==
  ASSUME IInv, NEW w \in Workers, req[w].stage = "checked", NEW r, r = req[w]
  PROVE  /\ Known(r) /\ r.op \in Ops /\ AuditEntry(r) \in Entry
         /\ audit \in Seq(Entry) /\ now \in Nat
         /\ AuditEntry(r).op = r.op /\ AuditEntry(r).code = r.code
         /\ AuditEntry(r).action = r.to /\ AuditEntry(r).before = r.seen
         /\ AuditEntry(r).after = r.row
         /\ r.op \in {"import_chain", "transition"} => r.row \in Chain
<1>1. Known(r) /\ r \in Request
  BY DEF IInv, RequestsSound, TypeOK
<1>2. r.op = "transition" => r.row \in Chain
  BY <1>1 DEF Known, Chain, Targets, ChainStates
<1>3. r.row \in Anchor \union Chain /\ r.code \in AnchorCodes \union ChainCodes
  BY <1>1, <1>2 DEF Known, Ops
<1>4. AuditEntry(r) \in Entry
  BY <1>1, <1>3 DEF AuditEntry, Entry, Known, Request, Ops
<1> QED
  BY <1>1, <1>2, <1>4 DEF AuditEntry, IInv, TypeOK, Known

\* The anchor rows after a step that keeps them, at the same time of the clock.
LEMMA AnchorsStay ==
  ASSUME IInv, UNCHANGED now, NEW c \in AnchorCodes, anchors[c] # NoRow,
         anchors'[c] = anchors[c]
  PROVE  (anchors[c].certificate.root /\ AnchorLags(anchors[c]))'
BY DEF IInv, AnchorsSound, AnchorLags, Reported

LEMMA ChainsStay ==
  ASSUME IInv, RowsKept, NEW c \in ChainCodes, chains[c] # NoRow,
         SameChain(chains[c], chains'[c])
  PROVE  ChainWithin(chains[c])'
<1>1. ChainWithin(chains[c]) /\ chains[c] \in Chain
  BY DEF IInv, ChainsSound, TypeOK
<1>2. chains[c].anchor \in AnchorCodes
  BY <1>1 DEF Chain
<1> QED
  BY <1>1, <1>2 DEF ChainWithin, RowsKept, SameChain

LEMMA InsertAnchorSound ==
  ASSUME IInv, NEW w \in Workers, req[w].stage = "checked", UNCHANGED now, InsertAnchor(w)
  PROVE  IInv'
<1>1. PICK r : r = req[w]
  OBVIOUS
<1>2. CASE RollBack(w, "conflict")
  BY <1>2, AnswerStep DEF RollBack, Answers
<1>3. CASE /\ anchors[r.code] = NoRow
           /\ anchors' = [anchors EXCEPT ![r.code] = r.row]
           /\ UNCHANGED chains
           /\ Record(w)
  <2>1. /\ r.op = "import_anchor" /\ Known(r) /\ AuditEntry(r) \in Entry
        /\ audit \in Seq(Entry) /\ now \in Nat
        /\ AuditEntry(r).op = r.op /\ AuditEntry(r).code = r.code
    BY <1>1, Committing DEF InsertAnchor
  <2>2. r.code \in AnchorCodes /\ r.row \in Anchor /\ r.row # NoRow
    BY <2>1, InventoryAssumption DEF Known, InventoryAssumption
  <2>3. /\ anchors'[r.code] = r.row
        /\ \A c \in AnchorCodes \ {r.code} : anchors'[c] = anchors[c]
        /\ anchors' \in [AnchorCodes -> Anchor \union {NoRow}]
        /\ chains' \in [ChainCodes -> Chain \union {NoRow}]
    BY <1>3, <2>2 DEF IInv, TypeOK
  <2>4. RowsKept
    BY <1>3, <2>1, <2>3 DEF RowsKept, SameChain
  <2>5. AnchorsSound'
    <3>1. r.row.certificate.root /\ AnchorLags(r.row)
      BY <2>1 DEF Known
    <3>2. (anchors[r.code].certificate.root /\ AnchorLags(anchors[r.code]))'
      BY <2>3, <3>1 DEF AnchorLags, Reported
    <3> QED
      BY <2>3, <3>2, AnchorsStay DEF AnchorsSound
  <2>6. ChainsSound'
    BY <1>3, <2>4, ChainsStay DEF ChainsSound, SameChain
  <2>7. PICK e \in Entry : e = AuditEntry(r)
    BY <2>1
  <2>8. audit' = Append(audit, e) /\ e.op = "import_anchor"
    BY <1>1, <1>3, <2>1, <2>7 DEF Record, AuditEntry
  <2>9. LogSound
    BY DEF IInv
  <2>10. AnchorFollows(r.code)'
    <3>1. Revocations(r.code) = {} /\ Archivings(r.code) = {}
      BY <1>3, <2>2, <2>9 DEF LogSound
    <3>2. Revocations(r.code)' = Revocations(r.code)
      BY <2>1, <2>8, LogGrows DEF Revocations
    <3>3. Archivings(r.code)' = Archivings(r.code)
      BY <2>1, <2>8, LogGrows DEF Archivings
    <3>4. ~ r.row.revoked /\ ~ r.row.archived
      BY <2>1 DEF Known
    <3> QED
      BY <2>2, <2>3, <3>1, <3>2, <3>3, <3>4 DEF AnchorFollows
  <2>11. \A c \in AnchorCodes : AnchorFollows(c)'
    BY <2>1, <2>3, <2>8, <2>9, <2>10, LogPerRow, OtherAnchor
  <2>12. \A c \in ChainCodes : ChainFollows(c)'
    BY <1>3, <2>1, <2>8, <2>9, LogPerRow, OtherChain
  <2>13. LogSound'
    BY <2>11, <2>12, LogPerRowAfter
  <2> QED
    BY <1>1, <1>3, <2>1, <2>3, <2>4, <2>5, <2>6, <2>13, WriteStep
<1> QED
  BY <1>1, <1>2, <1>3 DEF InsertAnchor

LEMMA SetLifecycleSound ==
  ASSUME IInv, NEW w \in Workers, req[w].stage = "checked", UNCHANGED now, SetLifecycle(w)
  PROVE  IInv'
<1>1. PICK r : r = req[w]
  OBVIOUS
<1>2. PICK old, new : old = anchors[r.code] /\ new = Edited(anchors[r.code], r.to)
  OBVIOUS
<1>3. /\ r.op = "lifecycle" /\ Record(w) /\ UNCHANGED chains
      /\ anchors' = [anchors EXCEPT ![r.code] = new]
  BY <1>1, <1>2 DEF SetLifecycle
<1>4. /\ Known(r) /\ AuditEntry(r) \in Entry /\ audit \in Seq(Entry) /\ now \in Nat
  BY <1>1, Committing
<1>5. r.code \in AnchorCodes /\ r.to \in Actions /\ old \in Anchor /\ old # NoRow
  BY <1>2, <1>3, <1>4 DEF Known, IInv, TypeOK
<1>6. /\ new \in Anchor /\ new # NoRow /\ new.certificate = old.certificate
      /\ r.to = "revoke" => new.revoked = TRUE /\ new.state = "revoked"
                            /\ new.archived = old.archived
      /\ r.to = "archive" => new.revoked = old.revoked /\ new.state = old.state
                             /\ new.archived = TRUE
      /\ r.to = "restore" => new.revoked = old.revoked /\ new.state = old.state
                             /\ new.archived = FALSE
  <2>1. /\ r.to = "revoke"  => new = [old EXCEPT !.revoked = TRUE, !.state = "revoked"]
        /\ r.to = "archive" => new = [old EXCEPT !.archived = TRUE]
        /\ r.to = "restore" => new = [old EXCEPT !.archived = FALSE]
    BY <1>2 DEF Edited
  <2>2. new \in Anchor /\ new.certificate = old.certificate
    BY <1>5, <2>1 DEF Anchor, Actions, CertificateStates
  <2> QED
    BY <1>5, <2>1, <2>2, InventoryAssumption DEF InventoryAssumption, Anchor
<1>7. /\ anchors'[r.code] = new
      /\ \A c \in AnchorCodes \ {r.code} : anchors'[c] = anchors[c]
      /\ anchors' \in [AnchorCodes -> Anchor \union {NoRow}]
      /\ chains' \in [ChainCodes -> Chain \union {NoRow}]
  BY <1>3, <1>5, <1>6 DEF IInv, TypeOK
<1>8. RowsKept
  BY <1>2, <1>3, <1>4, <1>6, <1>7 DEF RowsKept, SameChain
<1>9. AnchorsSound'
  <2>1. old.certificate.root /\ AnchorLags(old)
    BY <1>2, <1>5 DEF IInv, AnchorsSound
  <2>2. AnchorLags(new)
    <3>1. CASE r.to = "revoke"
      BY <1>6, <3>1 DEF AnchorLags
    <3>2. CASE r.to # "revoke"
      <4>1. new.revoked = old.revoked /\ new.state = old.state
        BY <1>5, <1>6, <3>2 DEF Actions
      <4> QED
        BY <1>6, <2>1, <4>1 DEF AnchorLags, Reported
    <3> QED
      BY <3>1, <3>2
  <2>3. (anchors[r.code].certificate.root /\ AnchorLags(anchors[r.code]))'
    BY <1>6, <1>7, <2>1, <2>2 DEF AnchorLags, Reported
  <2> QED
    BY <1>7, <2>3, AnchorsStay DEF AnchorsSound
<1>10. ChainsSound'
  BY <1>3, <1>8, ChainsStay DEF ChainsSound, SameChain
<1>11. PICK e \in Entry : e = AuditEntry(r)
  BY <1>4
<1>12. /\ audit' = Append(audit, e)
       /\ e.op = "lifecycle" /\ e.code = r.code /\ e.action = r.to
  BY <1>1, <1>3, <1>11 DEF Record, AuditEntry
<1>13. AnchorFollows(r.code)
  BY <1>5, LogPerRow DEF IInv
<1>14. AnchorFollows(r.code)'
  <2>1. /\ old.revoked <=> Revocations(r.code) # {}
        /\ old.archived <=>
              Archivings(r.code) # {} /\ LastOf(Archivings(r.code)).action = "archive"
        /\ Archivings(r.code) # {} => HasLast(Archivings(r.code))
    BY <1>2, <1>5, <1>13 DEF AnchorFollows
  <2>2. CASE r.to = "revoke"
    <3>1. Revocations(r.code)' # {}
      BY <1>4, <1>12, <2>2, LogGrows DEF Revocations
    <3>2. /\ Archivings(r.code)' = Archivings(r.code)
          /\ HasLast(Archivings(r.code)) =>
                LastOf(Archivings(r.code))' = LastOf(Archivings(r.code))
      BY <1>4, <1>12, <2>2, LogGrows DEF Archivings
    <3> QED
      BY <1>6, <1>7, <2>1, <2>2, <3>1, <3>2 DEF AnchorFollows, HasLast
  <2>3. CASE r.to \in {"archive", "restore"}
    <3>1. Revocations(r.code)' = Revocations(r.code)
      BY <1>4, <1>12, <2>3, LogGrows DEF Revocations
    <3>2. /\ Archivings(r.code)' # {} /\ HasLast(Archivings(r.code)')
          /\ LastOf(Archivings(r.code))' = e
      BY <1>4, <1>12, <2>3, LogGrows DEF Archivings
    <3>3. new.revoked = old.revoked /\ (new.archived <=> r.to = "archive")
      BY <1>6, <2>3
    <3> QED
      BY <1>6, <1>7, <1>12, <2>1, <3>1, <3>2, <3>3 DEF AnchorFollows, HasLast
  <2> QED
    BY <1>5, <2>2, <2>3 DEF Actions
<1>15. \A c \in AnchorCodes : AnchorFollows(c)'
  BY <1>4, <1>7, <1>12, <1>14, LogPerRow, OtherAnchor DEF IInv
<1>16. \A c \in ChainCodes : ChainFollows(c)'
  BY <1>3, <1>4, <1>12, LogPerRow, OtherChain DEF IInv
<1>17. LogSound'
  BY <1>15, <1>16, LogPerRowAfter
<1> QED
  BY <1>1, <1>3, <1>4, <1>7, <1>8, <1>9, <1>10, <1>17, WriteStep

\* A row that a chain's request stores, new or moved, keeps the invariant.
LEMMA ChainStored ==
  ASSUME IInv, NEW w \in Workers, req[w].stage = "checked", UNCHANGED now, UNCHANGED anchors,
         NEW r, r = req[w], r.op \in {"import_chain", "transition"},
         NEW row \in Chain, row.state = r.row.state,
         r.op = "import_chain" => r.to = "none",
         r.op = "transition" => r.to \in Targets,
         r.code \in ChainCodes, chains' = [chains EXCEPT ![r.code] = row],
         chains[r.code] # NoRow => SameChain(chains[r.code], row),
         chains[r.code] = NoRow => ChainWithin(row),
         Record(w)
  PROVE  IInv'
<1>1. /\ AuditEntry(r) \in Entry /\ audit \in Seq(Entry) /\ now \in Nat
      /\ AuditEntry(r).op = r.op /\ AuditEntry(r).code = r.code
      /\ AuditEntry(r).action = r.to /\ AuditEntry(r).after = r.row
  BY Committing
<1>2. row # NoRow
  BY InventoryAssumption DEF InventoryAssumption
<1>3. /\ chains'[r.code] = row
      /\ \A c \in ChainCodes \ {r.code} : chains'[c] = chains[c]
      /\ chains' \in [ChainCodes -> Chain \union {NoRow}]
      /\ anchors' \in [AnchorCodes -> Anchor \union {NoRow}]
  BY DEF IInv, TypeOK
<1>4. RowsKept
  BY <1>1, <1>2, <1>3 DEF RowsKept, SameChain
<1>5. AnchorsSound'
  BY <1>4, AnchorsStay DEF AnchorsSound
<1>6. ChainsSound'
  <2>1. ASSUME NEW c \in ChainCodes, chains'[c] # NoRow PROVE ChainWithin(chains[c])'
    <3>1. CASE chains[c] # NoRow
      BY <1>4, <3>1, ChainsStay DEF RowsKept
    <3>2. CASE chains[c] = NoRow
      BY <1>3, <2>1, <3>2 DEF ChainWithin
    <3> QED
      BY <3>1, <3>2
  <2> QED
    BY <2>1 DEF ChainsSound
<1>7. PICK e \in Entry : e = AuditEntry(r)
  BY <1>1
<1>8. /\ audit' = Append(audit, e) /\ e.op = r.op /\ e.code = r.code /\ e.action = r.to
      /\ e.after = r.row
  BY <1>1, <1>7 DEF Record, AuditEntry
<1>9. ChainFollows(r.code)'
  <2>1. r.op \in {"import_chain", "transition"} /\ r.to \in Targets \union {"none"}
    OBVIOUS
  <2>2. /\ Moves(r.code)' # {} /\ HasLast(Moves(r.code)')
        /\ LastOf(Moves(r.code))' = e
    BY <1>1, <1>8, <2>1, LogGrows DEF Moves
  <2> QED
    BY <1>3, <1>8, <2>2 DEF ChainFollows, HasLast
<1>10. \A c \in ChainCodes : ChainFollows(c)'
  BY <1>1, <1>3, <1>8, <1>9, LogPerRow, OtherChain DEF IInv
<1>11. \A c \in AnchorCodes : AnchorFollows(c)'
  BY <1>1, <1>8, LogPerRow, OtherAnchor DEF IInv
<1>12. LogSound'
  BY <1>10, <1>11, LogPerRowAfter
<1> QED
  BY <1>1, <1>3, <1>4, <1>5, <1>6, <1>12, WriteStep

LEMMA InsertChainSound ==
  ASSUME IInv, NEW w \in Workers, req[w].stage = "checked", UNCHANGED now, InsertChain(w)
  PROVE  IInv'
<1>1. PICK r : r = req[w]
  OBVIOUS
<1>2. CASE RollBack(w, "conflict")
  BY <1>2, AnswerStep DEF RollBack, Answers
<1>3. CASE /\ chains[r.code] = NoRow
           /\ chains' = [chains EXCEPT ![r.code] = r.row]
           /\ UNCHANGED anchors
           /\ Record(w)
  <2>1. r.op = "import_chain" /\ Known(r)
    BY <1>1, Committing DEF InsertChain
  <2>2. r.code \in ChainCodes /\ r.to = "none" /\ r.row \in Chain /\ ChainWithin(r.row)
    BY <2>1 DEF Known
  <2>3. PICK row \in Chain : row = r.row
    BY <2>2
  <2>4. ChainWithin(row)
    BY <2>2, <2>3 DEF ChainWithin
  <2> QED
    BY <1>1, <1>3, <2>1, <2>2, <2>3, <2>4, ChainStored
<1> QED
  BY <1>1, <1>2, <1>3 DEF InsertChain

LEMMA TransitionChainSound ==
  ASSUME IInv, NEW w \in Workers, req[w].stage = "checked", UNCHANGED now,
         TransitionChain(w)
  PROVE  IInv'
<1>1. PICK r : r = req[w]
  OBVIOUS
<1>2. CASE RollBack(w, "concurrent")
  BY <1>2, AnswerStep DEF RollBack, Answers
<1>3. CASE /\ chains' = [chains EXCEPT ![r.code].state = r.to]
           /\ UNCHANGED anchors
           /\ Record(w)
  <2>1. r.op = "transition" /\ Known(r)
    BY <1>1, Committing DEF TransitionChain
  <2>2. /\ r.code \in ChainCodes /\ r.to \in Targets /\ chains[r.code] \in Chain
        /\ r.seen \in Chain /\ r.row = [r.seen EXCEPT !.state = r.to]
    BY <2>1 DEF Known, IInv, TypeOK
  <2>3. PICK row : row = [chains[r.code] EXCEPT !.state = r.to]
    OBVIOUS
  <2>4. row \in Chain /\ row.state = r.row.state /\ SameChain(chains[r.code], row)
    BY <2>2, <2>3 DEF Chain, SameChain, Targets, ChainStates
  <2>5. chains' = [chains EXCEPT ![r.code] = row]
    BY <1>3, <2>3
  <2>6. chains[r.code] # NoRow
    BY <2>1 DEF Known
  <2> QED
    BY <1>1, <1>3, <2>1, <2>2, <2>4, <2>5, <2>6, ChainStored
<1> QED
  BY <1>1, <1>2, <1>3 DEF TransitionChain

(***************************************************************************)
(* Every step.                                                             *)
(***************************************************************************)

LEMMA BeginSound ==
  ASSUME IInv, NEW w \in Workers, Begin(w)
  PROVE  IInv'
<1>1. CASE BeginUnknown(w)
  BY <1>1, ArriveStep DEF BeginUnknown, Answers
<1>2. ASSUME NEW role \in Roles, NEW code \in AnchorCodes, NEW certificate \in Certificates,
             BeginImportAnchor(w, role, code, certificate)
      PROVE  IInv'
  BY <1>2, BeginImportAnchorSound
<1>3. ASSUME NEW role \in Roles, NEW code \in AnchorCodes, NEW action \in Actions,
             BeginLifecycle(w, role, code, action)
      PROVE  IInv'
  BY <1>3, BeginLifecycleSound
<1>4. ASSUME NEW role \in Roles, NEW code \in ChainCodes, NEW anchor \in AnchorCodes,
             NEW bundle \in Bundles, BeginImportChain(w, role, code, anchor, bundle)
      PROVE  IInv'
  BY <1>4, BeginImportChainSound
<1>5. ASSUME NEW role \in Roles, NEW code \in ChainCodes, NEW to \in Targets,
             BeginTransition(w, role, code, to)
      PROVE  IInv'
  BY <1>5, BeginTransitionSound
<1> QED
  BY <1>1, <1>2, <1>3, <1>4, <1>5 DEF Begin

LEMMA TickSound == ASSUME IInv, Tick PROVE IInv'
<1>1. now \in Nat /\ now' = now + 1 /\ now' \in 0 .. MaxTime
  BY InventoryAssumption DEF InventoryAssumption, Tick, IInv, TypeOK
<1>2. UNCHANGED <<anchors, chains, audit, req>>
  BY DEF Tick
<1>3. RowsKept
  BY <1>1, <1>2 DEF RowsKept, SameChain
<1>4. TypeOK'
  BY <1>1, <1>2 DEF IInv, TypeOK
<1>5. RequestsSound'
  <2>1. ASSUME NEW w \in Workers, req'[w].stage = "checked" PROVE Known(req[w])'
    <3>1. PICK r : r = req'[w]
      OBVIOUS
    <3>2. Known(r)'
      BY <1>2, <1>3, <2>1, <3>1, KnownKept DEF IInv, RequestsSound
    <3> QED
      BY <3>1, <3>2 DEF Known, AnchorLags, Reported, ChainWithin, SameChain
  <2> QED
    BY <2>1 DEF RequestsSound
<1> QED
  BY <1>2, <1>3, <1>4, <1>5, AgeingSound DEF IInv

LEMMA CrashSound == ASSUME IInv, Crash PROVE IInv'
<1>1. Idle \in Request /\ Idle.stage # "checked"
  BY DEF Idle, Request, Answers
<1>2. UNCHANGED <<now, anchors, chains, audit>> /\ req' = [w \in Workers |-> Idle]
  BY DEF Crash
<1>3. RowsKept
  BY <1>2, InventoryAssumption DEF InventoryAssumption, IInv, TypeOK, RowsKept, SameChain
<1>4. TypeOK'
  BY <1>1, <1>2 DEF IInv, TypeOK
<1>5. RequestsSound'
  BY <1>1, <1>2 DEF RequestsSound
<1> QED
  BY <1>2, <1>3, <1>4, <1>5, AgeingSound DEF IInv

LEMMA NextSound == ASSUME IInv, [Next]_vars PROVE IInv'
<1>1. ASSUME NEW w \in Workers, Begin(w) PROVE IInv'
  BY <1>1, BeginSound
<1>2. ASSUME NEW w \in Workers, Write(w) PROVE IInv'
  BY <1>2, InsertAnchorSound, SetLifecycleSound, InsertChainSound, TransitionChainSound
  DEF Write
<1>3. ASSUME NEW w \in Workers, Reload(w) PROVE IInv'
  BY <1>3, AnswerStep DEF Reload, Answers
<1>4. ASSUME NEW w \in Workers, Fail(w) PROVE IInv'
  BY <1>4, AnswerStep DEF Fail, Answers
<1>5. ASSUME NEW w \in Workers, Deliver(w) PROVE IInv'
  <2>1. PICK r : r = Idle
    OBVIOUS
  <2>2. r \in Request /\ r.stage # "checked"
    BY <2>1 DEF Idle, Request, Answers
  <2> QED
    BY <1>5, <2>1, <2>2, LocalStep DEF Deliver
<1>6. CASE UNCHANGED vars
  <2>1. UNCHANGED <<now, anchors, chains, audit, req>>
    BY <1>6 DEF vars
  <2>2. RowsKept
    BY <2>1, InventoryAssumption DEF InventoryAssumption, IInv, TypeOK, RowsKept, SameChain
  <2>3. TypeOK' /\ RequestsSound'
    BY <2>1 DEF IInv, TypeOK, RequestsSound, Known, AnchorLags, Reported, ChainWithin,
       SameChain
  <2> QED
    BY <2>1, <2>2, <2>3, AgeingSound DEF IInv
<1> QED
  BY <1>1, <1>2, <1>3, <1>4, <1>5, <1>6, TickSound, CrashSound DEF Next, HistoryFull

\* The invariant holds for any numbers of workers, anchors and chains.
THEOREM Inductive == Spec => []IInv
<1>1. Init => IInv
  BY InitSound
<1>2. IInv /\ [Next]_vars => IInv'
  BY NextSound
<1> QED
  BY <1>1, <1>2, PTL DEF Spec

\* Rows, entries and requests have their types.
THEOREM TypeCorrect == Spec => []TypeOK
<1>1. IInv => TypeOK
  BY DEF IInv
<1> QED
  BY <1>1, Inductive, PTL

\* The stored state of an anchor, computed once, never runs ahead of the
\* reported one, however revocations, archivings and restorations overlap.
THEOREM StatesLag == Spec => []StoredStateLags
<1>1. IInv => StoredStateLags
  <2>1. ASSUME IInv, NEW c \in AnchorCodes, anchors[c] # NoRow
        PROVE  /\ anchors[c].state = "revoked" <=> Reported(anchors[c]) = "revoked"
               /\ ~ anchors[c].revoked => Age(anchors[c].state) <= Age(Reported(anchors[c]))
    <3>1. AnchorLags(anchors[c])
      BY <2>1 DEF IInv, AnchorsSound
    <3>2. Reported(anchors[c]) = "revoked" <=> anchors[c].revoked
      BY DEF Reported, CalculateCertificateState
    <3> QED
      BY <3>1, <3>2 DEF AnchorLags
  <2> QED
    BY <2>1 DEF StoredStateLags
<1> QED
  BY <1>1, Inductive, PTL

\* A chain is stored with a window its anchor covers, so that whoever trusts
\* the stored window later trusts a valid root.
THEOREM OpenChainsValid == Spec => []OpenChainsHaveValidAnchors
<1>1. IInv => OpenChainsHaveValidAnchors
  <2>1. ASSUME IInv, NEW c \in ChainCodes, chains[c] # NoRow,
               chains[c].from <= now, now < chains[c].to
        PROVE  /\ anchors[chains[c].anchor] # NoRow
               /\ AnchorValid(anchors[chains[c].anchor].certificate, now)
    <3>1. PICK chain \in Chain : chain = chains[c] /\ ChainWithin(chain)
      BY <2>1 DEF IInv, TypeOK, ChainsSound, ChainWithin
    <3>2. PICK a \in Anchor : a = anchors[chain.anchor] /\ a.certificate.root
      BY <2>1, <3>1 DEF IInv, TypeOK, Chain, ChainWithin, AnchorsSound
    <3>3. PICK from \in Int, to \in Int : from = a.certificate.from /\ to = a.certificate.to
      BY CertificatesTyped
    <3>4. chain.from \in Int /\ chain.to \in Int /\ now \in Int
          /\ chain.from <= now /\ now < chain.to /\ from <= chain.from /\ chain.to <= to
      BY <2>1, <3>1, <3>2, <3>3 DEF Chain, ChainWithin, IInv, TypeOK
    <3>5. from <= now /\ now < to
      BY <3>4
    <3> QED
      BY <3>1, <3>2, <3>3, <3>5 DEF AnchorValid, ChainWithin
  <2> QED
    BY <2>1 DEF OpenChainsHaveValidAnchors
<1> QED
  BY <1>1, Inductive, PTL

\* The rows can be rebuilt from the audit log, though every handler edits a
\* row it read before its transaction.
THEOREM LogFollowed == Spec => []InventoryFollowsAudit
<1>1. IInv => InventoryFollowsAudit
  BY DEF IInv, LogSound
<1> QED
  BY <1>1, Inductive, PTL

(***************************************************************************)
(* Only the four statements change rows, and how they do.                  *)
(***************************************************************************)

\* An anchor is inserted: nothing that was there changes.
AnchorInserted ==
    \E r \in Request :
        /\ r.code \in AnchorCodes
        /\ anchors[r.code] = NoRow
        /\ anchors' = [anchors EXCEPT ![r.code] = r.row]
        /\ UNCHANGED chains

LifecycleSet ==
    \E r \in Request :
        /\ r.code \in AnchorCodes
        /\ r.to \in Actions
        /\ anchors' = [anchors EXCEPT ![r.code] = Edited(@, r.to)]
        /\ UNCHANGED chains

ChainInserted ==
    \E r \in Request :
        /\ r.code \in ChainCodes
        /\ chains[r.code] = NoRow
        /\ r.row \in Chain /\ r.row.state = "validated"
        /\ chains' = [chains EXCEPT ![r.code] = r.row]
        /\ UNCHANGED anchors

\* The row that was read is the row that is moved.
ChainMoved ==
    \E r \in Request :
        /\ r.code \in ChainCodes
        /\ r.seen = chains[r.code]
        /\ chains[r.code] \in Chain /\ chains[r.code] # NoRow
        /\ r.to \in Targets
        /\ CanTransitionChain(chains[r.code].state, r.to)
        /\ chains' = [chains EXCEPT ![r.code].state = r.to]
        /\ audit'[Len(audit')].before = r.seen
        /\ UNCHANGED anchors

LEMMA RowsChangeByStatements ==
  ASSUME IInv, [Next]_vars
  PROVE  \/ UNCHANGED <<anchors, chains>>
         \/ AnchorInserted \/ LifecycleSet \/ ChainInserted \/ ChainMoved
<1>1. ASSUME NEW w \in Workers, Begin(w) PROVE UNCHANGED <<anchors, chains>>
  BY <1>1 DEF Begin, BeginUnknown, BeginImportAnchor, BeginLifecycle, BeginImportChain,
     BeginTransition, Arrive
<1>2. ASSUME NEW w \in Workers, Write(w)
      PROVE  \/ UNCHANGED <<anchors, chains>>
             \/ AnchorInserted \/ LifecycleSet \/ ChainInserted \/ ChainMoved
  <2>1. PICK r \in Request : r = req[w]
    BY <1>2 DEF IInv, TypeOK
  <2>2. Known(r)
    BY <1>2, <2>1, Committing DEF Write
  <2>3. CASE InsertAnchor(w)
    <3>1. r.op = "import_anchor"
      BY <2>1, <2>3 DEF InsertAnchor
    <3>2. \/ UNCHANGED <<anchors, chains>>
          \/ /\ anchors[r.code] = NoRow
             /\ anchors' = [anchors EXCEPT ![r.code] = r.row]
             /\ UNCHANGED chains
      BY <2>1, <2>3 DEF InsertAnchor, RollBack
    <3> QED
      BY <2>2, <3>1, <3>2 DEF AnchorInserted, Known
  <2>4. CASE SetLifecycle(w)
    BY <2>1, <2>2, <2>4 DEF SetLifecycle, LifecycleSet, Known
  <2>5. CASE InsertChain(w)
    <3>1. r.op = "import_chain"
      BY <2>1, <2>5 DEF InsertChain
    <3>2. \/ UNCHANGED <<anchors, chains>>
          \/ /\ chains[r.code] = NoRow
             /\ chains' = [chains EXCEPT ![r.code] = r.row]
             /\ UNCHANGED anchors
      BY <2>1, <2>5 DEF InsertChain, RollBack
    <3> QED
      BY <2>2, <3>1, <3>2 DEF ChainInserted, Known
  <2>6. CASE TransitionChain(w)
    <3>1. r.op = "transition"
      BY <2>1, <2>6 DEF TransitionChain
    <3>2. \/ UNCHANGED <<anchors, chains>>
          \/ /\ chains[r.code].state = r.seen.state
             /\ chains' = [chains EXCEPT ![r.code].state = r.to]
             /\ UNCHANGED anchors
             /\ audit' = Append(audit, AuditEntry(r))
      BY <2>1, <2>6 DEF TransitionChain, RollBack, Record, AuditEntry
    <3>3. CASE /\ chains[r.code].state = r.seen.state
               /\ chains' = [chains EXCEPT ![r.code].state = r.to]
               /\ UNCHANGED anchors
               /\ audit' = Append(audit, AuditEntry(r))
      <4>1. /\ r.code \in ChainCodes /\ r.to \in Targets /\ r.seen \in Chain
            /\ chains[r.code] # NoRow /\ SameChain(r.seen, chains[r.code])
            /\ CanTransitionChain(r.seen.state, r.to)
        BY <2>2, <3>1 DEF Known
      <4>2. chains[r.code] \in Chain
        BY <4>1 DEF IInv, TypeOK
      <4>3. r.seen = chains[r.code]
        <5>1. PICK one \in Chain, other \in Chain : one = r.seen /\ other = chains[r.code]
          BY <4>1, <4>2
        <5>2. one.anchor = other.anchor /\ one.fingerprint = other.fingerprint
              /\ one.from = other.from /\ one.to = other.to /\ one.state = other.state
          BY <3>3, <4>1, <5>1 DEF SameChain
        <5>3. one = other
          BY <5>2 DEF Chain
        <5> QED
          BY <5>1, <5>3
      <4>4. audit'[Len(audit')].before = r.seen
        <5>1. AuditEntry(r) \in Entry /\ audit \in Seq(Entry) /\ AuditEntry(r).before = r.seen
          BY <1>2, <2>1, Committing DEF Write
        <5>2. PICK e \in Entry : e = AuditEntry(r)
          BY <5>1
        <5>3. audit'[Len(audit')] = e
          BY <3>3, <5>1, <5>2
        <5> QED
          BY <5>1, <5>2, <5>3
      <4> QED
        BY <3>3, <4>1, <4>2, <4>3, <4>4 DEF ChainMoved
    <3> QED
      BY <3>2, <3>3
  <2> QED
    BY <1>2, <2>3, <2>4, <2>5, <2>6 DEF Write
<1> QED
  BY <1>1, <1>2 DEF Next, Reload, Deliver, Fail, Crash, Tick, HistoryFull, vars

\* Racing handlers never take a row backwards: the WHERE clause on the state
\* a handler read makes its move one from the row as it is.
THEOREM MovesForward == Spec => LifecyclesMoveForward
<1> DEFINE A == /\ \A c \in AnchorCodes : anchors[c] # NoRow =>
                      /\ anchors'[c].certificate = anchors[c].certificate
                      /\ anchors[c].revoked => anchors'[c].revoked
                /\ \A c \in ChainCodes : chains[c] # NoRow /\ chains'[c] # chains[c] =>
                      /\ CanTransitionChain(chains[c].state, chains'[c].state)
                      /\ chains'[c] = [chains[c] EXCEPT !.state = chains'[c].state]
                      /\ audit'[Len(audit')].before = chains[c]
<1>1. IInv /\ [Next]_vars => [A]_<<anchors, chains>>
  <2> SUFFICES ASSUME IInv, [Next]_vars PROVE [A]_<<anchors, chains>>
    OBVIOUS
  <2>1. /\ anchors \in [AnchorCodes -> Anchor \union {NoRow}]
        /\ chains \in [ChainCodes -> Chain \union {NoRow}]
    BY DEF IInv, TypeOK
  <2>2. CASE AnchorInserted
    BY <2>1, <2>2 DEF AnchorInserted
  <2>3. CASE LifecycleSet
    <3>1. PICK code \in AnchorCodes, to \in Actions :
             /\ anchors' = [anchors EXCEPT ![code] = Edited(@, to)]
             /\ UNCHANGED chains
      BY <2>3 DEF LifecycleSet
    <3>2. ASSUME NEW row \in Anchor
          PROVE  /\ Edited(row, to).certificate = row.certificate
                 /\ row.revoked => Edited(row, to).revoked
      BY <3>2 DEF Edited, Actions, Anchor
    <3> QED
      BY <2>1, <3>1, <3>2
  <2>4. CASE ChainInserted
    BY <2>1, <2>4 DEF ChainInserted
  <2>5. CASE ChainMoved
    <3>1. PICK r \in Request :
             /\ r.code \in ChainCodes /\ r.seen = chains[r.code]
             /\ chains[r.code] \in Chain /\ chains[r.code] # NoRow
             /\ CanTransitionChain(chains[r.code].state, r.to)
             /\ chains' = [chains EXCEPT ![r.code].state = r.to]
             /\ audit'[Len(audit')].before = r.seen /\ UNCHANGED anchors
      BY <2>5 DEF ChainMoved
    <3>2. PICK old \in Chain, to \in {r.to} : old = chains[r.code] /\ to = r.to
      BY <3>1
    <3>3. /\ chains'[r.code] = [old EXCEPT !.state = to] /\ chains'[r.code].state = to
          /\ \A c \in ChainCodes \ {r.code} : chains'[c] = chains[c]
      BY <2>1, <3>1, <3>2 DEF Chain
    <3> QED
      BY <3>1, <3>2, <3>3
  <2> QED
    BY <2>2, <2>3, <2>4, <2>5, RowsChangeByStatements
<1> QED
  BY <1>1, Inductive, PTL DEF Spec, LifecyclesMoveForward

(***************************************************************************)
(* The committed chains are the inventory readers are promised.            *)
(***************************************************************************)

States == [c \in ChainCodes |-> IF chains[c] = NoRow THEN NoRow ELSE chains[c].state]

LEMMA MappedChains ==
  ASSUME TypeOK
  PROVE  /\ States \in [ChainCodes -> ChainStates \union {NoRow}]
         /\ NoRow \notin ChainStates
         /\ \A c \in ChainCodes : States[c] = NoRow <=> chains[c] = NoRow
<1>1. NoRow \notin ChainStates
  BY InventoryAssumption DEF InventoryAssumption
<1>2. \A c \in ChainCodes : chains[c] # NoRow => chains[c].state \in ChainStates
  BY DEF TypeOK, Chain
<1> QED
  BY <1>1, <1>2 DEF States

LEMMA InitRefines == Init => Promised!Init
<1> SUFFICES ASSUME Init PROVE Promised!Init
  OBVIOUS
<1>1. States \in [ChainCodes -> Promised!ChainStates \union {NoRow}]
  BY InitSound, MappedChains DEF IInv, ChainStates, Promised!ChainStates
<1>2. [s \in {} |-> NoRow] \in [{} -> Promised!Service \union {NoRow}]
  OBVIOUS
<1> QED
  BY <1>1, <1>2 DEF Promised!Init, Promised!References, States

LEMMA StepRefines ==
  ASSUME IInv, [Next]_vars
  PROVE  [Promised!Next]_<<States, [s \in {} |-> NoRow]>>
<1>1. TypeOK
  BY DEF IInv
<1>2. CASE UNCHANGED chains
  BY <1>2 DEF States
<1>3. CASE ChainInserted
  <2>1. PICK code \in ChainCodes, row \in Chain :
           /\ chains[code] = NoRow /\ row.state = "validated"
           /\ chains' = [chains EXCEPT ![code] = row]
    BY <1>3 DEF ChainInserted
  <2>2. row # NoRow
    BY InventoryAssumption DEF InventoryAssumption
  <2>3. States[code] = NoRow
    BY <1>1, <2>1, MappedChains
  <2>4. States' = [States EXCEPT ![code] = "validated"]
    BY <1>1, <2>1, <2>2 DEF States, TypeOK
  <2>5. Promised!ImportChain(code)
    BY <2>3, <2>4 DEF Promised!ImportChain, States
  <2> QED
    BY <2>1, <2>5 DEF Promised!Next
<1>4. CASE ChainMoved
  <2>1. PICK code \in ChainCodes, to \in Targets, old \in Chain :
           /\ old = chains[code] /\ old # NoRow
           /\ CanTransitionChain(old.state, to)
           /\ chains' = [chains EXCEPT ![code].state = to]
    BY <1>4 DEF ChainMoved
  <2>2. PICK new \in Chain : new = [old EXCEPT !.state = to]
    BY DEF Chain, Targets, ChainStates
  <2>3. new # NoRow /\ new.state = to
    BY <2>2, InventoryAssumption DEF InventoryAssumption, Chain
  <2>4. chains' = [chains EXCEPT ![code] = new]
    BY <2>1, <2>2
  <2>5. States' = [States EXCEPT ![code] = to]
    BY <1>1, <2>3, <2>4 DEF States, TypeOK
  <2>6. States[code] = old.state /\ States[code] # NoRow
    BY <1>1, <2>1, MappedChains DEF States
  <2>7. Promised!CanTransitionChain(States[code], to)
    BY <2>1, <2>6 DEF CanTransitionChain, Promised!CanTransitionChain
  <2>8. Promised!MoveChain(code, to)
    BY <2>5, <2>6, <2>7 DEF Promised!MoveChain, States
  <2>9. to \in Promised!ChainStates
    BY DEF Targets, Promised!ChainStates
  <2> QED
    BY <2>1, <2>8, <2>9 DEF Promised!Next
<1> QED
  BY <1>2, <1>3, <1>4, RowsChangeByStatements DEF AnchorInserted, LifecycleSet

\* The chains' handlers implement the inventory that freezing relies on.
THEOREM Refinement == Spec => ImplementsInventory
<1>1. Init => Promised!Init
  BY InitRefines
<1>2. IInv /\ [Next]_vars => [Promised!Next]_<<States, [s \in {} |-> NoRow]>>
  BY StepRefines
<1> QED
  BY <1>1, <1>2, Inductive, PTL DEF Spec, ImplementsInventory, Promised!Spec, States

\* The comparison of two windows finds an overlap exactly when some time is in
\* both of them.
LEMMA OverlapDecided ==
  ASSUME NEW first \in Chain, NEW second \in Chain
  PROVE  Compare(first, second).hasValidOverlap <=>
            (first.from .. first.to - 1) \intersect (second.from .. second.to - 1) # {}
<1>1. PICK f \in Int, t \in Int, g \in Int, u \in Int :
         f = first.from /\ t = first.to /\ g = second.from /\ u = second.to
  BY DEF Chain
<1> DEFINE start == IF g > f THEN g ELSE f
           end == IF u < t THEN u ELSE t
<1>2. Compare(first, second).hasValidOverlap <=> start < end
  BY <1>1 DEF Compare
<1>3. ASSUME start < end PROVE start \in (f .. t - 1) \intersect (g .. u - 1)
  BY <1>3
<1>4. ASSUME NEW at \in (f .. t - 1) \intersect (g .. u - 1) PROVE start < end
  BY <1>4
<1>5. start < end <=> (f .. t - 1) \intersect (g .. u - 1) # {}
  <2> HIDE DEF start, end
  <2> QED
    BY <1>3, <1>4
<1> QED
  BY <1>1, <1>2, <1>5

\* Of any two chains in the inventory, whatever was imported, the comparison
\* finds an overlap exactly when both windows are open at some time.
THEOREM ComparisonCorrect == Spec => []ComparisonFindsOverlap
<1>1. TypeOK => ComparisonFindsOverlap
  <2> SUFFICES ASSUME TypeOK, NEW c \in ChainCodes, NEW d \in ChainCodes,
                      chains[c] # NoRow, chains[d] # NoRow
               PROVE  Compare(chains[c], chains[d]).hasValidOverlap <=>
                        (chains[c].from .. chains[c].to - 1)
                            \intersect (chains[d].from .. chains[d].to - 1) # {}
    BY DEF ComparisonFindsOverlap
  <2>1. chains[c] \in Chain /\ chains[d] \in Chain
    BY DEF TypeOK
  <2> QED
    BY <2>1, OverlapDecided
<1> QED
  BY <1>1, TypeCorrect, PTL
=============================================================================
