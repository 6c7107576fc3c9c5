--------------------------- MODULE TrustInventory ---------------------------
(***************************************************************************)
(* The inventory of trust anchors and certificate chains: the two services *)
(* that import them, move them through their life cycles, list and compare *)
(* them, while time passes and certificates age.                           *)
(*                                                                         *)
(* As in RolloverScenarios a handler decides on rows it read before its    *)
(* transaction.  The transaction itself (one row, one audit entry) is one  *)
(* step here: its row lock makes it so, and what happens between its two   *)
(* statements is what RolloverScenarios is about.  Rows are known by their *)
(* codes, which a unique index binds to one row and no request removes.    *)
(***************************************************************************)
EXTENDS DomainConstants, Integers, Sequences

CONSTANTS
    Workers,      \* goroutines: how many requests are in flight at once
    AnchorCodes,
    ChainCodes,
    Certificates, \* what anchors are imported from: root or not, and its window
    Bundles,      \* what chains are imported from
    Fingerprints, \* of chains
    Expiring,     \* 90 days: the last part of a certificate's life
    NoRow,        \* the value of a code no row has
    SeedAnchors,  \* the tables the start-up seed may have left behind
    SeedChains,
    MaxTime,      \* bound: the last instant of the clock
    MaxHistory    \* bound: length of the audit log

CertificateStates == {"valid", "expiring", "expired", "revoked"}

\* A self-signed CA certificate is a root; anything else is no anchor.
Certificate == [from : Int, to : Int, root : BOOLEAN]

\* The path that leads to the root is verified; the window that is stored is
\* that of all certificates sent along, a subset of the path's.
Bundle == [root : Certificates, pathFrom : Int, pathTo : Int, from : Int, to : Int,
           fingerprint : Fingerprints]

Anchor == [certificate : Certificates, state : CertificateStates,
           revoked : BOOLEAN, archived : BOOLEAN]

Chain == [anchor : AnchorCodes, fingerprint : Fingerprints, from : Int, to : Int,
          state : ChainStates]

ASSUME InventoryAssumption ==
    /\ Certificates \subseteq Certificate
    /\ Bundles \subseteq Bundle
    /\ \A b \in Bundles : b.pathFrom <= b.from /\ b.to <= b.pathTo
    /\ NoRow \notin Anchor \union Chain \union ChainStates
    /\ Expiring \in Nat /\ MaxTime \in Nat /\ MaxHistory \in Nat
    /\ SeedAnchors \subseteq [AnchorCodes -> Anchor \union {NoRow}]
    /\ SeedChains \subseteq [ChainCodes -> Chain \union {NoRow}]

VARIABLES
    now,      \* time.Now()
    anchors,  \* trust_anchors: code -> committed row or NoRow
    chains,   \* certificate_chains: code -> committed row or NoRow
    audit,    \* audit_logs: the committed entries, oldest first
    req       \* worker -> the request it is serving

vars == <<now, anchors, chains, audit, req>>

----------------------------------------------------------------------------
(* Certificates *)

CalculateCertificateState(at, to, revoked) ==
    IF revoked                    THEN "revoked"
    ELSE IF at >= to              THEN "expired"
    ELSE IF at + Expiring >= to   THEN "expiring"
    ELSE "valid"

\* The seed imports its anchors and chains as the handlers do.
ASSUME SeedAssumption ==
    \A seeded \in SeedAnchors :
        /\ \A c \in AnchorCodes : seeded[c] # NoRow =>
              /\ seeded[c].certificate.root /\ ~ seeded[c].revoked /\ ~ seeded[c].archived
              /\ seeded[c].state =
                    CalculateCertificateState(0, seeded[c].certificate.to, FALSE)
        /\ \A table \in SeedChains, c \in ChainCodes : table[c] # NoRow =>
              LET anchor == seeded[table[c].anchor]
              IN  /\ table[c].state = "validated"
                  /\ anchor # NoRow
                  /\ anchor.certificate.from <= table[c].from
                  /\ table[c].to <= anchor.certificate.to

\* ValidateTrustAnchor.
AnchorValid(certificate, at) ==
    certificate.root /\ certificate.from <= at /\ at < certificate.to

\* ValidateChain: x509 accepts a path at its very last instant.
ChainValid(anchor, bundle, at) ==
    /\ AnchorValid(anchor.certificate, at)
    /\ bundle.root = anchor.certificate
    /\ bundle.pathFrom <= at /\ at <= bundle.pathTo

----------------------------------------------------------------------------
(* Requests *)

Ops == {"import_anchor", "lifecycle", "import_chain", "transition"}
Actions == {"revoke", "archive", "restore"}
Targets == {"validated", "deprecated", "revoked"}

Answers == {"none", "ok", "forbidden", "invalid", "not_found", "conflict",
            "illegal_state", "concurrent", "internal"}

\*   checked    every check passed; the transaction is about to run
\*   committed  the transaction is durable; the answer is still to be read
\*   answered   the response is on its way
Request ==
    [stage : {"idle", "checked", "committed", "answered"}, op : Ops \union {"none"},
     code : AnchorCodes \union ChainCodes \union {"none"},
     seen : Anchor \union Chain \union {NoRow},   \* the row as it was read
     row : Anchor \union Chain \union {NoRow},    \* it, as edited in memory
     to : Actions \union Targets \union {"none"}, answer : Answers]

Idle == [stage |-> "idle", op |-> "none", code |-> "none", seen |-> NoRow,
         row |-> NoRow, to |-> "none", answer |-> "none"]

Entry == [op : Ops, code : AnchorCodes \union ChainCodes,
          action : Actions \union Targets \union {"none"},
          before : Anchor \union Chain \union {NoRow}, after : Anchor \union Chain]

Init ==
    /\ now = 0
    /\ anchors \in SeedAnchors
    /\ chains \in SeedChains
    /\ audit = <<>>
    /\ req = [w \in Workers |-> Idle]

Answer(w, code) ==
    req' = [req EXCEPT ![w] = [Idle EXCEPT !.stage = "answered", !.answer = code]]

\* A request arrives; middleware and handler either refuse it at once or go on.
Arrive(w, r, refusal) ==
    /\ req[w] = Idle
    /\ Len(audit) < MaxHistory
    /\ IF refusal = "none" THEN req' = [req EXCEPT ![w] = r] ELSE Answer(w, refusal)
    /\ UNCHANGED <<now, anchors, chains, audit>>

\* Mutant: the state column is not set.
NewAnchorUnset(certificate) ==
    [certificate |-> certificate, revoked |-> FALSE, archived |-> FALSE, state |-> ""]

NewAnchor(certificate) ==
    [certificate |-> certificate, revoked |-> FALSE, archived |-> FALSE,
     state |-> CalculateCertificateState(now, certificate.to, FALSE)]

\* POST /trust-anchors.
BeginImportAnchor(w, role, code, certificate) ==
    Arrive(w, [Idle EXCEPT !.stage = "checked", !.op = "import_anchor", !.code = code,
                           !.row = NewAnchor(certificate)],
           IF ~ HasPermission(role, "anchor.write")  THEN "forbidden"
           ELSE IF ~ AnchorValid(certificate, now)   THEN "invalid"
           ELSE "none")

\* Mutant: a revocation leaves the state column alone.
EditedWithoutState(row, action) ==
    CASE action = "revoke"  -> [row EXCEPT !.revoked = TRUE]
      [] action = "archive" -> [row EXCEPT !.archived = TRUE]
      [] action = "restore" -> [row EXCEPT !.archived = FALSE]

\* The anchor as Lifecycle edits it in memory.
Edited(row, action) ==
    CASE action = "revoke"  -> [row EXCEPT !.revoked = TRUE, !.state = "revoked"]
      [] action = "archive" -> [row EXCEPT !.archived = TRUE]
      [] action = "restore" -> [row EXCEPT !.archived = FALSE]

\* POST /trust-anchors/:id/lifecycle, up to the transaction.
BeginLifecycle(w, role, code, action) ==
    /\ anchors[code] # NoRow
    /\ Arrive(w, [Idle EXCEPT !.stage = "checked", !.op = "lifecycle", !.code = code,
                              !.to = action, !.seen = anchors[code],
                              !.row = Edited(anchors[code], action)],
              IF ~ HasPermission(role, "anchor.write") THEN "forbidden"
              ELSE IF action # "archive" /\ anchors[code].revoked THEN "conflict"
              ELSE "none")

\* Mutant: the window of the certificates sent, whatever the anchor's.
WindowOfBundle(certificate, bundle) == [from |-> bundle.from, to |-> bundle.to]

\* The window all certificates and the anchor share.
Window(certificate, bundle) ==
    [from |-> IF bundle.from > certificate.from THEN bundle.from ELSE certificate.from,
     to   |-> IF bundle.to < certificate.to THEN bundle.to ELSE certificate.to]

\* The import validates the chain: it is never stored as merely imported.
NewChain(anchor, bundle) ==
    LET window == Window(anchors[anchor].certificate, bundle)
    IN  [anchor |-> anchor, fingerprint |-> bundle.fingerprint,
         from |-> window.from, to |-> window.to, state |-> "validated"]

\* POST /certificate-chains, up to the transaction: the anchor may well be
\* revoked or archived.
BeginImportChain(w, role, code, anchor, bundle) ==
    /\ anchors[anchor] # NoRow
    /\ Arrive(w, [Idle EXCEPT !.stage = "checked", !.op = "import_chain", !.code = code,
                              !.row = NewChain(anchor, bundle)],
              IF ~ HasPermission(role, "chain.write")              THEN "forbidden"
              ELSE IF ~ ChainValid(anchors[anchor], bundle, now)   THEN "invalid"
              ELSE "none")

\* POST /certificate-chains/:id/transition, up to the transaction.
BeginTransition(w, role, code, to) ==
    /\ chains[code] # NoRow
    /\ Arrive(w, [Idle EXCEPT !.stage = "checked", !.op = "transition", !.code = code,
                              !.to = to, !.seen = chains[code],
                              !.row = [chains[code] EXCEPT !.state = to]],
              IF ~ HasPermission(role, "chain.write")                THEN "forbidden"
              ELSE IF ~ CanTransitionChain(chains[code].state, to)   THEN "illegal_state"
              ELSE "none")

\* A request names an anchor or a chain that does not exist.
BeginUnknown(w) == Arrive(w, Idle, "not_found")

----------------------------------------------------------------------------
(* The transaction *)

\* The entry is appended with the row; the snapshots are what the handler has
\* in memory.
Record(w) ==
    LET r == req[w]
    IN  /\ audit' = Append(audit, [op |-> r.op, code |-> r.code, action |-> r.to,
                                   before |-> r.seen, after |-> r.row])
        /\ req' = [req EXCEPT ![w] = [Idle EXCEPT !.stage = "committed"]]

\* The statement failed or matched no row: gorm rolls the transaction back.
RollBack(w, code) == Answer(w, code) /\ UNCHANGED <<anchors, chains, audit>>

\* anchors.Create: code and certificate are unique.
InsertAnchor(w) ==
    LET r     == req[w]
        Taken == \/ anchors[r.code] # NoRow
                 \/ \E c \in AnchorCodes : anchors[c] # NoRow /\
                        anchors[c].certificate = r.row.certificate
    IN  /\ r.op = "import_anchor"
        /\ \/ Taken /\ RollBack(w, "conflict")
           \/ /\ ~ Taken
              /\ anchors' = [anchors EXCEPT ![r.code] = r.row]
              /\ UNCHANGED chains
              /\ Record(w)

\* Mutant: the row is saved as it was read and edited.
SaveLifecycle(w) ==
    LET r == req[w]
    IN  /\ r.op = "lifecycle"
        /\ anchors' = [anchors EXCEPT ![r.code] = r.row]
        /\ UNCHANGED chains
        /\ Record(w)

\* anchors.SetLifecycle: UPDATE of the action's columns WHERE id.
SetLifecycle(w) ==
    LET r == req[w]
    IN  /\ r.op = "lifecycle"
        /\ anchors' = [anchors EXCEPT ![r.code] = Edited(@, r.to)]
        /\ UNCHANGED chains
        /\ Record(w)

\* chains.Create: code and fingerprint are unique.
InsertChain(w) ==
    LET r     == req[w]
        Taken == \/ chains[r.code] # NoRow
                 \/ \E c \in ChainCodes : chains[c] # NoRow /\
                        chains[c].fingerprint = r.row.fingerprint
    IN  /\ r.op = "import_chain"
        /\ \/ Taken /\ RollBack(w, "conflict")
           \/ /\ ~ Taken
              /\ chains' = [chains EXCEPT ![r.code] = r.row]
              /\ UNCHANGED anchors
              /\ Record(w)

\* Mutant: UPDATE ... WHERE id only.
TransitionAlways(w) ==
    LET r == req[w]
    IN  /\ r.op = "transition"
        /\ chains' = [chains EXCEPT ![r.code].state = r.to]
        /\ UNCHANGED anchors
        /\ Record(w)

\* chains.Transition: UPDATE ... WHERE id AND chain_state = the state read.
TransitionChain(w) ==
    LET r == req[w]
    IN  /\ r.op = "transition"
        /\ \/ /\ chains[r.code].state # r.seen.state
              /\ RollBack(w, "concurrent")
           \/ /\ chains[r.code].state = r.seen.state
              /\ chains' = [chains EXCEPT ![r.code].state = r.to]
              /\ UNCHANGED anchors
              /\ Record(w)

Write(w) ==
    /\ req[w].stage = "checked"
    /\ UNCHANGED now
    /\ InsertAnchor(w) \/ SetLifecycle(w) \/ InsertChain(w) \/ TransitionChain(w)

----------------------------------------------------------------------------
(* After the transaction *)

Reload(w) ==
    /\ req[w].stage = "committed"
    /\ Answer(w, "ok")
    /\ UNCHANGED <<now, anchors, chains, audit>>

Deliver(w) ==
    /\ req[w].stage = "answered"
    /\ req' = [req EXCEPT ![w] = Idle]
    /\ UNCHANGED <<now, anchors, chains, audit>>

\* A database call fails: before the commit nothing is stored.
Fail(w) ==
    /\ req[w].stage \in {"checked", "committed"}
    /\ Answer(w, "internal")
    /\ UNCHANGED <<now, anchors, chains, audit>>

\* The server process stops: requests are lost, committed data is not.
Crash ==
    /\ \E w \in Workers : req[w] # Idle
    /\ req' = [w \in Workers |-> Idle]
    /\ UNCHANGED <<now, anchors, chains, audit>>

Tick ==
    /\ now < MaxTime
    /\ now' = now + 1
    /\ UNCHANGED <<anchors, chains, audit, req>>

\* The bound MaxHistory is reached: the modelled part of the run is over.
HistoryFull ==
    /\ Len(audit) >= MaxHistory
    /\ \A w \in Workers : req[w] = Idle
    /\ UNCHANGED vars

Begin(w) ==
    \/ BeginUnknown(w)
    \/ \E role \in Roles :
        \/ \E code \in AnchorCodes :
            \/ \E certificate \in Certificates :
                    BeginImportAnchor(w, role, code, certificate)
            \/ \E action \in Actions : BeginLifecycle(w, role, code, action)
        \/ \E code \in ChainCodes :
            \/ \E anchor \in AnchorCodes, bundle \in Bundles :
                    BeginImportChain(w, role, code, anchor, bundle)
            \/ \E to \in Targets : BeginTransition(w, role, code, to)

Next ==
    \/ \E w \in Workers : Begin(w) \/ Write(w) \/ Reload(w) \/ Deliver(w) \/ Fail(w)
    \/ Crash
    \/ Tick
    \/ HistoryFull

Spec == Init /\ [][Next]_vars

----------------------------------------------------------------------------
(* Reading *)

\* NewTrustAnchorResponse: the state in a response is computed when it is sent.
Reported(anchor) ==
    CalculateCertificateState(now, anchor.certificate.to, anchor.revoked)

\* Mutant: the earlier of the two beginnings.
CompareFromFirst(first, second) ==
    [overlapStart |-> first.from,
     overlapEnd |-> IF second.to < first.to THEN second.to ELSE first.to,
     hasValidOverlap |->
        first.from < (IF second.to < first.to THEN second.to ELSE first.to)]

\* GET /certificate-chains/:id/compare/:other_id.
Compare(first, second) ==
    LET start == IF second.from > first.from THEN second.from ELSE first.from
        end   == IF second.to < first.to THEN second.to ELSE first.to
    IN  [overlapStart |-> start, overlapEnd |-> end, hasValidOverlap |-> start < end]

----------------------------------------------------------------------------
(* Properties *)

\* Rows, audit entries and requests in flight have their types.
TypeOK ==
    /\ now \in 0 .. MaxTime
    /\ anchors \in [AnchorCodes -> Anchor \union {NoRow}]
    /\ chains \in [ChainCodes -> Chain \union {NoRow}]
    /\ audit \in Seq(Entry)
    /\ req \in [Workers -> Request]

Age(state) == CASE state = "valid" -> 1 [] state = "expiring" -> 2 [] state = "expired" -> 3

\* The stored state of an anchor, computed once at its import, is never ahead
\* of the one responses report, and a revocation is in both or in neither,
\* whatever revoke, archive and restore overlapped.
StoredStateLags ==
    \A c \in AnchorCodes : anchors[c] # NoRow =>
        /\ anchors[c].state = "revoked" <=> Reported(anchors[c]) = "revoked"
        /\ ~ anchors[c].revoked => Age(anchors[c].state) <= Age(Reported(anchors[c]))

\* While the stored window of a chain is open, its anchor is not expired: the
\* chain is validated at one time and used at others.
OpenChainsHaveValidAnchors ==
    \A c \in ChainCodes : chains[c] # NoRow /\ chains[c].from <= now /\ now < chains[c].to =>
        LET anchor == anchors[chains[c].anchor]
        IN  anchor # NoRow /\ AnchorValid(anchor.certificate, now)

\* The entries about one row among some actions, and the last of them.
EntriesOf(ops, code, actions) ==
    {n \in DOMAIN audit : audit[n].op \in ops /\ audit[n].code = code
                          /\ audit[n].action \in actions}

LastOf(entries) == audit[CHOOSE n \in entries : \A m \in entries : m <= n]

\* The rows are what the audit log says was done to them: an anchor is revoked
\* if some entry says so, archived if the last archiving or restoring entry
\* does, a chain in the state its last entry left it in.  The updates
\* themselves are made to rows that others may have changed since they were
\* read.
InventoryFollowsAudit ==
    /\ \A c \in AnchorCodes : anchors[c] # NoRow =>
          LET moves == EntriesOf({"lifecycle"}, c, {"archive", "restore"})
          IN  /\ anchors[c].revoked <=> EntriesOf({"lifecycle"}, c, {"revoke"}) # {}
              /\ anchors[c].archived <=>
                    moves # {} /\ LastOf(moves).action = "archive"
    /\ \A c \in ChainCodes : chains[c] # NoRow =>
          LET moves == EntriesOf({"import_chain", "transition"}, c, Targets \union {"none"})
          IN  chains[c].state =
                IF moves = {} THEN "validated" ELSE LastOf(moves).after.state

\* No step of racing handlers takes a row backwards: anchors stay the
\* certificate they are and revoked once they are, and chains make only the
\* moves of the chain life cycle, from the state their audit entry names.
LifecyclesMoveForward ==
    [][ /\ \A c \in AnchorCodes : anchors[c] # NoRow =>
              /\ anchors'[c].certificate = anchors[c].certificate
              /\ anchors[c].revoked => anchors'[c].revoked
        /\ \A c \in ChainCodes : chains[c] # NoRow /\ chains'[c] # chains[c] =>
              /\ CanTransitionChain(chains[c].state, chains'[c].state)
              /\ chains'[c] = [chains[c] EXCEPT !.state = chains'[c].state]
              /\ audit'[Len(audit')].before = chains[c]
      ]_<<anchors, chains>>

\* The comparison of two chains finds an overlap exactly when there is a time
\* at which both windows are open.
ComparisonFindsOverlap ==
    \A c, d \in ChainCodes : chains[c] # NoRow /\ chains[d] # NoRow =>
        LET Open(chain) == chain.from .. chain.to - 1
        IN  Compare(chains[c], chains[d]).hasValidOverlap <=>
                Open(chains[c]) \intersect Open(chains[d]) # {}

\* Seen through their committed states, the chains are those of the inventory
\* readers are promised: imported validated, moved forward one step at a time,
\* whatever the handlers had read.
Promised == INSTANCE Inventory WITH
    ChainIds <- ChainCodes, ServiceIds <- {}, Absent <- NoRow,
    chains <- [c \in ChainCodes |->
                  IF chains[c] = NoRow THEN NoRow ELSE chains[c].state],
    services <- [s \in {} |-> NoRow]

ImplementsInventory == Promised!Spec
=============================================================================
