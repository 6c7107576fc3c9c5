------------------------- MODULE RolloverInvariant -------------------------
(***************************************************************************)
(* The inductive invariant of RolloverScenarios: what a handler knows at   *)
(* each stage, and how long it stays true while others run.  A row read    *)
(* before the transaction goes stale in its state, key and replay flag,    *)
(* never in its creator and input; inside the transaction the row lock     *)
(* pins the rest.                                                          *)
(***************************************************************************)
EXTENDS RolloverScenarios

\* What any row the handlers ever see satisfies, taken alone.
RowSound(row) ==
    /\ IF row.state = "verified"
       THEN /\ row.verifier \in Users \ {row.creator}
            /\ May(row.verifier, "scenario.verify")
       ELSE row.verifier = NoUser
    /\ row.result \in {NoResult, Evaluate[row.input]}
    /\ row.result = NoResult <=> row.key = NoKey
    /\ row.state # "draft" => row.result # NoResult

RowsSound == \A id \in Ids : Stored(id) => RowSound(rows[id])

Pending == {"loaded", "checked"} \union Holding

\* What the checks before the transaction established about the request.
Checked(r) ==
    /\ r.user \in Users /\ r.id \in Ids /\ r.op \in Ops
    /\ r.stage = "loaded" => r.op = "simulate"
    /\ r.stage \notin InTransaction => r.write = NoScenario
    /\ r.op = "create" =>
         /\ r.input \in Inputs
         /\ r.seen = NoScenario
         /\ May(r.user, "scenario.write")
    /\ r.op # "create" => r.seen \in Scenario /\ RowSound(r.seen)
    /\ r.op = "simulate" =>
         /\ r.key \in Keys
         /\ May(r.user, "scenario.run") /\ Manages(r.user, r.seen)
         /\ r.stage # "loaded" => r.seen.state = "draft"
    /\ r.op = "transition" =>
         /\ r.to \in Targets
         /\ CanTransitionScenario(r.seen.state, r.to)
         /\ IF r.to = "verified"
            THEN May(r.user, "scenario.verify") /\ ReviewerSeparated(r.user, r.seen)
            ELSE May(r.user, "scenario.write") /\ Manages(r.user, r.seen)
    /\ r.op = "replay" => r.seen.state # "draft"

\* What stays true of the row after it was read.
SeenStands(r) ==
    IF r.op = "create"
    THEN ~ Stored(r.id)
    ELSE /\ Stored(r.id)
         /\ rows[r.id].creator = r.seen.creator
         /\ rows[r.id].input = r.seen.input

\* What the open transaction is about to store, and what the lock keeps true.
WriteStands(r) ==
    /\ r.op = "create" => r.write = DraftRow(r.user, r.input)
    /\ r.op = "simulate" =>
         /\ rows[r.id].state = "draft"
         /\ r.write = SimulatedRow(rows[r.id], Evaluate[r.seen.input], r.key)
    /\ r.op = "transition" =>
         /\ rows[r.id].state = r.seen.state
         /\ r.write = MovedRow(rows[r.id], r.to, r.user)
    /\ r.op = "replay" =>
         r.write = [rows[r.id] EXCEPT !.replayed = ReplayPasses(r)]

\* Only a simulation holds a row before its statement is done.
LockStands(r) == r.op = "simulate" /\ rows[r.id].state = "draft"

RequestsSound ==
    \A w \in Workers :
        /\ req[w].stage \in Pending =>
              Checked(req[w]) /\ SeenStands(req[w])
        /\ req[w].stage = "locked" => LockStands(req[w])
        /\ req[w].stage \in InTransaction => WriteStands(req[w])
        /\ req[w].stage = "committed" => req[w].id \in Ids

\* Row locks exclude one another, and the sequence gives an id once.
RowsApart ==
    \A v, w \in Workers : v # w =>
        /\ req[v].stage \in Holding /\ req[w].stage \in Holding =>
              req[v].id # req[w].id
        /\ req[v].op = "create" /\ req[w].op = "create" =>
              req[v].id # req[w].id

\* The unique values of a row an open transaction stores are its own: no
\* other committed row and no other open transaction has them.
UniqueWrite(w, row) ==
    /\ \A id \in Ids \ {req[w].id} : Stored(id) => ~ SameUnique(row, rows[id])
    /\ \A v \in Workers \ {w} :
          req[v].stage \in InTransaction => ~ SameUnique(row, req[v].write)

IndexesHold ==
    /\ \A id, other \in Ids : id # other /\ Stored(id) /\ Stored(other) =>
          ~ SameUnique(rows[id], rows[other])
    /\ \A w \in Workers :
          req[w].stage \in InTransaction => UniqueWrite(w, req[w].write)

\* TypeOK, with the rows sound, every handler's knowledge true and the
\* transactions on different rows and values: preserved by every step.
IInv == TypeOK /\ RowsSound /\ RequestsSound /\ RowsApart /\ IndexesHold

----------------------------------------------------------------------------
(* The answers *)

CarriesResult(row) == row # NoScenario /\ row.result = Evaluate[row.input]

\* A replay never differs; a simulation answers with its result, and finds it
\* when it reads the row again, since no later request takes it away.
AnswerSound(r) ==
    /\ r.code # "replay_differs"
    /\ r.op = "simulate" /\ r.code \in {"ok", "reused"} => CarriesResult(r.reply)
    /\ r.op = "simulate" /\ r.stage = "committed" => CarriesResult(rows[r.id])

\* With IInv, preserved by every step.
AnswersSound == \A w \in Workers : AnswerSound(req[w])

----------------------------------------------------------------------------
(* The audit log *)

Redraft(n, id) ==
    /\ audit[n].id = id
    /\ audit[n].action = "transition" /\ audit[n].after.state = "draft"

\* A scenario whose simulation is recorded is stored, and a draft again only
\* if a later entry records the redraft.  With IInv, preserved by every step.
SimulationsNoted ==
    /\ \A n \in DOMAIN audit : audit[n].action = "simulate" =>
          /\ Stored(audit[n].id)
          /\ rows[audit[n].id].state = "draft" =>
                \E p \in DOMAIN audit : n <= p /\ Redraft(p, audit[n].id)
    /\ SimulatedOncePerDraft
=============================================================================
