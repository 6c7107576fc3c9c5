---------------------------- MODULE StartupSeed ----------------------------
(***************************************************************************)
(* How a server process comes up over the shared database: database.Open   *)
(* seeds the accounts one by one, each in a statement of its own, then     *)
(* counts the trust anchors and, when there is none, seeds the domain in   *)
(* one transaction.  An error ends the process; its supervisor starts it   *)
(* again.  Several servers may come up at once over one database.          *)
(***************************************************************************)
EXTENDS Naturals

CONSTANTS
    Servers,     \* server processes over the one database
    NAccounts,   \* the demo accounts, seeded in this order
    MaxFaults    \* bound: how often servers are stopped or lose the database

Accounts == 1 .. NAccounts

\* What seedDomain inserts, in this order: anchors, chains, services with
\* their edges, and the simulated scenario.
NParts == 4
Parts == 1 .. NParts
Anchors == 1

ASSUME StartupAssumption == NAccounts \in Nat /\ MaxFaults \in Nat

VARIABLES
    users,    \* users: the accounts that are committed
    copies,   \* how often each part of the domain is committed
    server,   \* server -> how far its process has come
    faults    \* how many faults there have been

startVars == <<users, copies, server, faults>>

\*   finding   about to look for the next account, or past the last one
\*   creating  the account was not found; the insert is next
\*   seeding   in the transaction of the domain seed
\*   draining  told to stop: finishes the requests it has
Stages == {"down", "finding", "creating", "seeding", "serving", "draining"}

Process == [stage : Stages, account : 1 .. NAccounts + 1, inserted : 0 .. NParts]

Down == [stage |-> "down", account |-> 1, inserted |-> 0]

StartTypeOK ==
    /\ users \subseteq Accounts
    /\ copies \in [Parts -> Nat]
    /\ server \in [Servers -> Process]
    /\ faults \in 0 .. MaxFaults

StartInit ==
    /\ users = {}
    /\ copies = [p \in Parts |-> 0]
    /\ server = [s \in Servers |-> Down]
    /\ faults = 0

At(s, stage) == server[s].stage = stage

\* os.Exit(1): an open transaction is undone by the database.
Exit(s) == server' = [server EXCEPT ![s] = Down]

Start(s) ==
    /\ At(s, "down")
    /\ server' = [server EXCEPT ![s].stage = "finding"]
    /\ UNCHANGED <<users, copies, faults>>

\* Mutant: the account is not looked for.
FindNobody(s) ==
    /\ At(s, "finding") /\ server[s].account \in Accounts
    /\ server' = [server EXCEPT ![s].stage = "creating"]
    /\ UNCHANGED <<users, copies, faults>>

FindUser(s) ==
    /\ At(s, "finding") /\ server[s].account \in Accounts
    /\ server' = IF server[s].account \in users
                 THEN [server EXCEPT ![s].account = @ + 1]
                 ELSE [server EXCEPT ![s].stage = "creating"]
    /\ UNCHANGED <<users, copies, faults>>

\* The username is unique: whoever comes second fails.
CreateUser(s) ==
    /\ At(s, "creating")
    /\ \/ /\ server[s].account \in users
          /\ Exit(s)
          /\ UNCHANGED users
       \/ /\ server[s].account \notin users
          /\ users' = users \union {server[s].account}
          /\ server' = [server EXCEPT ![s].stage = "finding", ![s].account = @ + 1]
    /\ UNCHANGED <<copies, faults>>

CountAnchors(s) ==
    /\ At(s, "finding") /\ server[s].account \notin Accounts
    /\ server' = [server EXCEPT ![s].stage =
                    IF copies[Anchors] > 0 THEN "serving" ELSE "seeding"]
    /\ UNCHANGED <<users, copies, faults>>

\* Another server's open transaction has inserted the part already: the
\* unique codes make this one wait for its end.
Busy(s, part) ==
    \E t \in Servers \ {s} : At(t, "seeding") /\ server[t].inserted >= part

Taken(part) == copies[part] > 0

\* Mutant: seedDomain is not given the transaction.
InsertOutsideTransaction(s) ==
    LET part == server[s].inserted + 1
    IN  /\ At(s, "seeding") /\ part \in Parts
        /\ server' = [server EXCEPT ![s].inserted = part]
        /\ copies' = [copies EXCEPT ![part] = @ + 1]
        /\ UNCHANGED <<users, faults>>

\* The next tx.Create of seedDomain.
InsertPart(s) ==
    LET part == server[s].inserted + 1
    IN  /\ At(s, "seeding") /\ part \in Parts
        /\ ~ Busy(s, part)
        /\ \/ Taken(part) /\ Exit(s)
           \/ ~ Taken(part) /\ server' = [server EXCEPT ![s].inserted = part]
        /\ UNCHANGED <<users, copies, faults>>

CommitSeed(s) ==
    /\ At(s, "seeding") /\ server[s].inserted = NParts
    /\ copies' = [part \in Parts |-> copies[part] + 1]
    /\ server' = [server EXCEPT ![s].stage = "serving"]
    /\ UNCHANGED <<users, faults>>

\* The process is killed, or loses the database while it comes up.
Stop(s) ==
    /\ ~ At(s, "down")
    /\ faults < MaxFaults
    /\ faults' = faults + 1
    /\ Exit(s)
    /\ UNCHANGED <<users, copies>>

ComeUp(s) ==
    \/ Start(s) \/ FindUser(s) \/ CreateUser(s)
    \/ CountAnchors(s) \/ InsertPart(s) \/ CommitSeed(s)

----------------------------------------------------------------------------
(* Properties *)

\* Accounts are committed one by one and the domain all at once: whatever
\* servers raced and wherever one of them stopped, the domain is there whole
\* or not at all, at most once and only when every account is, and a server
\* that answers requests finds all of it.
SeedWholeAndOnce ==
    /\ \A part \in Parts : copies[part] = copies[Anchors] /\ copies[part] <= 1
    /\ copies[Anchors] = 1 => users = Accounts
    /\ \A s \in Servers : At(s, "serving") \/ At(s, "draining") => copies[Anchors] = 1
=============================================================================
