---------------------------- MODULE CycleSearch ----------------------------
(***************************************************************************)
(* The depth-first search for a dependency cycle, one call or return of    *)
(* visit at a time.  The program holds it twice: detectCycle runs over the *)
(* services of a frozen snapshot, servicesContainCycle over the stored     *)
(* services and refuses an edge to a service it does not know.  The roots  *)
(* are the keys of a map, which Go serves in any order; the edges of one   *)
(* node may come in any order here.                                        *)
(***************************************************************************)
EXTENDS DependencyGraphs, Naturals, Sequences

CONSTANTS
    Nodes,   \* service ids, known or merely named as a dependency
    Graphs   \* the graphs searched: known service -> the set it depends on

ASSUME GraphsAssumption ==
    \A graph \in Graphs :
        /\ DOMAIN graph \subseteq Nodes
        /\ graph \in [DOMAIN graph -> SUBSET Nodes]

VARIABLES
    edges,    \* the graph being searched
    strict,   \* is it servicesContainCycle, which refuses unknown services?
    roots,    \* the known services the outer loop has not visited yet
    state,    \* the colour of each node: 0, 1 and 2 in the code
    stack,    \* the calls of visit that are open, the outermost first
    verdict

vars == <<edges, strict, roots, state, stack, verdict>>

Frame == [id : Nodes, todo : SUBSET Nodes]

\* Colours, open calls and roots left always have their types.
TypeOK ==
    /\ edges \in Graphs
    /\ strict \in BOOLEAN
    /\ roots \subseteq DOMAIN edges
    /\ state \in [Nodes -> {"unvisited", "visiting", "visited"}]
    /\ stack \in Seq(Frame)
    /\ verdict \in {"searching", "acyclic", "cyclic", "unknown"}

Init ==
    /\ edges \in Graphs
    /\ strict \in BOOLEAN
    /\ roots = DOMAIN edges
    /\ state = [n \in Nodes |-> "unvisited"]
    /\ stack = <<>>
    /\ verdict = "searching"

\* A missing key reads as an empty list.
EdgesOf(n) == IF n \in DOMAIN edges THEN edges[n] ELSE {}

\* Mutant: the node is not marked when its visit begins.
VisitUnmarked(n, open) ==
    /\ stack' = Append(open, [id |-> n, todo |-> EdgesOf(n)])
    /\ UNCHANGED <<state, verdict>>

\* visit(n), called from the frames in open.
Visit(n, open) ==
    \/ /\ state[n] = "visiting"
       /\ verdict' = "cyclic"
       /\ stack' = <<>>
       /\ UNCHANGED state
    \/ /\ state[n] = "visited"
       /\ stack' = open
       /\ UNCHANGED <<state, verdict>>
    \/ /\ state[n] = "unvisited"
       /\ state' = [state EXCEPT ![n] = "visiting"]
       /\ stack' = Append(open, [id |-> n, todo |-> EdgesOf(n)])
       /\ UNCHANGED verdict

\* for id := range edges: visit the next root.
NextRoot(n) ==
    /\ verdict = "searching" /\ stack = <<>>
    /\ n \in roots
    /\ roots' = roots \ {n}
    /\ Visit(n, stack)
    /\ UNCHANGED <<edges, strict>>

Top == stack[Len(stack)]

\* The open calls, the top one having gone on to its dependency n.
Advanced(n) == [stack EXCEPT ![Len(stack)].todo = @ \ {n}]

\* for next := range edges[id]: visit the next dependency of the top frame.
NextEdge(n) ==
    /\ verdict = "searching" /\ stack # <<>>
    /\ n \in Top.todo
    /\ UNCHANGED <<edges, strict, roots>>
    /\ \/ /\ strict /\ n \notin DOMAIN edges
          /\ verdict' = "unknown"
          /\ stack' = <<>>
          /\ UNCHANGED state
       \/ /\ ~ strict \/ n \in DOMAIN edges
          /\ Visit(n, Advanced(n))

\* Mutant: the node stays marked as being visited.
ReturnStillVisiting ==
    /\ verdict = "searching" /\ stack # <<>>
    /\ Top.todo = {}
    /\ stack' = SubSeq(stack, 1, Len(stack) - 1)
    /\ UNCHANGED <<edges, strict, roots, state, verdict>>

\* Every dependency of the top frame was visited: the call returns.
Return ==
    /\ verdict = "searching" /\ stack # <<>>
    /\ Top.todo = {}
    /\ state' = [state EXCEPT ![Top.id] = "visited"]
    /\ stack' = SubSeq(stack, 1, Len(stack) - 1)
    /\ UNCHANGED <<edges, strict, roots, verdict>>

\* Every root was visited.
Finish ==
    /\ verdict = "searching" /\ stack = <<>>
    /\ roots = {}
    /\ verdict' = "acyclic"
    /\ UNCHANGED <<edges, strict, roots, state, stack>>

Next == (\E n \in Nodes : NextRoot(n) \/ NextEdge(n)) \/ Return \/ Finish

Spec == Init /\ [][Next]_vars

----------------------------------------------------------------------------
(* Properties *)

\* The search decides: it reports a cycle only when there is one, none only
\* when there is none, and an unknown dependency only when one is named and
\* that is refused, in whatever order roots and edges come.
VerdictRight ==
    /\ verdict = "cyclic"  => ~ Acyclic(edges)
    /\ verdict = "acyclic" => Acyclic(edges)
    /\ verdict = "unknown" =>
          strict /\ \E n \in DOMAIN edges : edges[n] \ DOMAIN edges # {}

----------------------------------------------------------------------------
(* The inductive invariant *)

Visited == {n \in Nodes : state[n] = "visited"}

\* The open calls are the nodes being visited, each called from the one below
\* it, and what they have left behind was visited or is the call above.
StackHolds ==
    /\ \A n \in Nodes : verdict = "searching" =>
          (state[n] = "visiting" <=> \E i \in 1 .. Len(stack) : stack[i].id = n)
    /\ \A i, j \in 1 .. Len(stack) : stack[i].id = stack[j].id => i = j
    /\ \A i \in 1 .. Len(stack) :
          /\ stack[i].todo \subseteq EdgesOf(stack[i].id)
          /\ EdgesOf(stack[i].id) \ stack[i].todo \subseteq
                Visited \union
                (IF i < Len(stack) THEN {stack[i + 1].id} ELSE {})
          /\ i < Len(stack) => stack[i + 1].id \in EdgesOf(stack[i].id)

\* What was visited depends on visited nodes only, and lies on no cycle.
VisitedHolds ==
    /\ \A n \in Visited : EdgesOf(n) \subseteq Visited
    /\ \A S \in SUBSET Visited :
          S # {} => \E n \in S : EdgesOf(n) \intersect S = {}

\* A root is left out of the loop once its visit has begun.
RootsHold ==
    verdict = "searching" =>
        DOMAIN edges \ roots \subseteq
            Visited \union (IF stack = <<>> THEN {} ELSE {stack[1].id})

IInv == TypeOK /\ StackHolds /\ VisitedHolds /\ RootsHold /\ VerdictRight
=============================================================================
