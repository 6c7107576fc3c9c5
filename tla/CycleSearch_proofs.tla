------------------------ MODULE CycleSearch_proofs ------------------------
(***************************************************************************)
(* The depth-first search decides whether a dependency graph has a cycle,  *)
(* for every graph.  A visited node depends on visited nodes only, so a    *)
(* set of visited nodes with a new one in it still has a member where the  *)
(* search would end; and the calls open above a node being visited are the *)
(* cycle it closes when it is met again.                                   *)
(***************************************************************************)
EXTENDS CycleSearch, TLAPS

\* The call on top of a stack may be replaced by one with less to do.
LEMMA TopReduced ==
    ASSUME TypeOK, StackHolds, verdict = "searching", stack # <<>>,
           NEW n \in Top.todo
    PROVE  LET open == Advanced(n)
           IN  /\ open \in Seq(Frame) /\ Len(open) = Len(stack)
               /\ \A i \in 1 .. Len(stack) :
                     /\ open[i].id = stack[i].id
                     /\ i = Len(stack) => open[i].todo = stack[i].todo \ {n}
                     /\ i # Len(stack) => open[i].todo = stack[i].todo
               /\ n \in EdgesOf(Top.id) /\ n \in Nodes /\ Top.id \in DOMAIN edges
<1>1. /\ Len(stack) \in Nat /\ Len(stack) >= 1
      /\ \A i \in 1 .. Len(stack) : stack[i] \in Frame
    BY DEF TypeOK
<1>0. DOMAIN stack = 1 .. Len(stack)
    BY DEF TypeOK
<1>2. Top \in Frame /\ Top.todo \subseteq EdgesOf(Top.id)
    BY <1>1 DEF Top, StackHolds
<1>3. n \in Nodes /\ n \in EdgesOf(Top.id) /\ Top.id \in DOMAIN edges
    BY <1>2 DEF Frame, EdgesOf
<1> DEFINE open == Advanced(n)
<1>4. /\ DOMAIN open = 1 .. Len(stack)
      /\ \A i \in 1 .. Len(stack) :
            /\ i = Len(stack) => open[i] = [stack[i] EXCEPT !.todo = @ \ {n}]
            /\ i # Len(stack) => open[i] = stack[i]
    BY <1>0, <1>1 DEF Advanced
<1>5. \A i \in 1 .. Len(stack) :
            /\ open[i] \in Frame
            /\ open[i].id = stack[i].id
            /\ i = Len(stack) => open[i].todo = stack[i].todo \ {n}
            /\ i # Len(stack) => open[i].todo = stack[i].todo
    BY <1>1, <1>4 DEF Frame
<1>6. open = [i \in 1 .. Len(stack) |-> open[i]]
    BY <1>4 DEF Advanced
<1>7. open \in Seq(Frame) /\ Len(open) = Len(stack)
    <2> HIDE DEF open
    <2>1. \A k \in Nat : \A f \in [1 .. k -> Frame] : f \in Seq(Frame) /\ Len(f) = k
        OBVIOUS
    <2>2. open \in [1 .. Len(stack) -> Frame]
        BY <1>5, <1>6
    <2> QED
        BY <1>1, <2>1, <2>2
<1> QED
    BY <1>3, <1>4, <1>5, <1>7

\* The open calls when one of them is about to call visit(n).
Calls(open, n) ==
    /\ open \in Seq(Frame)
    /\ \A m \in Nodes :
          state[m] = "visiting" <=> \E i \in 1 .. Len(open) : open[i].id = m
    /\ \A i, j \in 1 .. Len(open) : open[i].id = open[j].id => i = j
    /\ \A i \in 1 .. Len(open) :
          LET next == IF i < Len(open) THEN open[i + 1].id ELSE n
          IN  /\ open[i].todo \subseteq EdgesOf(open[i].id)
              /\ EdgesOf(open[i].id) \ open[i].todo \subseteq Visited \union {next}
              /\ next \in EdgesOf(open[i].id)

\* A call of visit met again on the stack closes a cycle.
LEMMA CycleClosed ==
    ASSUME TypeOK, NEW n \in Nodes, NEW open, Calls(open, n),
           state[n] = "visiting"
    PROVE  ~ Acyclic(edges)
<1>1. PICK k \in 1 .. Len(open) : open[k].id = n
    BY DEF Calls
<1>2. Len(open) \in Nat /\ \A i \in 1 .. Len(open) : open[i] \in Frame
    BY DEF Calls
<1> DEFINE S == {open[i].id : i \in k .. Len(open)}
<1>3. ASSUME NEW i \in k .. Len(open)
      PROVE  /\ open[i].id \in DOMAIN edges
             /\ edges[open[i].id] \intersect S # {}
    <2>1. i \in 1 .. Len(open)
        BY <1>2
    <2>2. PICK next \in S : next \in EdgesOf(open[i].id)
        <3>1. CASE i < Len(open)
            <4>1. i + 1 \in k .. Len(open) /\ open[i + 1].id \in EdgesOf(open[i].id)
                BY <1>2, <2>1, <3>1 DEF Calls
            <4> QED
                BY <4>1
        <3>2. CASE ~ i < Len(open)
            <4>1. n \in EdgesOf(open[i].id)
                BY <2>1, <3>2 DEF Calls
            <4>2. k \in k .. Len(open)
                BY <1>2
            <4> QED
                BY <1>1, <4>1, <4>2
        <3> QED
            BY <3>1, <3>2
    <2> QED
        BY <2>2 DEF EdgesOf
<1>4. S \in SUBSET DOMAIN edges /\ n \in S
    <2>1. k \in k .. Len(open)
        BY <1>2
    <2> QED
        BY <1>1, <1>3, <2>1
<1>5. \A m \in S : edges[m] \intersect S # {}
    BY <1>3
<1> QED
    <2> HIDE DEF S
    <2> QED
        BY <1>4, <1>5 DEF Acyclic

\* A call of visit keeps the invariant.
LEMMA VisitKeeps ==
    ASSUME TypeOK, VisitedHolds, verdict = "searching",
           NEW n \in Nodes, NEW open, Calls(open, n),
           Visit(n, open), UNCHANGED <<edges, strict>>
    PROVE  /\ state' \in [Nodes -> {"unvisited", "visiting", "visited"}]
           /\ stack' \in Seq(Frame)
           /\ StackHolds' /\ VisitedHolds' /\ Visited' = Visited
           /\ \/ verdict' = "cyclic" /\ ~ Acyclic(edges)
              \/ /\ verdict' = "searching"
                 /\ open = <<>> => n \in Visited \/ (stack' # <<>> /\ stack'[1].id = n)
                 /\ open # <<>> => stack' # <<>> /\ stack'[1].id = open[1].id
<1>1. /\ Len(open) \in Nat /\ open \in Seq(Frame)
      /\ \A i \in 1 .. Len(open) : open[i] \in Frame
    BY DEF Calls
<1>2. CASE state[n] = "visiting" /\ verdict' = "cyclic" /\ stack' = <<>> /\ UNCHANGED state
    <2>1. ~ Acyclic(edges)
        BY <1>2, CycleClosed
    <2>2. Visited' = Visited /\ VisitedHolds'
        BY <1>2 DEF Visited, VisitedHolds, EdgesOf
    <2>3. StackHolds'
        BY <1>2 DEF StackHolds
    <2> QED
        BY <1>2, <2>1, <2>2, <2>3 DEF TypeOK
<1>3. CASE state[n] = "visited" /\ stack' = open /\ UNCHANGED <<state, verdict>>
    <2>1. Visited' = Visited /\ VisitedHolds' /\ n \in Visited
        BY <1>3 DEF Visited, VisitedHolds, EdgesOf
    <2>2. StackHolds'
        <3>1. \A m : EdgesOf(m)' = EdgesOf(m)
            BY DEF EdgesOf
        <3>2. \A i \in 1 .. Len(open) :
                 /\ open[i].todo \subseteq EdgesOf(open[i].id)
                 /\ EdgesOf(open[i].id) \ open[i].todo \subseteq
                      Visited \union (IF i < Len(open) THEN {open[i + 1].id} ELSE {})
                 /\ i < Len(open) => open[i + 1].id \in EdgesOf(open[i].id)
            BY <1>1, <2>1 DEF Calls
        <3>3. /\ \A m \in Nodes :
                   state[m] = "visiting" <=> \E i \in 1 .. Len(open) : open[i].id = m
              /\ \A i, j \in 1 .. Len(open) : open[i].id = open[j].id => i = j
            BY DEF Calls
        <3> QED
            BY <1>1, <1>3, <2>1, <3>1, <3>2, <3>3 DEF StackHolds
    <2>3. open # <<>> => Len(open) >= 1
        BY <1>1
    <2> QED
        BY <1>1, <1>3, <2>1, <2>2 DEF TypeOK
<1>4. CASE /\ state[n] = "unvisited"
           /\ state' = [state EXCEPT ![n] = "visiting"]
           /\ stack' = Append(open, [id |-> n, todo |-> EdgesOf(n)])
           /\ UNCHANGED verdict
    <2> DEFINE new == [id |-> n, todo |-> EdgesOf(n)]
    <2>1. Visited' = Visited /\ VisitedHolds'
        BY <1>4 DEF Visited, VisitedHolds, EdgesOf, TypeOK
    <2>2. EdgesOf(n) \subseteq Nodes
        BY GraphsAssumption DEF EdgesOf, TypeOK
    <2>3. new \in Frame
        BY <2>2 DEF Frame
    <2>4. /\ stack' \in Seq(Frame) /\ Len(stack') = Len(open) + 1
          /\ stack'[Len(open) + 1] = new
          /\ \A i \in 1 .. Len(open) : stack'[i] = open[i]
        <3> HIDE DEF new
        <3> QED
            BY <1>1, <1>4, <2>3 DEF new
    <2>5. \A i \in 1 .. Len(open) : open[i].id # n
        BY <1>4 DEF Calls
    <2>6. StackHolds'
        <3>1. \A m \in Nodes :
                 state'[m] = "visiting" <=> \E i \in 1 .. Len(stack') : stack'[i].id = m
            <4> SUFFICES ASSUME NEW m \in Nodes
                PROVE state'[m] = "visiting" <=> \E i \in 1 .. Len(open) + 1 : stack'[i].id = m
                BY <2>4
            <4>1. state[m] = "visiting" <=> \E i \in 1 .. Len(open) : open[i].id = m
                BY DEF Calls
            <4>2. state'[m] = IF m = n THEN "visiting" ELSE state[m]
                BY <1>4 DEF TypeOK
            <4>3. (\E i \in 1 .. Len(open) + 1 : stack'[i].id = m)
                     <=> m = n \/ \E i \in 1 .. Len(open) : open[i].id = m
                <5>1. \A i \in 1 .. Len(open) + 1 :
                        i \in 1 .. Len(open) \/ i = Len(open) + 1
                    BY <1>1
                <5>2. /\ Len(open) + 1 \in 1 .. Len(open) + 1
                      /\ 1 .. Len(open) \subseteq 1 .. Len(open) + 1
                    BY <1>1
                <5> QED
                    BY <2>4, <5>1, <5>2
            <4> QED
                BY <4>1, <4>2, <4>3
        <3>2. \A i, j \in 1 .. Len(stack') : stack'[i].id = stack'[j].id => i = j
            <4>1. \A i, j \in 1 .. Len(open) : open[i].id = open[j].id => i = j
                BY DEF Calls
            <4> QED
                BY <1>1, <2>4, <2>5, <4>1
        <3>3. ASSUME NEW i \in 1 .. Len(stack')
              PROVE  /\ stack'[i].todo \subseteq EdgesOf(stack'[i].id)
                     /\ EdgesOf(stack'[i].id) \ stack'[i].todo \subseteq
                          Visited \union
                          (IF i < Len(stack') THEN {stack'[i + 1].id} ELSE {})
                     /\ i < Len(stack') => stack'[i + 1].id \in EdgesOf(stack'[i].id)
            <4>1. CASE i = Len(open) + 1
                BY <1>1, <2>4, <4>1
            <4>2. CASE i \in 1 .. Len(open)
                <5> DEFINE next == IF i < Len(open) THEN open[i + 1].id ELSE n
                <5>1. stack'[i] = open[i] /\ stack'[i + 1].id = next /\ i < Len(stack')
                    BY <1>1, <2>4, <4>2
                <5>2. /\ open[i].todo \subseteq EdgesOf(open[i].id)
                      /\ EdgesOf(open[i].id) \ open[i].todo \subseteq Visited \union {next}
                      /\ next \in EdgesOf(open[i].id)
                    BY <4>2 DEF Calls
                <5> HIDE DEF next
                <5> QED
                    BY <5>1, <5>2
            <4> QED
                BY <1>1, <2>4, <4>1, <4>2
        <3>4. \A m : EdgesOf(m)' = EdgesOf(m)
            BY DEF EdgesOf
        <3> QED
            BY <2>1, <3>1, <3>2, <3>3, <3>4 DEF StackHolds, EdgesOf
    <2>7. stack' # <<>> /\ stack'[1].id = (IF open = <<>> THEN n ELSE open[1].id)
        <3>1. open = <<>> <=> Len(open) = 0
            BY <1>1
        <3> QED
            BY <1>1, <2>4, <3>1
    <2> QED
        BY <1>4, <2>1, <2>4, <2>6, <2>7 DEF TypeOK
<1> QED
    BY <1>2, <1>3, <1>4 DEF Visit

----------------------------------------------------------------------------
(* One lemma per action *)

LEMMA NextRootKeeps ==
    ASSUME IInv, NEW n \in Nodes, NextRoot(n)
    PROVE  IInv'
<1>1. Calls(stack, n)
    BY DEF IInv, StackHolds, NextRoot, TypeOK, Calls
<1>2. /\ state' \in [Nodes -> {"unvisited", "visiting", "visited"}]
      /\ stack' \in Seq(Frame)
      /\ StackHolds' /\ VisitedHolds' /\ Visited' = Visited
      /\ \/ verdict' = "cyclic" /\ ~ Acyclic(edges)
         \/ /\ verdict' = "searching"
            /\ n \in Visited \/ (stack' # <<>> /\ stack'[1].id = n)
    BY <1>1, VisitKeeps DEF IInv, NextRoot
<1>3. TypeOK'
    BY <1>2 DEF IInv, TypeOK, NextRoot
<1>4. RootsHold'
    BY <1>2 DEF IInv, RootsHold, NextRoot
<1>5. VerdictRight'
    BY <1>2 DEF VerdictRight, NextRoot
<1> QED
    BY <1>2, <1>3, <1>4, <1>5 DEF IInv

LEMMA NextEdgeKeeps ==
    ASSUME IInv, NEW n \in Nodes, NextEdge(n)
    PROVE  IInv'
<1> USE DEF IInv
<1> DEFINE open == Advanced(n)
<1>1. /\ open \in Seq(Frame) /\ Len(open) = Len(stack)
      /\ \A i \in 1 .. Len(stack) :
            /\ open[i].id = stack[i].id
            /\ i = Len(stack) => open[i].todo = stack[i].todo \ {n}
            /\ i # Len(stack) => open[i].todo = stack[i].todo
      /\ n \in EdgesOf(Top.id) /\ n \in Nodes /\ Top.id \in DOMAIN edges
    BY TopReduced DEF NextEdge
<1> HIDE DEF open
<1>2. Len(stack) \in Nat /\ Len(stack) >= 1 /\ Len(open) = Len(stack)
    BY <1>1 DEF TypeOK, NextEdge
<1>5. \A i \in 1 .. Len(stack) :
            /\ open[i].id = stack[i].id
            /\ i = Len(stack) => open[i].todo = stack[i].todo \ {n}
            /\ i # Len(stack) => open[i].todo = stack[i].todo
    BY <1>1
<1>6. open \in Seq(Frame) /\ n \in EdgesOf(Top.id)
    BY <1>1
<1>3. CASE strict /\ n \notin DOMAIN edges /\ verdict' = "unknown" /\ stack' = <<>>
           /\ UNCHANGED state
    <2>1. Visited' = Visited /\ VisitedHolds'
        BY <1>3 DEF Visited, VisitedHolds, EdgesOf, NextEdge
    <2>2. VerdictRight'
        <3>1. n \in edges[Top.id] \ DOMAIN edges /\ Top.id \in DOMAIN edges
            BY <1>1, <1>3 DEF EdgesOf
        <3> QED
            BY <1>3, <3>1 DEF VerdictRight, NextEdge
    <2>3. TypeOK' /\ StackHolds' /\ RootsHold'
        BY <1>3 DEF TypeOK, StackHolds, RootsHold, NextEdge
    <2> QED
        BY <2>1, <2>2, <2>3
<1>4. CASE Visit(n, open)
    <2>1. Calls(open, n)
        <3>1. \A m \in Nodes :
                 state[m] = "visiting" <=> \E i \in 1 .. Len(open) : open[i].id = m
            BY <1>2, <1>5 DEF StackHolds, NextEdge
        <3>2. \A i, j \in 1 .. Len(open) : open[i].id = open[j].id => i = j
            BY <1>2, <1>5 DEF StackHolds
        <3>3. ASSUME NEW i \in 1 .. Len(open)
              PROVE  LET next == IF i < Len(open) THEN open[i + 1].id ELSE n
                     IN  /\ open[i].todo \subseteq EdgesOf(open[i].id)
                         /\ EdgesOf(open[i].id) \ open[i].todo
                              \subseteq Visited \union {next}
                         /\ next \in EdgesOf(open[i].id)
            <4>1. /\ stack[i].todo \subseteq EdgesOf(stack[i].id)
                  /\ EdgesOf(stack[i].id) \ stack[i].todo \subseteq
                        Visited \union
                        (IF i < Len(stack) THEN {stack[i + 1].id} ELSE {})
                  /\ i < Len(stack) => stack[i + 1].id \in EdgesOf(stack[i].id)
                BY <1>2, <1>5 DEF StackHolds
            <4>2. CASE i < Len(stack)
                <5>1. i + 1 \in 1 .. Len(stack)
                    BY <1>2, <1>5, <4>2
                <5>2. /\ open[i].id = stack[i].id /\ open[i].todo = stack[i].todo
                      /\ open[i + 1].id = stack[i + 1].id
                    BY <1>2, <1>5, <4>2, <5>1
                <5> QED
                    BY <1>2, <1>5, <4>1, <4>2, <5>2
            <4>3. CASE ~ i < Len(stack)
                <5>1. i = Len(stack) /\ Top.id = stack[i].id
                    BY <1>2, <1>5, <4>3 DEF Top
                <5>2. open[i].id = stack[i].id /\ open[i].todo = stack[i].todo \ {n}
                    BY <1>2, <1>5, <5>1
                <5> QED
                    BY <1>2, <1>6, <4>1, <4>3, <5>1, <5>2
            <4> QED
                BY <4>2, <4>3
        <3> QED
            BY <1>2, <1>6, <3>1, <3>2, <3>3 DEF Calls
    <2>2. open # <<>>
        BY <1>2, <1>5
    <2>3. /\ state' \in [Nodes -> {"unvisited", "visiting", "visited"}]
          /\ stack' \in Seq(Frame)
          /\ StackHolds' /\ VisitedHolds' /\ Visited' = Visited
          /\ \/ verdict' = "cyclic" /\ ~ Acyclic(edges)
             \/ verdict' = "searching" /\ stack' # <<>> /\ stack'[1].id = open[1].id
        BY <1>4, <2>1, <2>2, VisitKeeps DEF NextEdge
    <2>4. TypeOK'
        BY <2>3 DEF TypeOK, NextEdge
    <2>5. RootsHold'
        <3>1. open[1].id = stack[1].id
            BY <1>2, <1>5
        <3> QED
            BY <2>3, <3>1 DEF RootsHold, NextEdge
    <2>6. VerdictRight'
        BY <2>3 DEF VerdictRight, NextEdge
    <2> QED
        BY <2>3, <2>4, <2>5, <2>6
<1> QED
    BY <1>3, <1>4 DEF NextEdge, open

\* The node a call returns from depends on visited nodes only, none of them
\* itself: the visited nodes and it still hold no cycle.
LEMMA ReturnKeeps ==
    ASSUME IInv, Return
    PROVE  IInv'
<1> USE DEF IInv
<1>1. /\ Len(stack) \in Nat /\ Len(stack) >= 1 
      /\ \A i \in 1 .. Len(stack) : stack[i] \in Frame
    BY DEF TypeOK, Return
<1> DEFINE last == Len(stack)
           id   == stack[last].id
<1>2. /\ id \in Nodes /\ state[id] = "visiting"
      /\ EdgesOf(id) \subseteq Visited /\ id \notin Visited
    <2>1. id \in Nodes /\ stack[last].todo = {}
        BY <1>1 DEF Frame, Return, Top
    <2>2. state[id] = "visiting"
        BY <1>1, <2>1 DEF StackHolds, Return
    <2>3. EdgesOf(id) \ stack[last].todo \subseteq
             Visited \union (IF last < Len(stack) THEN {stack[last + 1].id} ELSE {})
        BY <1>1 DEF StackHolds
    <2> QED
        BY <1>1, <2>1, <2>2, <2>3 DEF Visited
<1>3. /\ state' \in [Nodes -> {"unvisited", "visiting", "visited"}]
      /\ \A m \in Nodes : state'[m] = IF m = id THEN "visited" ELSE state[m]
    BY <1>2 DEF Return, Top, TypeOK
<1>4. Visited' = Visited \union {id}
    BY <1>2, <1>3 DEF Visited
<1>5. /\ stack' \in Seq(Frame) /\ Len(stack') = last - 1
      /\ \A i \in 1 .. last - 1 : stack'[i] = stack[i]
    <2>1. \A s \in Seq(Frame) : \A k \in Nat : k < Len(s) =>
             /\ SubSeq(s, 1, k) \in Seq(Frame) /\ Len(SubSeq(s, 1, k)) = k
             /\ \A i \in 1 .. k : SubSeq(s, 1, k)[i] = s[i]
        OBVIOUS
    <2>2. stack' = SubSeq(stack, 1, last - 1) /\ stack \in Seq(Frame)
        BY DEF Return, TypeOK
    <2>3. last - 1 \in Nat /\ last - 1 < Len(stack)
        BY <1>1
    <2> QED
        BY <2>1, <2>2, <2>3
<1>6. edges' = edges /\ \A m : EdgesOf(m)' = EdgesOf(m)
    BY DEF Return, EdgesOf
<1> HIDE DEF last, id
<1>7. VisitedHolds'
    <2>1. \A m \in Visited : EdgesOf(m) \subseteq Visited
        BY DEF VisitedHolds
    <2>2. ASSUME NEW S \in SUBSET (Visited \union {id}), S # {}
          PROVE  \E m \in S : EdgesOf(m) \intersect S = {}
        <3>1. CASE S \ {id} = {}
            <4>1. S = {id}
                BY <2>2, <3>1
            <4> QED
                BY <1>2, <4>1
        <3>2. CASE S \ {id} # {}
            <4>1. S \ {id} \in SUBSET Visited
                BY <2>2
            <4>2. PICK m \in S \ {id} : EdgesOf(m) \intersect (S \ {id}) = {}
                BY <3>2, <4>1 DEF VisitedHolds
            <4>3. id \notin EdgesOf(m)
                BY <1>2, <2>1, <4>1, <4>2
            <4> QED
                BY <4>2, <4>3
        <3> QED
            BY <3>1, <3>2
    <2>3. \A m \in Visited \union {id} : EdgesOf(m) \subseteq Visited \union {id}
        BY <1>2, <2>1
    <2> QED
        BY <1>4, <1>6, <2>2, <2>3 DEF VisitedHolds
<1>8. StackHolds'
    <2>1. \A m \in Nodes : state'[m] = "visiting" <=> \E i \in 1 .. Len(stack') : stack'[i].id = m
        <3> SUFFICES ASSUME NEW m \in Nodes
                     PROVE  state'[m] = "visiting"
                              <=> \E i \in 1 .. last - 1 : stack[i].id = m
            BY <1>5
        <3>1. state[m] = "visiting" <=> \E i \in 1 .. last : stack[i].id = m
            BY <1>1 DEF StackHolds, Return, last
        <3>2. \A i \in 1 .. last : stack[i].id = id <=> i = last
            BY <1>1 DEF StackHolds, last, id
        <3>3. (\E i \in 1 .. last - 1 : stack[i].id = m)
                <=> m # id /\ \E i \in 1 .. last : stack[i].id = m
            <4>1. \A i \in 1 .. last : i \in 1 .. last - 1 <=> i # last
                BY <1>1 DEF last
            <4>2. \A i \in 1 .. last - 1 : i \in 1 .. last
                BY <1>1 DEF last
            <4> QED
                BY <3>2, <4>1, <4>2
        <3> QED
            BY <1>3, <3>1, <3>3
    <2>2. \A i, j \in 1 .. Len(stack') : stack'[i].id = stack'[j].id => i = j
        BY <1>1, <1>5 DEF StackHolds, last
    <2>3. ASSUME NEW i \in 1 .. Len(stack')
          PROVE  /\ stack'[i].todo \subseteq EdgesOf(stack'[i].id)
                 /\ EdgesOf(stack'[i].id) \ stack'[i].todo \subseteq
                      Visited' \union
                      (IF i < Len(stack') THEN {stack'[i + 1].id} ELSE {})
                 /\ i < Len(stack') => stack'[i + 1].id \in EdgesOf(stack'[i].id)
        <3>1. i \in 1 .. last /\ i < last /\ stack'[i] = stack[i]
            BY <1>1, <1>5 DEF last
        <3>2. /\ stack[i].todo \subseteq EdgesOf(stack[i].id)
              /\ EdgesOf(stack[i].id) \ stack[i].todo \subseteq Visited \union {stack[i + 1].id}
              /\ stack[i + 1].id \in EdgesOf(stack[i].id)
            BY <1>1, <3>1 DEF StackHolds, last
        <3>3. CASE i = last - 1
            <4>1. stack[i + 1].id = id
                BY <1>1, <3>3 DEF last, id
            <4> QED
                BY <1>1, <1>4, <1>5, <3>1, <3>2, <3>3, <4>1 DEF last
        <3>4. CASE i # last - 1
            <4>1. i < Len(stack') /\ stack'[i + 1] = stack[i + 1]
                BY <1>1, <1>5, <3>1, <3>4 DEF last
            <4> QED
                BY <1>4, <3>1, <3>2, <4>1
        <3> QED
            BY <3>3, <3>4
    <2> QED
        BY <1>6, <2>1, <2>2, <2>3 DEF StackHolds
<1>9. RootsHold'
    <2>1. CASE last = 1
        <3>1. stack[1].id = id
            BY <2>1 DEF id
        <3> QED
            BY <1>1, <1>4, <1>6, <3>1 DEF RootsHold, Return
    <2>2. CASE last # 1
        <3>1. stack' # <<>> /\ stack'[1] = stack[1]
            BY <1>1, <1>5, <2>2 DEF last
        <3> QED
            BY <1>4, <1>6, <3>1 DEF RootsHold, Return
    <2> QED
        BY <2>1, <2>2
<1>10. TypeOK' /\ VerdictRight'
    BY <1>3, <1>5, <1>6 DEF TypeOK, VerdictRight, Return
<1> QED
    BY <1>7, <1>8, <1>9, <1>10

LEMMA FinishKeeps ==
    ASSUME IInv, Finish
    PROVE  IInv'
<1> USE DEF IInv
<1>1. Visited' = Visited /\ VisitedHolds'
    BY DEF Visited, VisitedHolds, EdgesOf, Finish
<1>2. Acyclic(edges)
    <2>1. DOMAIN edges \subseteq Visited
        BY DEF RootsHold, Finish
    <2>2. \A S \in SUBSET DOMAIN edges :
             S # {} => \E n \in S : EdgesOf(n) \intersect S = {}
        BY <2>1 DEF VisitedHolds
    <2> QED
        BY <2>2 DEF Acyclic, EdgesOf
<1>3. VerdictRight'
    BY <1>2 DEF VerdictRight, Finish
<1>4. TypeOK' /\ RootsHold'
    BY DEF TypeOK, RootsHold, Finish
<1>5. StackHolds'
    BY DEF StackHolds, Finish
<1> QED
    BY <1>1, <1>3, <1>4, <1>5

----------------------------------------------------------------------------
(* The theorems *)

\* The invariant of the search holds in every state of it.
THEOREM SearchInvariant == Spec => []IInv
<1>1. Init => IInv
    <2> SUFFICES ASSUME Init PROVE IInv
        OBVIOUS
    <2>1. TypeOK
        BY DEF Init, TypeOK
    <2>2. Visited = {} /\ StackHolds
        BY DEF Init, Visited, StackHolds
    <2>3. VisitedHolds /\ RootsHold /\ VerdictRight
        BY <2>2 DEF Init, VisitedHolds, RootsHold, VerdictRight
    <2> QED
        BY <2>1, <2>2, <2>3 DEF IInv
<1>2. IInv /\ [Next]_vars => IInv'
    <2> SUFFICES ASSUME IInv, [Next]_vars PROVE IInv'
        OBVIOUS
    <2>1. CASE UNCHANGED vars
        BY <2>1 DEF IInv, TypeOK, StackHolds, VisitedHolds, RootsHold,
                    VerdictRight, Visited, EdgesOf, vars
    <2> QED
        BY <2>1, NextRootKeeps, NextEdgeKeeps, ReturnKeeps, FinishKeeps DEF Next
<1> QED
    BY <1>1, <1>2, PTL DEF Spec

\* servicesContainCycle and detectCycle decide whether the services depend on
\* each other in a cycle, for every graph and every order of roots and edges.
THEOREM SearchDecides == Spec => []VerdictRight
<1>1. IInv => VerdictRight
    BY DEF IInv
<1> QED
    BY <1>1, SearchInvariant, PTL
=============================================================================
