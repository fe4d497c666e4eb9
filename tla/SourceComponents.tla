-------------------------- MODULE SourceComponents --------------------------
(***************************************************************************)
(* strongly_connected_components of tools/depgraph.py: Tarjan's algorithm  *)
(* without recursion.  `work` is the explicit call stack; the iterator of  *)
(* a work item is the set of neighbours still to visit, taken in order.    *)
(***************************************************************************)
EXTENDS Condensation, Integers, FiniteSets, SequencesExt

VARIABLES index_of, low,   \* -1 until a package is visited
          stack,           \* visited and not yet in a component
          work             \* Seq of [node, rest]

scc == <<index_of, low, stack, work>>

Unseen(n)   == index_of[n] = -1
OnStack(n)  == n \in Range(stack)
Least(a, b) == IF a < b THEN a ELSE b
First(S)    == CHOOSE x \in S : \A y \in S : x <= y
counter     == Cardinality({n \in Sources : ~Unseen(n)})
Top         == work[Len(work)]

SccInit ==
  /\ CInit
  /\ index_of = [n \in Sources |-> -1]
  /\ low = [n \in Sources |-> -1]
  /\ stack = <<>>
  /\ work = <<>>

\* A package is numbered, stacked, and its neighbours are queued on `calls`.
Number(n, calls) ==
  /\ index_of' = [index_of EXCEPT ![n] = counter]
  /\ low' = [low EXCEPT ![n] = counter]
  /\ stack' = Append(stack, n)
  /\ work' = Append(calls, [node |-> n, rest |-> graph[n]])
  /\ UNCHANGED <<graph, comps>>

\* The outer loop: the first package in sorted order not visited yet.
StartRoot ==
  /\ work = <<>>
  /\ \E n \in Sources : Unseen(n)
  /\ Number(First({n \in Sources : Unseen(n)}), work)

\* The neighbour the iterator yields next, and the call stack without it.
Neighbour == First(Top.rest)

Consumed == [work EXCEPT ![Len(work)].rest = @ \ {Neighbour}]

Descend ==
  /\ work # <<>>
  /\ Top.rest # {}
  /\ Unseen(Neighbour)
  /\ Number(Neighbour, Consumed)

\* Mutation: a neighbour in a closed component still lowers the link.
CrossAnyVisited ==
  /\ work # <<>>
  /\ Top.rest # {}
  /\ ~Unseen(Neighbour)
  /\ low' = [low EXCEPT ![Top.node] = Least(@, index_of[Neighbour])]
  /\ work' = Consumed
  /\ UNCHANGED <<graph, comps, index_of, stack>>

Cross ==
  /\ work # <<>>
  /\ Top.rest # {}
  /\ ~Unseen(Neighbour)
  /\ low' = IF OnStack(Neighbour)
            THEN [low EXCEPT ![Top.node] = Least(@, index_of[Neighbour])]
            ELSE low
  /\ work' = Consumed
  /\ UNCHANGED <<graph, comps, index_of, stack>>

\* The parent, if there is one, learns how far back its child could reach.
Pulled(calls, node) ==
  IF calls = <<>> THEN low
  ELSE [low EXCEPT ![calls[Len(calls)].node] = Least(@, low[node])]

\* A package that reaches nothing older closes a component: everything stacked
\* since it was numbered.
IsRoot(node) == low[node] = index_of[node]

Above(node) == {i \in DOMAIN stack : \E j \in 1..i : stack[j] = node}

Retreat ==
  /\ work # <<>>
  /\ Top.rest = {}
  /\ low' = Pulled(Front(work), Top.node)
  /\ work' = Front(work)
  /\ IF IsRoot(Top.node)
     THEN /\ comps' = Append(comps, {stack[i] : i \in Above(Top.node)})
          /\ stack' = SubSeq(stack, 1, Len(stack) - Cardinality(Above(Top.node)))
     ELSE UNCHANGED <<comps, stack>>
  /\ UNCHANGED <<graph, index_of>>

\* What the function returns, comps, is complete.
Finished == work = <<>> /\ \A n \in Sources : ~Unseen(n)

SccStep == StartRoot \/ Descend \/ Cross \/ Retreat
=============================================================================
