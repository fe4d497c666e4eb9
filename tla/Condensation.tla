---------------------------- MODULE Condensation ----------------------------
(***************************************************************************)
(* What strongly_connected_components promises: the components of the      *)
(* source graph come out one at a time, each after everything it depends   *)
(* on, until every package is in one.                                      *)
(***************************************************************************)
EXTENDS Naturals, Sequences, FiniteSets

CONSTANTS Sources,   \* source packages; a number is a name's place in sorted order
          Graphs     \* the graphs to condense

ASSUME SourcesAssumption == Sources \subseteq Nat /\ IsFiniteSet(Sources)
ASSUME GraphsAssumption  == Graphs \subseteq [Sources -> SUBSET Sources]

VARIABLES graph, comps

\* Everything reachable from n, n included: the least set closed under edges.
Closed(g, S) == \A x \in S : g[x] \subseteq S
Reach(g) == [n \in DOMAIN g |->
               {x \in DOMAIN g : \A S \in SUBSET DOMAIN g :
                                    n \in S /\ Closed(g, S) => x \in S}]

Component(r, n) == {x \in r[n] : n \in r[x]}

Emitted == UNION {comps[i] : i \in DOMAIN comps}

CInit == graph \in Graphs /\ comps = <<>>

\* One more component, all of whose dependencies are out already.
Emit(n, r) ==
  /\ n \notin Emitted
  /\ r[n] \subseteq Emitted \cup Component(r, n)
  /\ comps' = Append(comps, Component(r, n))
  /\ UNCHANGED graph

CNext == \E r \in {Reach(graph)} : \E n \in Sources : Emit(n, r)

CSpec == CInit /\ [][CNext]_<<graph, comps>> /\ WF_<<graph, comps>>(CNext)
=============================================================================
