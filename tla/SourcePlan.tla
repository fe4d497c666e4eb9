----------------------------- MODULE SourcePlan -----------------------------
(***************************************************************************)
(* plan_build_order and what follows it, with the algorithm that finds the *)
(* cycles in the place of its promise: BuildGraph orders by Condensation,  *)
(* here SourceComponents runs Tarjan's algorithm on the projected graph,   *)
(* one step of its loop at a time.                                         *)
(***************************************************************************)
EXTENDS BuildGraph, SourceComponents

planvars == <<vars, scc>>

SInit == Init /\ SccInit

\* find_cycles: a step of strongly_connected_components.
FindCycles == /\ phase = "order" /\ SccStep
              /\ UNCHANGED <<inp, staged, targets, phase>>

\* It has returned; the cycles are staged, and the lockfile's calls made.
Stage  == Finished /\ Plan /\ UNCHANGED scc
DefineCalls == Define /\ UNCHANGED scc

SNext == FindCycles \/ Stage \/ DefineCalls \/ (Evaluated /\ UNCHANGED scc)
SSpec == SInit /\ [][SNext]_planvars /\ WF_planvars(SNext)

\* The algorithm delivers what the planner relies on: exactly the classes of
\* mutually dependent packages, each after everything it depends on, and in
\* the end every package is in one. (strongly_connected_components)
Promise == INSTANCE Condensation
           WITH Sources <- Sources, Graphs <- Graphs, graph <- graph, comps <- comps
Condenses == Promise!CSpec
=============================================================================
