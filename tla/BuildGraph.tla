----------------------------- MODULE BuildGraph -----------------------------
(***************************************************************************)
(* From resolved build requirements to the targets that are built: the     *)
(* source graph, the staging of its cycles (tools/depgraph.py), the cut    *)
(* between built and prebuilt dependencies in the lockfile                 *)
(* (tools/solve.py, tools/generate.py) and the overlays every package()    *)
(* call receives (defs/rpm_family.bzl).                                    *)
(*                                                                         *)
(* The components come from Condensation, the promise of the algorithm     *)
(* that SourcePlan puts in its place, so what is proved here holds for     *)
(* any legal order of them.                                                *)
(***************************************************************************)
EXTENDS Condensation

CONSTANTS Binaries,  \* binary packages
          None,      \* "no such entry"
          Stages,    \* --stages
          Inputs     \* the tables a solve can hand to the planner

\* built: the build set; deps: resolved BuildRequires closures; routes: the
\* version variants consumers named; base: the shared buildroot; prebuilt:
\* sources this host takes from upstream.
Input == [built     : SUBSET Sources,
          variants  : SUBSET Sources,
          deps      : [Sources -> SUBSET Binaries],
          source_of : [Binaries -> Sources \cup {None}],
          routes    : [Sources -> [Binaries -> Sources \cup {None}]],
          base      : SUBSET Binaries,
          prebuilt  : SUBSET Sources]

\* add_source_variants: a variant is built, is nobody's normal producer, and
\* is the only thing a route leads to.
WellFormed(i) ==
  /\ i.variants \subseteq i.built
  /\ \A b \in Binaries : i.source_of[b] \notin i.variants
  /\ \A s \in Sources, b \in Binaries : i.routes[s][b] \in i.variants \cup {None}

ASSUME InputsAssumption == Inputs \subseteq {i \in Input : WellFormed(i)}
ASSUME StagesAssumption == Stages \in Nat \ {0}
ASSUME NoneAssumption   == None \notin Sources

VARIABLES inp, staged, targets, phase
vars == <<inp, graph, comps, staged, targets, phase>>

-----------------------------------------------------------------------------
(* tools/depgraph.py *)

Producer(i, s, b) ==
  IF i.routes[s][b] # None THEN i.routes[s][b] ELSE i.source_of[b]

\* Mutation: the projection forgets the variants, as it once did.
ProjectUnrouted(i) ==
  [s \in Sources |-> IF s \in i.built
     THEN ({i.source_of[b] : b \in i.deps[s]} \cap i.built) \ {s} ELSE {}]

\* A package outside the build set is a node with no edges.
Project(i) ==
  [s \in Sources |-> IF s \in i.built
     THEN ({Producer(i, s, b) : b \in i.deps[s]} \cap i.built) \ {s} ELSE {}]

Cycles == {c \in {comps[i] : i \in DOMAIN comps} :
             Cardinality(c) > 1 \/ \E n \in c : n \in graph[n]}

\* Stage 0 stands for the seed in `from`, for an unstaged package in a target.
Entry(s, k, c) == [source |-> s, stage |-> k, from |-> k - 1,
                   cycle_deps |-> graph[s] \cap c, ships |-> k = Stages]

stage_cycle(c) == {Entry(s, k, c) : s \in c, k \in 1..Stages}

-----------------------------------------------------------------------------
(* tools/solve.py, tools/generate.py: what the lockfile says of one recipe *)

BuildDeps(i, s)     == {b \in i.deps[s] : i.source_of[b] \in i.built}
SeedDeps(i, s)      == i.deps[s] \ (BuildDeps(i, s) \cup i.base)
DepVariant(i, s, b) == i.routes[s][b]

-----------------------------------------------------------------------------
(* defs/rpm_family.bzl.  A target is <<source, stage>>; an overlay names the *)
(* binary, where it comes from and which build of it that is.                *)

Plain(s)  == [source |-> s, stage |-> 0, from |-> 0, cycle_deps |-> {},
              ships |-> TRUE]
Target(e) == <<e.source, e.stage>>
Seed      == <<None, 0>>

Overlay(b, from, build) == [bin |-> b, from |-> from, build |-> build]

provider(i, b) ==
  IF i.source_of[b] \in i.built \ i.prebuilt THEN i.source_of[b] ELSE None

\* Mutation: the shipping stage is looked up wrongly, and it is the first.
default_first(s) ==
  IF \E e \in staged : e.source = s THEN <<s, 1>> ELSE <<s, 0>>

default_variant(s) ==
  IF \E e \in staged : e.source = s /\ e.ships THEN <<s, Stages>> ELSE <<s, 0>>

\* Which target of source s the package() call for entry e depends on.
variant_map(e, s) ==
  IF s = e.source THEN Seed
  ELSE IF s \in e.cycle_deps
       THEN IF e.from = 0 THEN Seed ELSE <<s, e.from>>
       ELSE default_variant(s)

\* The pinned build of a binary, unless the shared buildroot already has it.
seed_rpm(i, b) ==
  IF b \in i.base THEN {} ELSE {Overlay(b, Seed, i.source_of[b])}

\* Mutation: a dependency the stage may not take from a sibling is dropped.
overlay_or_nothing(i, b, from, build, fallback) ==
  IF from = Seed THEN {} ELSE {Overlay(b, from, build)}

overlay_or_pin(i, b, from, build, fallback) ==
  IF from = Seed THEN fallback ELSE {Overlay(b, from, build)}

\* One entry of the recipe's build_deps.
built_dep(i, e, b) ==
  LET v == DepVariant(i, e.source, b)
      p == provider(i, b)
  IN IF v # None
     THEN overlay_or_pin(i, b, variant_map(e, v), v, {Overlay(b, Seed, v)})
     ELSE IF p = None THEN seed_rpm(i, b)
     ELSE overlay_or_pin(i, b, variant_map(e, p), p, seed_rpm(i, b))

one_package(i, e) ==
  (UNION {built_dep(i, e, b) : b \in BuildDeps(i, e.source)})
    \cup (UNION {seed_rpm(i, b) : b \in SeedDeps(i, e.source)})

StagedSources == {e.source : e \in staged}
Calls == staged \cup {Plain(s) : s \in inp.built \ StagedSources}

-----------------------------------------------------------------------------
Init ==
  /\ inp \in Inputs
  /\ graph = Project(inp)
  /\ comps = <<>>
  /\ staged = {}
  /\ targets = {}
  /\ phase = "order"

\* find_cycles: the components arrive.
Condense ==
  /\ phase = "order"
  /\ CNext
  /\ UNCHANGED <<inp, staged, targets, phase>>

\* plan_build_order: every cycle is staged.
Plan ==
  /\ phase = "order"
  /\ Emitted = Sources
  /\ staged' = UNION {stage_cycle(c) : c \in Cycles}
  /\ phase' = "define"
  /\ UNCHANGED <<inp, graph, comps, targets>>

\* rpm_packages: one package() call per unstaged recipe and per stage.
Define ==
  /\ phase = "define"
  /\ targets' = {[call |-> e, overlays |-> one_package(inp, e)] : e \in Calls}
  /\ phase' = "done"
  /\ UNCHANGED <<inp, graph, comps, staged>>

Evaluated == phase = "done" /\ UNCHANGED vars

Next == Condense \/ Plan \/ Define \/ Evaluated

Spec == Init /\ [][Next]_vars

-----------------------------------------------------------------------------
(* Properties *)

Place(s) == CHOOSE i \in DOMAIN comps : s \in comps[i]

\* `from` is built in an earlier component, or earlier in the same bootstrap.
Earlier(from, t) ==
  \/ Place(from[1]) < Place(t[1])
  \/ Place(from[1]) = Place(t[1]) /\ from[2] < t[2]

\* The build graph has no cycle: every dependency of a target is in an
\* earlier component, or an earlier stage of the target's own cycle.
Descends ==
  \A t \in targets : \A o \in t.overlays :
    o.from # Seed => Earlier(o.from, Target(t.call))

\* Every build finds each binary it needs exactly once, in the build that
\* was routed to it and from a target that is defined, or else in the shared
\* buildroot.  (rpm_packages, _rpm_one_package)
Delivered ==
  \A t \in targets : \A b \in inp.deps[t.call.source] :
    LET found == {o \in t.overlays : o.bin = b}
    IN IF found = {}
       THEN b \in inp.base /\ inp.routes[t.call.source][b] = None
       ELSE /\ Cardinality(found) = 1
            /\ \A o \in found :
                 /\ o.build = Producer(inp, t.call.source, b)
                 /\ o.from # Seed => \E u \in targets : Target(u.call) = o.from

\* What ships was not compiled against the seed: a shipping stage takes from
\* upstream only what this project does not build, what the host takes from
\* upstream anyway, or the package's own binaries; and from another component
\* it takes only what ships.
Prebuilt(o) == o.build \notin inp.built \/ o.build \in inp.prebuilt
ShipsSelfHosted ==
  \A t \in targets : \A o \in t.overlays :
    /\ t.call.ships /\ o.from = Seed => Prebuilt(o) \/ o.build = t.call.source
    /\ o.from # Seed /\ o.build \notin t.call.cycle_deps =>
         \A u \in targets : Target(u.call) = o.from => u.call.ships
=============================================================================
