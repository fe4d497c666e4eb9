----------------------------- MODULE LockProofs -----------------------------
(***************************************************************************)
(* Theorems about a release's lock: about the targets that are generated   *)
(* from it (BuildGraph, SourcePlan) and its encodings on disk (LockStore). *)
(***************************************************************************)
EXTENDS SourcePlan, LockStore, FiniteSetTheorems,
        SequenceTheorems, WellFoundedInduction, TLAPS

(***************************************************************************)
(* BuildGraph.  For every set of sources, requirements, routes and any     *)
(* number of stages: the generated target graph has no cycle, each build   *)
(* finds what it requires, and what ships was not built against the seed.  *)
(***************************************************************************)
-----------------------------------------------------------------------------
(* Reachability and components *)

\* A package reaches itself and whatever it requires directly.
LEMMA ReachStep ==
  ASSUME NEW g \in [Sources -> SUBSET Sources], NEW n \in Sources
  PROVE  n \in Reach(g)[n] /\ g[n] \subseteq Reach(g)[n]
BY DEF Reach, Closed

\* Reachability is transitive.
LEMMA ReachTrans ==
  ASSUME NEW g \in [Sources -> SUBSET Sources],
         NEW n \in Sources, NEW x \in Reach(g)[n], NEW y \in Reach(g)[x]
  PROVE  y \in Reach(g)[n]
<1>1. x \in Sources
  BY DEF Reach
<1>2. y \in Sources
  BY <1>1 DEF Reach
<1>3. ASSUME NEW S \in SUBSET Sources, n \in S, Closed(g, S)
      PROVE  y \in S
  <2>1. x \in S
    BY <1>3 DEF Reach
  <2> QED
    BY <1>1, <1>3, <2>1 DEF Reach
<1> QED
  BY <1>2, <1>3 DEF Reach

\* Mutual reachability splits the packages into disjoint classes.
LEMMA ComponentClass ==
  ASSUME NEW g \in [Sources -> SUBSET Sources], NEW n \in Sources,
         NEW x \in Component(Reach(g), n)
  PROVE  /\ x \in Sources
         /\ n \in Component(Reach(g), n)
         /\ Component(Reach(g), x) = Component(Reach(g), n)
<1> DEFINE r == Reach(g)
<1>1. x \in Sources /\ x \in r[n] /\ n \in r[x]
  BY DEF Component, Reach
<1>2. n \in Component(r, n)
  BY ReachStep DEF Component
<1>3. ASSUME NEW y \in Component(r, n) PROVE y \in Component(r, x)
  <2>1. y \in Sources /\ y \in r[n] /\ n \in r[y]
    BY DEF Component, Reach
  <2>2. y \in r[x] /\ x \in r[y]
    BY <1>1, <2>1, ReachTrans
  <2> QED
    BY <2>2 DEF Component
<1>4. ASSUME NEW y \in Component(r, x) PROVE y \in Component(r, n)
  <2>1. y \in Sources /\ y \in r[x] /\ x \in r[y]
    BY <1>1 DEF Component, Reach
  <2>2. y \in r[n] /\ n \in r[y]
    BY <1>1, <2>1, ReachTrans
  <2> QED
    BY <2>2 DEF Component
<1> QED
  BY <1>1, <1>2, <1>3, <1>4

-----------------------------------------------------------------------------
(* The order of the components *)

\* Whatever has come out is a whole class, comes out once, and everything it
\* requires came out no later.
OrderInv ==
  /\ inp \in Inputs
  /\ graph = Project(inp)
  /\ graph \in [Sources -> SUBSET Sources]
  /\ comps \in Seq(SUBSET Sources)
  /\ \A i \in DOMAIN comps : \A s \in comps[i] : comps[i] = Component(Reach(graph), s)
  /\ \A i, j \in DOMAIN comps : \A s \in comps[i] : s \in comps[j] => i = j
  /\ \A i \in DOMAIN comps : \A s \in comps[i] : \A d \in graph[s] :
       \E j \in DOMAIN comps : j <= i /\ d \in comps[j]

\* The projection is a graph.
LEMMA ProjectIsGraph ==
  ASSUME NEW i \in Inputs
  PROVE  Project(i) \in [Sources -> SUBSET Sources]
BY InputsAssumption DEF Project, Input

\* One more component keeps the order.
LEMMA EmitKeepsOrder ==
  ASSUME OrderInv, NEW n \in Sources, Emit(n, Reach(graph)), inp' = inp
  PROVE  OrderInv'
<1> DEFINE c == Component(Reach(graph), n)
           k == Len(comps) + 1
<1>1. /\ graph' = graph
      /\ comps' = Append(comps, c)
      /\ c \in SUBSET Sources
      /\ Len(comps) \in Nat
  BY DEF Emit, Component, Reach, OrderInv
<1>2. comps' \in Seq(SUBSET Sources)
  BY <1>1 DEF OrderInv
<1>3. /\ DOMAIN comps = 1..Len(comps)
      /\ DOMAIN comps' = 1..k
      /\ comps'[k] = c
      /\ \A i \in DOMAIN comps : comps'[i] = comps[i]
  BY <1>1 DEF OrderInv
<1>4. \A s \in c : c = Component(Reach(graph), s)
  BY ComponentClass DEF OrderInv
<1>5. \A i \in DOMAIN comps : comps[i] \cap c = {}
  <2> SUFFICES ASSUME NEW i \in DOMAIN comps, NEW s \in comps[i], s \in c
               PROVE  FALSE
    OBVIOUS
  <2>1. comps[i] = c
    BY <1>4 DEF OrderInv
  <2>2. n \in c
    BY ComponentClass DEF OrderInv
  <2> QED
    BY <2>1, <2>2 DEF Emit, Emitted
<1>6. \A s \in c : \A d \in graph[s] : d \in c \/ \E j \in DOMAIN comps : d \in comps[j]
  <2> SUFFICES ASSUME NEW s \in c, NEW d \in graph[s]
               PROVE  d \in c \/ d \in Emitted
    BY DEF Emitted
  <2>1. s \in Sources /\ s \in Reach(graph)[n]
    BY DEF Component, Reach, OrderInv
  <2>2. d \in Reach(graph)[s]
    BY <2>1, ReachStep DEF OrderInv
  <2>3. d \in Reach(graph)[n]
    BY <2>1, <2>2, ReachTrans DEF OrderInv
  <2> QED
    BY <2>3 DEF Emit
<1>7. \A i \in DOMAIN comps' : \A s \in comps'[i] : comps'[i] = Component(Reach(graph), s)
  BY <1>3, <1>4 DEF OrderInv
<1>8. \A i, j \in DOMAIN comps' : \A s \in comps'[i] : s \in comps'[j] => i = j
  BY <1>1, <1>3, <1>5 DEF OrderInv
<1>9. \A i \in DOMAIN comps' : \A s \in comps'[i] : \A d \in graph[s] :
        \E j \in DOMAIN comps' : j <= i /\ d \in comps'[j]
  BY <1>1, <1>3, <1>6 DEF OrderInv
<1> QED
  BY <1>1, <1>2, <1>7, <1>8, <1>9 DEF OrderInv

-----------------------------------------------------------------------------
(* Every edge of a target descends *)

\* What the pipeline has written so far is what it computes from its inputs.
PlanInv ==
  /\ phase \in {"order", "define", "done"}
  /\ phase # "done" => targets = {}
  /\ phase # "order" => /\ Emitted = Sources
                        /\ staged = UNION {stage_cycle(c) : c \in Cycles}
  /\ phase = "done" =>
       targets = {[call |-> e, overlays |-> one_package(inp, e)] : e \in Calls}

IInv == OrderInv /\ PlanInv

\* The place of a package is the one component it came out in.
LEMMA PlaceIs ==
  ASSUME OrderInv, NEW i \in DOMAIN comps, NEW s \in comps[i]
  PROVE  Place(s) = i
<1>1. Place(s) \in DOMAIN comps /\ s \in comps[Place(s)]
  BY DEF Place
<1> QED
  BY <1>1 DEF OrderInv

\* A package outside the build set is in no cycle.
LEMMA CyclesAreBuilt ==
  ASSUME OrderInv, NEW c \in Cycles, NEW s \in c
  PROVE  s \in inp.built
<1> SUFFICES ASSUME s \notin inp.built PROVE FALSE
  OBVIOUS
<1>1. PICK i \in DOMAIN comps : c = comps[i]
  BY DEF Cycles
<1>2. c \subseteq Sources /\ c = Component(Reach(graph), s)
  BY <1>1 DEF OrderInv, Component
<1>3. s \in Sources /\ graph[s] = {}
  BY <1>2 DEF OrderInv, Project
<1>4. Closed(graph, {s})
  BY <1>3 DEF Closed
<1>5. Reach(graph)[s] \subseteq {s}
  BY <1>3, <1>4 DEF Reach, OrderInv
<1>6. c = {s}
  BY <1>2, <1>5 DEF Component
<1>7. Cardinality(c) = 1
  BY <1>6, FS_Singleton
<1> QED
  BY <1>3, <1>6, <1>7 DEF Cycles

\* Two packages of one component make it a cycle.
LEMMA TwoMakeACycle ==
  ASSUME OrderInv, NEW i \in DOMAIN comps,
         NEW s \in comps[i], NEW d \in comps[i], s # d
  PROVE  comps[i] \in Cycles
<1>1. comps[i] \subseteq Sources /\ IsFiniteSet(comps[i])
  BY FS_Subset, SourcesAssumption DEF OrderInv
<1>2. IsFiniteSet({s}) /\ Cardinality({s}) = 1
  BY FS_Singleton
<1>3. Cardinality({s} \cup {d}) = 2
  <2>1. Cardinality({s} \cup {d}) =
          IF d \in {s} THEN Cardinality({s}) ELSE Cardinality({s}) + 1
    BY <1>2, FS_AddElement, Zenon
  <2> QED
    BY <1>2, <2>1
<1>4. {s} \cup {d} \in SUBSET comps[i]
  OBVIOUS
<1>5. Cardinality({s} \cup {d}) <= Cardinality(comps[i])
  BY <1>1, <1>4, FS_Subset
<1>6. Cardinality(comps[i]) \in Nat
  BY <1>1, FS_CardinalityType
<1>7. Cardinality(comps[i]) > 1
  BY <1>3, <1>5, <1>6
<1> QED
  BY <1>7 DEF Cycles

\* What a package() call is told about its source and its cycle.
LEMMA CallFacts ==
  ASSUME IInv, phase # "order", NEW e \in Calls
  PROVE  /\ e.source \in inp.built /\ e.source \in Sources
         /\ e.stage \in Nat /\ e.from \in Nat
         /\ e.from > 0 => e.from < e.stage
         /\ \A d \in graph[e.source] : d # e.source =>
              (d \in e.cycle_deps <=> Place(d) = Place(e.source))
<1>1. inp.built \subseteq Sources
  BY InputsAssumption DEF IInv, OrderInv, Input
<1>2. ASSUME NEW d \in graph[e.source], e.source \in Sources
      PROVE  \E i, j \in DOMAIN comps : e.source \in comps[i] /\ d \in comps[j]
  <2>1. d \in Sources
    BY <1>2 DEF IInv, OrderInv
  <2> QED
    BY <1>2, <2>1 DEF IInv, PlanInv, Emitted
<1>3. CASE e \in staged
  <2>1. PICK c \in Cycles : \E s \in c, k \in 1..Stages : e = Entry(s, k, c)
    BY <1>3 DEF IInv, PlanInv, stage_cycle
  <2>1a. PICK s \in c, k \in 1..Stages : e = Entry(s, k, c)
    BY <2>1
  <2>2. /\ e.source = s /\ e.stage = k /\ e.from = k - 1
        /\ e.cycle_deps = graph[s] \cap c
    BY <2>1a DEF Entry
  <2>3. s \in inp.built
    BY CyclesAreBuilt DEF IInv
  <2>4. PICK i \in DOMAIN comps : c = comps[i]
    BY DEF Cycles
  <2>5. Place(s) = i
    BY <2>4, PlaceIs DEF IInv
  <2>6. ASSUME NEW d \in graph[s] PROVE d \in c <=> Place(d) = i
    <3>1. PICK j \in DOMAIN comps : d \in comps[j]
      BY <1>1, <1>2, <2>2, <2>3
    <3>2. Place(d) = j
      BY <3>1, PlaceIs DEF IInv
    <3> QED
      BY <2>4, <3>1, <3>2 DEF IInv, OrderInv
  <2> QED
    BY <1>1, <2>2, <2>3, <2>5, <2>6, StagesAssumption
<1>4. CASE e \notin staged
  <2>1. PICK s \in inp.built \ StagedSources : e = Plain(s)
    BY <1>4 DEF Calls
  <2>2. /\ e.source = s /\ e.stage = 0 /\ e.from = 0 /\ e.cycle_deps = {}
    BY <2>1 DEF Plain
  <2>3. ASSUME NEW d \in graph[s], d # s, Place(d) = Place(s) PROVE FALSE
    <3>1. PICK i \in DOMAIN comps, j \in DOMAIN comps : s \in comps[i] /\ d \in comps[j]
      BY <1>1, <1>2, <2>2, <2>3
    <3>2. i = j
      BY <2>3, <3>1, PlaceIs DEF IInv
    <3>3. comps[i] \in Cycles
      BY <2>3, <3>1, <3>2, TwoMakeACycle DEF IInv
    <3>4. Entry(s, 1, comps[i]) \in staged
      BY <3>1, <3>3, StagesAssumption DEF IInv, PlanInv, stage_cycle
    <3>5. s \in StagedSources
      BY <3>4 DEF StagedSources, Entry
    <3> QED
      BY <2>1, <3>5
  <2> QED
    BY <1>1, <2>1, <2>2, <2>3
<1> QED
  BY <1>3, <1>4

\* Every built dependency of a call is an edge of the source graph, and the
\* overlay names the target variant_map chose for it.
LEMMA OverlayFacts ==
  ASSUME IInv, NEW e, e.source \in inp.built, e.source \in Sources,
         NEW o \in one_package(inp, e), o.from # Seed
  PROVE  \E p \in graph[e.source] : p # e.source /\ o.from = variant_map(e, p)
<1>1. inp \in Input /\ WellFormed(inp) /\ graph = Project(inp)
  BY InputsAssumption DEF IInv, OrderInv
<1>2. \A b, q : q \in seed_rpm(inp, b) => q.from = Seed
  BY DEF seed_rpm, Overlay
<1>3. PICK b \in BuildDeps(inp, e.source) : o \in built_dep(inp, e, b)
  BY <1>2 DEF one_package
<1>4. b \in Binaries /\ b \in inp.deps[e.source] /\ inp.source_of[b] \in inp.built
  BY <1>1, <1>3 DEF BuildDeps, Input
<1> DEFINE v == inp.routes[e.source][b]
           p == provider(inp, b)
<1>5. CASE v # None
  <2>1. o \in overlay_or_pin(inp, b, variant_map(e, v), v, {Overlay(b, Seed, v)})
    BY <1>3, <1>5 DEF built_dep, DepVariant
  <2>2. o.from = variant_map(e, v)
    BY <2>1 DEF overlay_or_pin, Overlay
  <2>3. v \in inp.built /\ v = Producer(inp, e.source, b)
    BY <1>1, <1>4, <1>5 DEF WellFormed, Producer
  <2>4. v # e.source
    BY <2>2 DEF variant_map
  <2>5. v \in graph[e.source]
    BY <1>1, <1>4, <2>3, <2>4 DEF Project
  <2> QED
    BY <2>2, <2>4, <2>5
<1>6. CASE v = None
  <2>1. p # None
    BY <1>2, <1>3, <1>6 DEF built_dep, DepVariant
  <2>2. o \in overlay_or_pin(inp, b, variant_map(e, p), p, seed_rpm(inp, b))
    BY <1>3, <1>6, <2>1 DEF built_dep, DepVariant
  <2>3. o.from = variant_map(e, p)
    BY <1>2, <2>2 DEF overlay_or_pin, Overlay
  <2>4. p \in inp.built /\ p = Producer(inp, e.source, b)
    BY <1>4, <1>6, <2>1 DEF provider, Producer
  <2>5. p # e.source
    BY <2>3 DEF variant_map
  <2>6. p \in graph[e.source]
    BY <1>1, <1>4, <2>4, <2>5 DEF Project
  <2> QED
    BY <2>3, <2>5, <2>6
<1> QED
  BY <1>5, <1>6

\* In every state the pipeline reaches, the edges written so far descend.
LEMMA Descent == IInv => Descends
<1> SUFFICES ASSUME IInv, NEW t \in targets, NEW o \in t.overlays, o.from # Seed
             PROVE  Earlier(o.from, Target(t.call))
  BY DEF Descends
<1>1. phase = "done"
  BY DEF IInv, PlanInv
<1>2. PICK e \in Calls : t = [call |-> e, overlays |-> one_package(inp, e)]
  BY <1>1 DEF IInv, PlanInv
<1>3. /\ e.source \in inp.built /\ e.source \in Sources
      /\ e.stage \in Nat /\ e.from \in Nat
      /\ e.from > 0 => e.from < e.stage
      /\ \A d \in graph[e.source] : d # e.source =>
           (d \in e.cycle_deps <=> Place(d) = Place(e.source))
  BY <1>1, CallFacts
<1>4. PICK p \in graph[e.source] : p # e.source /\ o.from = variant_map(e, p)
  BY <1>2, <1>3, OverlayFacts
<1>5. PICK i \in DOMAIN comps : e.source \in comps[i]
  BY <1>1, <1>3 DEF IInv, PlanInv, Emitted
<1>6. PICK j \in DOMAIN comps : j <= i /\ p \in comps[j]
  BY <1>4, <1>5 DEF IInv, OrderInv
<1>7. Place(e.source) = i /\ Place(p) = j /\ i \in Nat /\ j \in Nat
  BY <1>5, <1>6, PlaceIs DEF IInv, OrderInv
<1>8. Target(t.call) = <<e.source, e.stage>>
  BY <1>2 DEF Target
<1>9. CASE p \in e.cycle_deps
  <2>1. e.from # 0 /\ o.from = <<p, e.from>>
    BY <1>4, <1>9 DEF variant_map
  <2>2. Place(p) = Place(e.source) /\ e.from < e.stage
    BY <1>3, <1>4, <1>9, <2>1
  <2> QED
    BY <1>8, <2>1, <2>2 DEF Earlier
<1>10. CASE p \notin e.cycle_deps
  <2>1. o.from = default_variant(p)
    BY <1>4, <1>10 DEF variant_map
  <2>2. o.from[1] = p
    BY <2>1 DEF default_variant
  <2>3. Place(p) < Place(e.source)
    BY <1>3, <1>4, <1>6, <1>7, <1>10
  <2> QED
    BY <1>8, <2>2, <2>3 DEF Earlier
<1> QED
  BY <1>9, <1>10

-----------------------------------------------------------------------------
(* The theorem *)

\* The pipeline starts in the invariant and keeps it.
LEMMA InvInit == Init => IInv
<1> SUFFICES ASSUME Init PROVE IInv
  OBVIOUS
<1>1. comps = <<>> /\ DOMAIN comps = {} /\ comps \in Seq(SUBSET Sources)
  BY DEF Init
<1>2. graph \in [Sources -> SUBSET Sources]
  BY ProjectIsGraph DEF Init
<1>3. OrderInv
  BY <1>1, <1>2 DEF Init, OrderInv
<1>4. PlanInv
  BY DEF Init, PlanInv
<1> QED
  BY <1>3, <1>4 DEF IInv

LEMMA InvStep == IInv /\ [Next]_vars => IInv'
<1> SUFFICES ASSUME IInv, [Next]_vars PROVE IInv'
  OBVIOUS
<1>1. CASE Condense
  <2>1. PICK n \in Sources : Emit(n, Reach(graph))
    BY <1>1 DEF Condense, CNext
  <2>2. OrderInv'
    BY <1>1, <2>1, EmitKeepsOrder DEF Condense, IInv
  <2>3. PlanInv'
    BY <1>1 DEF Condense, IInv, PlanInv
  <2> QED
    BY <2>2, <2>3 DEF IInv
<1>2. CASE Plan
  <2>1. OrderInv'
    BY <1>2 DEF Plan, IInv, OrderInv
  <2>2. Emitted' = Emitted /\ (UNION {stage_cycle(c) : c \in Cycles})' = staged'
    BY <1>2 DEF Plan, Emitted, stage_cycle, Cycles, Entry
  <2>3. PlanInv'
    BY <1>2, <2>2 DEF Plan, IInv, PlanInv
  <2> QED
    BY <2>1, <2>3 DEF IInv
<1>3. CASE Define
  <2>1. OrderInv'
    BY <1>3 DEF Define, IInv, OrderInv
  <2>2. \A e : one_package(inp, e)' = one_package(inp, e)
    BY <1>3 DEF Define, one_package, built_dep, overlay_or_pin, variant_map,
                default_variant
  <2>3. /\ Calls' = Calls /\ Emitted' = Emitted
        /\ (UNION {stage_cycle(c) : c \in Cycles})' = UNION {stage_cycle(c) : c \in Cycles}
    BY <1>3 DEF Define, Emitted, stage_cycle, Cycles, Entry, Calls, StagedSources
  <2>4. targets' = {[call |-> e, overlays |-> one_package(inp', e)] : e \in Calls'}
    BY <1>3, <2>3 DEF Define
  <2>5. PlanInv'
    BY <1>3, <2>2, <2>3, <2>4 DEF Define, IInv, PlanInv
  <2> QED
    BY <2>1, <2>5 DEF IInv
<1>4. CASE UNCHANGED vars
  <2>1. OrderInv'
    BY <1>4 DEF vars, IInv, OrderInv
  <2>2. \A e : one_package(inp, e)' = one_package(inp, e)
    BY <1>4 DEF vars, one_package, built_dep, overlay_or_pin, variant_map,
                default_variant
  <2>3. /\ Calls' = Calls /\ Emitted' = Emitted
        /\ (UNION {stage_cycle(c) : c \in Cycles})' = UNION {stage_cycle(c) : c \in Cycles}
    BY <1>4 DEF vars, Emitted, stage_cycle, Cycles, Entry, Calls, StagedSources
  <2>4. PlanInv'
    BY <1>4, <2>2, <2>3 DEF vars, IInv, PlanInv
  <2> QED
    BY <2>1, <2>4 DEF IInv
<1> QED
  BY <1>1, <1>2, <1>3, <1>4 DEF Next, Evaluated

\* buck2 never sees a cycle: whatever the packages require, however they are
\* routed and staged, every dependency of a target that rpm_packages defines
\* is in an earlier component or an earlier stage of the same cycle.
THEOREM TargetGraphDescends == Spec => []Descends
<1>1. Spec => []IInv
  BY InvInit, InvStep, PTL DEF Spec
<1> QED
  BY <1>1, Descent, PTL

-----------------------------------------------------------------------------
(* What the targets take, and from whom *)

\* A staged entry belongs to a cycle of the components in place, and all of
\* its cycle is staged with it; a package in no cycle has its one plain call.
LEMMA StagedFacts ==
  ASSUME IInv, phase # "order", NEW e \in staged
  PROVE  /\ e.stage \in 1..Stages /\ e.from = e.stage - 1
         /\ e.ships <=> e.stage = Stages
         /\ \A s \in e.cycle_deps \cup {e.source}, k \in 1..Stages :
              \E u \in staged : u.source = s /\ u.stage = k /\ (u.ships <=> k = Stages)
<1>1. PICK c \in Cycles : \E s \in c, k \in 1..Stages : e = Entry(s, k, c)
  BY DEF IInv, PlanInv, stage_cycle
<1>2. PICK s \in c, k \in 1..Stages : e = Entry(s, k, c)
  BY <1>1
<1>3. /\ e.source = s /\ e.stage = k /\ e.from = k - 1
      /\ e.cycle_deps \subseteq c /\ e.ships = (k = Stages)
  BY <1>2 DEF Entry
<1>4. ASSUME NEW n \in c, NEW j \in 1..Stages
      PROVE  \E u \in staged : u.source = n /\ u.stage = j /\ (u.ships <=> j = Stages)
  <2>1. Entry(n, j, c) \in staged
    BY <1>4 DEF IInv, PlanInv, stage_cycle
  <2>2. Entry(n, j, c).source = n /\ Entry(n, j, c).stage = j
        /\ Entry(n, j, c).ships = (j = Stages)
    BY DEF Entry
  <2> QED
    BY <2>1, <2>2
<1>5. e.cycle_deps \cup {e.source} \subseteq c
  BY <1>3
<1>6. e.ships <=> e.stage = Stages
  BY <1>3
<1>7. e.stage \in 1..Stages /\ e.from = e.stage - 1
  BY <1>3
<1>8. \A n \in e.cycle_deps \cup {e.source}, j \in 1..Stages :
        \E u \in staged : u.source = n /\ u.stage = j /\ (u.ships <=> j = Stages)
  BY <1>4, <1>5
<1> QED
  BY <1>6, <1>7, <1>8

\* Where a package is looked up by its shipping stage, a call defines it, and
\* every call that defines it ships.
LEMMA ShippingStage ==
  ASSUME IInv, phase # "order", NEW p \in inp.built
  PROVE  /\ default_variant(p) # Seed
         /\ \E u \in Calls : Target(u) = default_variant(p)
         /\ \A u \in Calls : Target(u) = default_variant(p) => u.ships
<1>1. p \in Sources /\ p # None
  BY InputsAssumption, NoneAssumption DEF IInv, OrderInv, Input
<1>2. default_variant(p) # Seed
  BY <1>1 DEF default_variant, Seed
<1>3. CASE \E e \in staged : e.source = p /\ e.ships
  <2>1. default_variant(p) = <<p, Stages>>
    BY <1>3 DEF default_variant
  <2>2. PICK e \in staged : e.source = p /\ e.ships
    BY <1>3
  <2>3. Target(e) = default_variant(p) /\ e \in Calls
    BY <2>1, <2>2, StagedFacts DEF Target, Calls
  <2>4. ASSUME NEW u \in Calls, Target(u) = default_variant(p) PROVE u.ships
    <3>1. u.stage = Stages
      BY <2>1, <2>4 DEF Target
    <3>2. CASE u \in staged  BY <3>1, <3>2, StagedFacts
    <3>3. CASE u \notin staged  BY <3>3 DEF Calls, Plain
    <3> QED  BY <3>2, <3>3
  <2> QED
    BY <1>2, <2>3, <2>4
<1>4. CASE ~ \E e \in staged : e.source = p /\ e.ships
  <2>1. default_variant(p) = <<p, 0>>
    BY <1>4 DEF default_variant
  <2>2. p \notin StagedSources
    <3> SUFFICES ASSUME NEW e \in staged, e.source = p PROVE FALSE
      BY DEF StagedSources
    <3>1. PICK u \in staged : u.source = p /\ (u.ships <=> Stages = Stages)
      BY StagedFacts, StagesAssumption
    <3> QED  BY <1>4, <3>1
  <2>3. Plain(p) \in Calls /\ Target(Plain(p)) = <<p, 0>>
    BY <2>2 DEF Calls, Target, Plain
  <2>4. ASSUME NEW u \in Calls, Target(u) = default_variant(p) PROVE u.ships
    <3>1. u.stage = 0
      BY <2>1, <2>4 DEF Target
    <3>2. u \notin staged
      BY <3>1, StagedFacts
    <3> QED  BY <3>2 DEF Calls, Plain
  <2> QED
    BY <1>2, <2>1, <2>3, <2>4
<1> QED
  BY <1>3, <1>4

\* The target variant_map gives for another package is one that is defined;
\* the seed stands only for the package itself and for its cycle, and that
\* only in the first stage.
LEMMA VariantFacts ==
  ASSUME IInv, phase # "order", NEW e \in Calls, NEW p \in inp.built
  PROVE  /\ variant_map(e, p) # Seed => \E u \in Calls : Target(u) = variant_map(e, p)
         /\ variant_map(e, p) # Seed /\ p \notin e.cycle_deps =>
              \A u \in Calls : Target(u) = variant_map(e, p) => u.ships
         /\ variant_map(e, p) = Seed => p = e.source \/ (e \in staged /\ e.from = 0)
<1>1. e \in staged \/ e.cycle_deps = {}
  BY DEF Calls, Plain
<1>2. CASE p = e.source
  BY <1>2 DEF variant_map
<1>3. CASE p # e.source /\ p \notin e.cycle_deps
  <2>1. variant_map(e, p) = default_variant(p)
    BY <1>3 DEF variant_map
  <2> QED
    BY <1>3, <2>1, ShippingStage
<1>4. CASE p # e.source /\ p \in e.cycle_deps /\ e.from = 0
  <2>1. variant_map(e, p) = Seed
    BY <1>4 DEF variant_map
  <2> QED
    BY <1>1, <1>4, <2>1
<1>5. CASE p # e.source /\ p \in e.cycle_deps /\ e.from # 0
  <2>1. variant_map(e, p) = <<p, e.from>>
    BY <1>5 DEF variant_map
  <2>2. e \in staged
    BY <1>1, <1>5
  <2>3. e.from \in 1..Stages
    BY <1>5, <2>2, StagedFacts, StagesAssumption
  <2>4. PICK u \in staged : u.source = p /\ u.stage = e.from
    BY <1>5, <2>2, <2>3, StagedFacts
  <2>5. u \in Calls /\ Target(u) = variant_map(e, p)
    BY <2>1, <2>4 DEF Calls, Target
  <2>6. p # None
    BY InputsAssumption, NoneAssumption DEF IInv, OrderInv, Input
  <2> QED
    BY <1>5, <2>1, <2>5, <2>6 DEF Seed
<1> QED
  BY <1>2, <1>3, <1>4, <1>5

\* An overlay of a call is the one its package() call computes for a binary.
LEMMA OverlayOf ==
  ASSUME IInv, NEW e, e.source \in inp.built, e.source \in Sources,
         NEW b \in inp.deps[e.source]
  PROVE  {o \in one_package(inp, e) : o.bin = b} =
           IF b \in BuildDeps(inp, e.source) THEN built_dep(inp, e, b)
           ELSE IF b \in inp.base THEN {} ELSE seed_rpm(inp, b)
<1>1. \A x : \A o \in built_dep(inp, e, x) : o.bin = x
  BY DEF built_dep, overlay_or_pin, seed_rpm, Overlay
<1>2. \A x : \A o \in seed_rpm(inp, x) : o.bin = x
  BY DEF seed_rpm, Overlay
<1>3. \A o : o \in one_package(inp, e) <=>
        \/ \E x \in BuildDeps(inp, e.source) : o \in built_dep(inp, e, x)
        \/ \E x \in SeedDeps(inp, e.source) : o \in seed_rpm(inp, x)
  BY DEF one_package
<1>4. \A x : x \in SeedDeps(inp, e.source) => x \notin BuildDeps(inp, e.source) /\ x \notin inp.base
  BY DEF SeedDeps
<1>5. CASE b \in BuildDeps(inp, e.source)
  <2>1. \A o : o \in one_package(inp, e) /\ o.bin = b <=> o \in built_dep(inp, e, b)
    BY <1>1, <1>2, <1>3, <1>4, <1>5
  <2> QED
    BY <1>5, <2>1
<1>6. CASE b \notin BuildDeps(inp, e.source) /\ b \in inp.base
  <2>1. \A o : ~(o \in one_package(inp, e) /\ o.bin = b)
    BY <1>1, <1>2, <1>3, <1>4, <1>6
  <2> QED
    BY <1>6, <2>1
<1>7. CASE b \notin BuildDeps(inp, e.source) /\ b \notin inp.base
  <2>1. b \in SeedDeps(inp, e.source)
    BY <1>7 DEF SeedDeps
  <2>2. \A o : o \in one_package(inp, e) /\ o.bin = b <=> o \in seed_rpm(inp, b)
    BY <1>1, <1>2, <1>3, <1>7, <2>1
  <2> QED
    BY <1>7, <2>2
<1> QED
  BY <1>5, <1>6, <1>7

\* One built dependency: the pinned build, nothing when the buildroot has it,
\* or the target chosen for whoever makes it.
LEMMA BuiltDepFacts ==
  ASSUME IInv, NEW e, e.source \in inp.built, e.source \in Sources,
         NEW b \in BuildDeps(inp, e.source)
  PROVE  LET p == Producer(inp, e.source, b)
         IN  /\ p \in inp.built
             /\ \/ /\ inp.routes[e.source][b] = None
                   /\ built_dep(inp, e, b) = seed_rpm(inp, b)
                   /\ p \in inp.prebuilt \/ variant_map(e, p) = Seed
                \/ built_dep(inp, e, b) = {Overlay(b, variant_map(e, p), p)}
<1>1. inp \in Input /\ WellFormed(inp)
  BY InputsAssumption DEF IInv, OrderInv
<1>2. b \in Binaries /\ b \in inp.deps[e.source] /\ inp.source_of[b] \in inp.built
  BY <1>1 DEF BuildDeps, Input
<1>3. inp.source_of[b] # None
  BY <1>1, <1>2, NoneAssumption DEF Input
<1> DEFINE v == inp.routes[e.source][b]
           q == provider(inp, b)
<1>4. CASE v # None
  <2>1. v \in inp.built /\ v = Producer(inp, e.source, b)
    BY <1>1, <1>2, <1>4 DEF WellFormed, Producer
  <2>2. built_dep(inp, e, b)
          = overlay_or_pin(inp, b, variant_map(e, v), v, {Overlay(b, Seed, v)})
    BY <1>4 DEF built_dep, DepVariant
  <2>3. built_dep(inp, e, b) = {Overlay(b, variant_map(e, v), v)}
    BY <2>2 DEF overlay_or_pin
  <2> QED
    BY <2>1, <2>3
<1>5. CASE v = None /\ q = None
  <2>1. Producer(inp, e.source, b) = inp.source_of[b]
    BY <1>5 DEF Producer
  <2>2. built_dep(inp, e, b) = seed_rpm(inp, b)
    BY <1>5 DEF built_dep, DepVariant
  <2>3. inp.source_of[b] \in inp.prebuilt
    BY <1>2, <1>3, <1>5 DEF provider
  <2> QED
    BY <1>2, <1>5, <2>1, <2>2, <2>3
<1>6. CASE v = None /\ q # None
  <2>1. q = inp.source_of[b] /\ Producer(inp, e.source, b) = q
    BY <1>6 DEF Producer, provider
  <2>2. built_dep(inp, e, b) = overlay_or_pin(inp, b, variant_map(e, q), q, seed_rpm(inp, b))
    BY <1>6 DEF built_dep, DepVariant
  <2>3. \/ variant_map(e, q) = Seed /\ built_dep(inp, e, b) = seed_rpm(inp, b)
        \/ built_dep(inp, e, b) = {Overlay(b, variant_map(e, q), q)}
    BY <2>2 DEF overlay_or_pin
  <2> QED
    BY <1>2, <1>6, <2>1, <2>3
<1> QED
  BY <1>4, <1>5, <1>6

\* Who is routed to a variant could otherwise build against its base package:
\* that one is in the build set too.
RoutedBasesAreBuilt ==
  \A i \in Inputs : \A s \in Sources, b \in Binaries :
    i.routes[s][b] # None => i.source_of[b] \in i.built

LEMMA Delivery == IInv /\ RoutedBasesAreBuilt => Delivered
<1> SUFFICES ASSUME IInv, RoutedBasesAreBuilt, NEW t \in targets,
                    NEW b \in inp.deps[t.call.source]
             PROVE  LET found == {o \in t.overlays : o.bin = b}
                    IN IF found = {}
                       THEN b \in inp.base /\ inp.routes[t.call.source][b] = None
                       ELSE /\ Cardinality(found) = 1
                            /\ \A o \in found :
                                 /\ o.build = Producer(inp, t.call.source, b)
                                 /\ o.from # Seed => \E u \in targets : Target(u.call) = o.from
  BY DEF Delivered
<1>1. phase = "done"
  BY DEF IInv, PlanInv
<1>2. PICK e \in Calls : t = [call |-> e, overlays |-> one_package(inp, e)]
  BY <1>1 DEF IInv, PlanInv
<1>3. e.source \in inp.built /\ e.source \in Sources
  BY <1>1, CallFacts
<1>4. \A u \in Calls : \E w \in targets : w.call = u
  <2> SUFFICES ASSUME NEW u \in Calls PROVE \E w \in targets : w.call = u
    OBVIOUS
  <2>1. [call |-> u, overlays |-> one_package(inp, u)] \in targets
    BY <1>1 DEF IInv, PlanInv
  <2> QED
    BY <2>1
<1>5. inp \in Inputs /\ inp \in Input
  BY InputsAssumption DEF IInv, OrderInv
<1>6. b \in Binaries /\ t.call = e /\ t.overlays = one_package(inp, e)
  BY <1>2, <1>3, <1>5 DEF Input
<1> DEFINE found == {o \in t.overlays : o.bin = b}
           p == Producer(inp, e.source, b)
           One(o) == /\ o.build = p
                     /\ o.from # Seed => \E u \in targets : Target(u.call) = o.from
<1>7. ASSUME NEW o, found = {o}, One(o)
      PROVE  found # {} /\ Cardinality(found) = 1 /\ \A x \in found : One(x)
  BY <1>7, FS_Singleton
<1>8. CASE b \in BuildDeps(inp, e.source)
  <2>1. found = built_dep(inp, e, b)
    BY <1>3, <1>6, <1>8, OverlayOf
  <2>2. /\ p \in inp.built
        /\ \/ inp.routes[e.source][b] = None /\ found = seed_rpm(inp, b)
           \/ found = {Overlay(b, variant_map(e, p), p)}
    BY <1>3, <1>8, <2>1, BuiltDepFacts
  <2>3. CASE found = {Overlay(b, variant_map(e, p), p)}
    <3> DEFINE o == Overlay(b, variant_map(e, p), p)
    <3>1. o.build = p /\ o.from = variant_map(e, p)
      BY DEF Overlay
    <3>2. o.from # Seed => \E u \in Calls : Target(u) = o.from
      BY <1>1, <2>2, <3>1, VariantFacts
    <3>3. One(o)
      BY <1>4, <3>1, <3>2
    <3> HIDE DEF o
    <3> QED
      BY <1>6, <1>7, <2>3, <3>3 DEF o
  <2>4. CASE inp.routes[e.source][b] = None /\ found = seed_rpm(inp, b)
    <3>1. p = inp.source_of[b]
      BY <2>4 DEF Producer
    <3>2. CASE b \in inp.base
      BY <1>6, <2>4, <3>2 DEF seed_rpm
    <3>3. CASE b \notin inp.base
      <4> DEFINE o == Overlay(b, Seed, inp.source_of[b])
      <4>1. found = {o} /\ o.build = p /\ o.from = Seed
        BY <2>4, <3>1, <3>3 DEF seed_rpm, Overlay
      <4>2. One(o)
        BY <4>1
      <4> HIDE DEF o
      <4> QED
        BY <1>6, <1>7, <4>1, <4>2
    <3> QED
      BY <3>2, <3>3
  <2> QED
    BY <2>2, <2>3, <2>4
<1>9. CASE b \notin BuildDeps(inp, e.source)
  <2>1. inp.source_of[b] \notin inp.built
    BY <1>6, <1>9 DEF BuildDeps
  <2>2. inp.routes[e.source][b] = None
    BY <1>3, <1>5, <1>6, <2>1 DEF RoutedBasesAreBuilt
  <2>3. p = inp.source_of[b]
    BY <2>2 DEF Producer
  <2>4. found = IF b \in inp.base THEN {} ELSE seed_rpm(inp, b)
    BY <1>3, <1>6, <1>9, OverlayOf
  <2>5. CASE b \in inp.base
    BY <1>6, <2>2, <2>4, <2>5
  <2>6. CASE b \notin inp.base
    <3> DEFINE o == Overlay(b, Seed, inp.source_of[b])
    <3>1. found = {o} /\ o.build = p /\ o.from = Seed
      BY <2>3, <2>4, <2>6 DEF seed_rpm, Overlay
    <3>2. One(o)
      BY <3>1
    <3> HIDE DEF o
    <3> QED
      BY <1>6, <1>7, <3>1, <3>2
  <2> QED
    BY <2>5, <2>6
<1> QED
  BY <1>8, <1>9

\* Of one overlay of a call: the seed gives to what ships only what this
\* project does not build, or the package itself; and a target of another
\* component ships.
LEMMA SelfHosting == IInv /\ Stages > 1 => ShipsSelfHosted
<1> SUFFICES ASSUME IInv, Stages > 1, NEW t \in targets, NEW o \in t.overlays
             PROVE  /\ t.call.ships /\ o.from = Seed => Prebuilt(o) \/ o.build = t.call.source
                    /\ o.from # Seed /\ o.build \notin t.call.cycle_deps =>
                         \A u \in targets : Target(u.call) = o.from => u.call.ships
  BY DEF ShipsSelfHosted
<1>1. phase = "done"
  BY DEF IInv, PlanInv
<1>2. PICK e \in Calls : t = [call |-> e, overlays |-> one_package(inp, e)]
  BY <1>1 DEF IInv, PlanInv
<1>3. e.source \in inp.built /\ e.source \in Sources
  BY <1>1, CallFacts
<1>4. \A u \in targets : u.call \in Calls
  BY <1>1 DEF IInv, PlanInv
<1>5. t.call = e /\ o \in one_package(inp, e)
  BY <1>2
<1>6. e.ships => ~(e \in staged /\ e.from = 0)
  BY <1>1, StagedFacts, StagesAssumption
<1>7. CASE \E b \in BuildDeps(inp, e.source) : o \in built_dep(inp, e, b)
  <2>1. PICK b \in BuildDeps(inp, e.source) : o \in built_dep(inp, e, b)
    BY <1>7
  <2> DEFINE p == Producer(inp, e.source, b)
  <2>2. /\ p \in inp.built
        /\ \/ /\ inp.routes[e.source][b] = None
              /\ o \in seed_rpm(inp, b)
              /\ p \in inp.prebuilt \/ variant_map(e, p) = Seed
           \/ o = Overlay(b, variant_map(e, p), p)
    BY <1>3, <2>1, BuiltDepFacts
  <2>3. CASE o = Overlay(b, variant_map(e, p), p)
    <3>1. o.build = p /\ o.from = variant_map(e, p)
      BY <2>3 DEF Overlay
    <3>2. e.ships /\ o.from = Seed => o.build = e.source
      BY <1>1, <1>6, <2>2, <3>1, VariantFacts
    <3>3. o.from # Seed /\ o.build \notin e.cycle_deps =>
            \A u \in Calls : Target(u) = o.from => u.ships
      BY <1>1, <2>2, <3>1, VariantFacts
    <3> QED
      BY <1>4, <1>5, <3>2, <3>3
  <2>4. CASE /\ inp.routes[e.source][b] = None /\ o \in seed_rpm(inp, b)
             /\ p \in inp.prebuilt \/ variant_map(e, p) = Seed
    <3>1. o.from = Seed /\ o.build = inp.source_of[b] /\ p = inp.source_of[b]
      BY <2>4 DEF seed_rpm, Overlay, Producer
    <3>2. CASE p \in inp.prebuilt
      BY <1>5, <3>1, <3>2 DEF Prebuilt
    <3>3. CASE variant_map(e, p) = Seed
      <4>1. p = e.source \/ (e \in staged /\ e.from = 0)
        BY <1>1, <2>2, <3>3, VariantFacts
      <4> QED
        BY <1>5, <1>6, <3>1, <4>1
    <3> QED
      BY <2>4, <3>2, <3>3
  <2> QED
    BY <2>2, <2>3, <2>4
<1>8. CASE \E b \in SeedDeps(inp, e.source) : o \in seed_rpm(inp, b)
  <2>1. PICK b \in SeedDeps(inp, e.source) : o \in seed_rpm(inp, b)
    BY <1>8
  <2>2. inp.source_of[b] \notin inp.built
    BY DEF SeedDeps, BuildDeps
  <2>3. o.from = Seed /\ o.build = inp.source_of[b]
    BY <2>1 DEF seed_rpm, Overlay
  <2> QED
    BY <2>2, <2>3 DEF Prebuilt
<1>9. \/ \E b \in BuildDeps(inp, e.source) : o \in built_dep(inp, e, b)
      \/ \E b \in SeedDeps(inp, e.source) : o \in seed_rpm(inp, b)
  BY <1>5 DEF one_package
<1> QED
  BY <1>7, <1>8, <1>9

\* Every build finds each binary it requires once, in the build routed to it
\* and from a target that is defined, or in the shared buildroot -- whatever
\* the packages require, where the base of every variant is itself built.
\* (rpm_packages, _rpm_one_package, emit_lockfile)
THEOREM EveryBuildIsDelivered == RoutedBasesAreBuilt => (Spec => []Delivered)
<1> SUFFICES ASSUME RoutedBasesAreBuilt PROVE Spec => []Delivered
  OBVIOUS
<1>1. Spec => []IInv
  BY InvInit, InvStep, PTL DEF Spec
<1>2. IInv => Delivered
  BY Delivery
<1> QED
  BY <1>1, <1>2, PTL

\* With two stages or more, nothing that ships was built against the seed's
\* copy of what this project builds, its own binaries apart, and across
\* components only what ships is taken. (stage_cycle, _variant_map)
THEOREM WhatShipsIsSelfHosted == Stages > 1 => (Spec => []ShipsSelfHosted)
<1> SUFFICES ASSUME Stages > 1 PROVE Spec => []ShipsSelfHosted
  OBVIOUS
<1>1. Spec => []IInv
  BY InvInit, InvStep, PTL DEF Spec
<1>2. IInv => ShipsSelfHosted
  BY SelfHosting
<1> QED
  BY <1>1, <1>2, PTL

-----------------------------------------------------------------------------
(***************************************************************************)
(* SourceComponents and SourcePlan.  For every graph: each component the   *)
(* loop closes is a whole class of mutual reachability and all it requires *)
(* is out, in the end every package is out; so the planner does no more    *)
(* than BuildGraph, and what was proved of that holds of it.               *)
(***************************************************************************)
Seen  == {n \in Sources : ~Unseen(n)}
On    == Range(stack)
R(n)  == Reach(graph)[n]
Call  == [node : Sources, rest : SUBSET Sources]

\* What a package requires and the loop has looked at.
Owed(n)     == UNION {work[i].rest : i \in {j \in DOMAIN work : work[j].node = n}}
Followed(n) == graph[n] \ Owed(n)

Numbered ==
  /\ graph \in [Sources -> SUBSET Sources]
  /\ comps \in Seq(SUBSET Sources)
  /\ index_of \in [Sources -> Int] /\ low \in [Sources -> Int]
  /\ stack \in Seq(Sources) /\ work \in Seq(Call)
  /\ counter \in Nat
  /\ \A n \in Seen : index_of[n] \in 0..(counter - 1)
  /\ \A m, n \in Seen : index_of[m] = index_of[n] => m = n

\* A package that was seen is in a component or on the stack, which is in the
\* order of the numbers, as are the calls; a component needs nothing outside.
Stacked ==
  /\ Seen = Emitted \cup On /\ Emitted \cap On = {}
  /\ \A i, j \in DOMAIN stack : i < j => index_of[stack[i]] < index_of[stack[j]]
  /\ \A i \in DOMAIN work : work[i].node \in On /\ work[i].rest \subseteq graph[work[i].node]
  /\ \A i, j \in DOMAIN work : i < j => index_of[work[i].node] < index_of[work[j].node]
  /\ \A n \in Seen : Followed(n) \subseteq Seen
  /\ \A n \in Emitted : graph[n] \subseteq Emitted

\* A call reaches whatever was stacked since, and whatever is stacked reaches
\* a call no younger than itself.
Connected ==
  /\ \A i \in DOMAIN work, y \in On :
       index_of[work[i].node] <= index_of[y] => y \in R(work[i].node)
  /\ \A y \in On : \E i \in DOMAIN work :
       index_of[work[i].node] <= index_of[y] /\ work[i].node \in R(y)

\* The link of a call is the number of a stacked package it reaches, and no
\* greater than that of any its own part of the stack was seen to require.
Linked ==
  /\ \A i \in DOMAIN work : \E m \in On :
       /\ low[work[i].node] = index_of[m] /\ m \in R(work[i].node)
       /\ index_of[m] <= index_of[work[i].node]
  /\ \A i \in DOMAIN work, y \in On :
       /\ index_of[work[i].node] <= index_of[y]
       /\ \A j \in DOMAIN work : i < j => index_of[y] < index_of[work[j].node]
       => \A z \in Followed(y) \cap On : low[work[i].node] <= index_of[z]

TarjanInv == Numbered /\ Stacked /\ Connected /\ Linked

-----------------------------------------------------------------------------
(* Sequences of calls and of packages *)

LEMMA FirstIn == ASSUME NEW S \in SUBSET Sources, S # {} PROVE First(S) \in S
<1>1. S \subseteq Nat  BY SourcesAssumption
<1>2. PICK m \in S : \A k \in S : <<k, m>> \notin OpToRel(<, Nat)
  BY <1>1, WFMin, NatLessThanWellFounded, Zenon
<1>3. \A k \in S : ~(k < m)
  BY <1>1, <1>2, Zenon DEF OpToRel
<1>4. \A k \in S : m <= k  BY <1>1, <1>3
<1>. QED  BY <1>4, Zenon DEF First

LEMMA CounterIs == counter = Cardinality(Seen) /\ IsFiniteSet(Seen)
<1>1. Seen \subseteq Sources  BY DEF Seen
<1>2. IsFiniteSet(Seen)  BY <1>1, SourcesAssumption, FS_Subset
<1>. QED  BY <1>2 DEF counter, Seen

LEMMA CounterNext == counter' = Cardinality(Seen') /\ IsFiniteSet(Seen')
<1>1. Seen' \subseteq Sources  BY DEF Seen
<1>2. IsFiniteSet(Seen')  BY <1>1, SourcesAssumption, FS_Subset
<1>. QED  BY <1>2 DEF counter, Seen

\* What is above a package on the stack, and what is below.
LEMMA Cut ==
  ASSUME Numbered, Stacked, NEW n \in On,
         NEW rest, rest = SubSeq(stack, 1, Len(stack) - Cardinality(Above(n)))
  PROVE  /\ {stack[i] : i \in Above(n)} = {y \in On : index_of[n] <= index_of[y]}
         /\ rest \in Seq(Sources) /\ DOMAIN rest \subseteq DOMAIN stack
         /\ \A i \in DOMAIN rest : rest[i] = stack[i]
         /\ Range(rest) = {y \in On : index_of[y] < index_of[n]}
<1>1. PICK p \in DOMAIN stack : stack[p] = n  BY DEF On, Range
<1>2. /\ DOMAIN stack = 1..Len(stack) /\ Len(stack) \in Nat
      /\ \A i \in DOMAIN stack : stack[i] \in Sources /\ index_of[stack[i]] \in Int
  BY DEF Numbered
<1>3. \A i \in DOMAIN stack : /\ i < p => index_of[stack[i]] < index_of[n]
                              /\ p <= i => index_of[n] <= index_of[stack[i]]
  BY <1>1, <1>2 DEF Stacked
<1>4. Above(n) = p..Len(stack)
  <2>1. ASSUME NEW j \in DOMAIN stack, stack[j] = n PROVE j = p
    BY <1>1, <1>2, <2>1 DEF Stacked
  <2>. QED  BY <1>1, <1>2, <2>1 DEF Above
<1>5. Cardinality(Above(n)) = Len(stack) - p + 1
  BY <1>1, <1>2, <1>4, FS_Interval
<1>6. rest = SubSeq(stack, 1, p - 1)  BY <1>1, <1>2, <1>5
<1>7. /\ rest \in Seq(Sources) /\ Len(rest) = p - 1 /\ DOMAIN rest = 1..(p - 1)
      /\ \A i \in DOMAIN rest : rest[i] = stack[i]
  <2>1. p - 1 \in Int /\ \A i \in 1..(p - 1) : stack[i] \in Sources  BY <1>1, <1>2
  <2>2. /\ rest \in Seq(Sources) /\ Len(rest) = p - 1
        /\ \A i \in 1..(p - 1) : rest[i] = stack[1 + i - 1]
    <3>1. /\ p \in Int /\ 1 <= p /\ 1 \in Int /\ (p - 1) - 1 + 1 = p - 1
          /\ 1 <= p - 1 \/ p - 1 = 0
      BY <1>1, <1>2
    <3>2. /\ SubSeq(stack, 1, p - 1) \in Seq(Sources)
          /\ Len(SubSeq(stack, 1, p - 1)) = IF 1 <= p - 1 THEN (p - 1) - 1 + 1 ELSE 0
          /\ \A i \in 1..((p - 1) - 1 + 1) : SubSeq(stack, 1, p - 1)[i] = stack[1 + i - 1]
      BY <2>1, <3>1, SubSeqProperties
    <3>. QED  BY <1>6, <3>1, <3>2
  <2>. QED  BY <1>1, <1>2, <2>2
<1>8. Range(rest) = {y \in On : index_of[y] < index_of[n]}
  <2>1. ASSUME NEW y \in Range(rest) PROVE y \in On /\ index_of[y] < index_of[n]
    <3>1. PICK i \in 1..(p - 1) : y = stack[i]  BY <1>7 DEF Range
    <3>. QED  BY <1>1, <1>2, <1>3, <3>1 DEF On, Range
  <2>2. ASSUME NEW y \in On, index_of[y] < index_of[n] PROVE y \in Range(rest)
    <3>1. PICK i \in DOMAIN stack : y = stack[i]  BY DEF On, Range
    <3>2. i < p  BY <1>1, <1>2, <1>3, <2>2, <3>1
    <3>3. i \in DOMAIN rest  BY <1>1, <1>2, <1>7, <3>1, <3>2
    <3>. QED  BY <1>7, <3>1, <3>3 DEF Range
  <2>. QED  BY <2>1, <2>2
<1>9. {stack[i] : i \in Above(n)} = {y \in On : index_of[n] <= index_of[y]}
  <2>1. ASSUME NEW i \in Above(n)
        PROVE  stack[i] \in On /\ index_of[n] <= index_of[stack[i]]
    BY <1>1, <1>2, <1>3, <1>4, <2>1 DEF On, Range
  <2>2. ASSUME NEW y \in On, index_of[n] <= index_of[y] PROVE \E i \in Above(n) : y = stack[i]
    <3>1. PICK i \in DOMAIN stack : y = stack[i]  BY DEF On, Range
    <3>2. p <= i  BY <1>1, <1>2, <1>3, <2>2, <3>1
    <3>. QED  BY <1>2, <1>4, <3>1, <3>2
  <2>. QED  BY <2>1, <2>2
<1>. QED  BY <1>1, <1>2, <1>7, <1>8, <1>9

\* The calls once the top one has taken its next neighbour.
LEMMA ConsumedIs ==
  ASSUME Numbered, work # <<>>
  PROVE  /\ Len(work) \in DOMAIN work /\ DOMAIN work = 1..Len(work)
         /\ Top = work[Len(work)] /\ Top \in Call
         /\ Consumed \in Seq(Call) /\ Len(Consumed) = Len(work) /\ DOMAIN Consumed = DOMAIN work
         /\ \A i \in DOMAIN work :
              /\ Consumed[i].node = work[i].node
              /\ Consumed[i].rest = IF i = Len(work) THEN work[i].rest \ {Neighbour}
                                                     ELSE work[i].rest
<1>1. work \in Seq(Call) /\ Len(work) \in Nat /\ DOMAIN work = 1..Len(work) /\ Len(work) # 0
  BY DEF Numbered
<1>2. Len(work) \in DOMAIN work  BY <1>1
<1>3. \A i \in DOMAIN work : work[i] \in Call  BY <1>1
<1>4. \A i \in DOMAIN work :
        Consumed[i] = IF i = Len(work) THEN [work[i] EXCEPT !.rest = @ \ {Neighbour}] ELSE work[i]
  BY <1>1 DEF Consumed
<1>5. \A i \in DOMAIN work : Consumed[i] \in Call  BY <1>3, <1>4 DEF Call
<1>6. DOMAIN Consumed = 1..Len(work)  BY <1>1 DEF Consumed
<1>7. Consumed \in Seq(Call) /\ Len(Consumed) = Len(work)
  <2>1. Consumed \in [1..Len(work) -> Call]  BY <1>1, <1>5, <1>6 DEF Consumed
  <2>. QED  BY <1>1, <1>6, <2>1
<1>. QED  BY <1>1, <1>2, <1>3, <1>4, <1>6, <1>7 DEF Top, Call

LEMMA FrontIs ==
  ASSUME Numbered, work # <<>>
  PROVE  /\ Front(work) \in Seq(Call) /\ Len(Front(work)) = Len(work) - 1
         /\ DOMAIN Front(work) = 1..(Len(work) - 1)
         /\ \A i \in 1..(Len(work) - 1) : Front(work)[i] = work[i]
         /\ Front(work) = <<>> <=> Len(work) = 1
<1>1. work \in Seq(Call) /\ Len(work) \in Nat /\ DOMAIN work = 1..Len(work) /\ Len(work) # 0
  BY DEF Numbered
<1>2. \A i \in 1..(Len(work) - 1) : work[i] \in Call  BY <1>1
<1>3. /\ Front(work) \in Seq(Call) /\ Len(Front(work)) = Len(work) - 1
      /\ \A i \in 1..(Len(work) - 1) : Front(work)[i] = work[1 + i - 1]
  BY <1>1, <1>2, SubSeqProperties DEF Front
<1>. QED  BY <1>1, <1>3

-----------------------------------------------------------------------------
(* The steps *)

\* What the graph says stays.
LEMMA GraphStays ==
  ASSUME graph' = graph, comps' = comps
  PROVE  Emitted' = Emitted /\ \A y : R(y)' = R(y)
BY DEF Emitted, R

\* A call is one of a stacked package, which was seen.
LEMMA WorkFacts ==
  ASSUME TarjanInv
  PROVE  /\ On \subseteq Seen /\ Seen \subseteq Sources
         /\ Len(work) \in Nat /\ DOMAIN work = 1..Len(work)
         /\ Len(stack) \in Nat /\ DOMAIN stack = 1..Len(stack)
         /\ \A i \in DOMAIN work : work[i] \in Call /\ work[i].node \in On
         /\ \A y \in Seen : index_of[y] \in Int /\ low[y] \in Int /\ graph[y] \subseteq Sources
BY DEF TarjanInv, Numbered, Stacked, Seen

LEMMA NumberKeeps ==
  ASSUME TarjanInv, NEW n \in Sources, Unseen(n),
         NEW calls \in Seq(Call), Len(calls) = Len(work),
         \A i \in DOMAIN work : /\ calls[i].node = work[i].node
                                /\ calls[i].rest \subseteq work[i].rest
                                /\ work[i].rest \subseteq calls[i].rest \cup {n}
                                /\ n \in R(work[i].node),
         Number(n, calls)
  PROVE  TarjanInv'
<1>. DEFINE k == Len(work) + 1
<1>0. /\ On \subseteq Seen /\ Seen \subseteq Sources
      /\ Len(work) \in Nat /\ DOMAIN work = 1..Len(work) /\ DOMAIN calls = DOMAIN work
      /\ Len(stack) \in Nat /\ DOMAIN stack = 1..Len(stack)
      /\ \A i \in DOMAIN work : calls[i] \in Call /\ work[i].node \in On
      /\ \A y \in Seen : index_of[y] \in Int /\ low[y] \in Int /\ graph[y] \subseteq Sources
  BY WorkFacts
<1>1. /\ graph' = graph /\ comps' = comps /\ graph \in [Sources -> SUBSET Sources]
      /\ Emitted' = Emitted /\ \A y : R(y)' = R(y)
  BY GraphStays DEF Number, TarjanInv, Numbered
<1>2. /\ index_of' \in [Sources -> Int] /\ low' \in [Sources -> Int]
      /\ index_of'[n] = counter /\ low'[n] = counter /\ counter \in Nat
      /\ \A y \in Sources : y # n => index_of'[y] = index_of[y] /\ low'[y] = low[y]
  BY DEF Number, TarjanInv, Numbered
<1>3. n \notin Seen /\ Seen' = Seen \cup {n}
  BY <1>2 DEF Seen, Unseen
<1>4. counter' = counter + 1
  BY <1>2, <1>3, CounterIs, CounterNext, FS_AddElement
<1>5. /\ stack' \in Seq(Sources) /\ Len(stack') = Len(stack) + 1
      /\ DOMAIN stack' = 1..(Len(stack) + 1)
      /\ \A i \in DOMAIN stack : stack'[i] = stack[i]
      /\ stack'[Len(stack) + 1] = n
  BY <1>0 DEF Number, TarjanInv, Numbered
<1>6. On' = On \cup {n}
  BY <1>0, <1>5 DEF On, Range
<1>7. /\ work' \in Seq(Call) /\ Len(work') = k /\ DOMAIN work' = 1..k
      /\ DOMAIN work' = DOMAIN work \cup {k} /\ k \notin DOMAIN work /\ k \in Nat
      /\ work'[k].node = n /\ work'[k].rest = graph[n]
      /\ \A i \in DOMAIN work : /\ work'[i].node = work[i].node /\ i < k /\ i \in Nat
                                /\ work'[i].rest \subseteq work[i].rest
                                /\ work[i].rest \subseteq work'[i].rest \cup {n}
  <2>1. [node |-> n, rest |-> graph[n]] \in Call  BY <1>1 DEF Call
  <2>2. work' = Append(calls, [node |-> n, rest |-> graph[n]])  BY DEF Number
  <2>3. /\ work' \in Seq(Call) /\ Len(work') = k /\ DOMAIN work' = 1..k
        /\ work'[k] = [node |-> n, rest |-> graph[n]]
        /\ \A i \in DOMAIN work : work'[i] = calls[i]
    BY <1>0, <2>1, <2>2
  <2>. QED  BY <1>0, <2>3
<1>. HIDE DEF k
<1>8. /\ \A y \in Seen : Followed(y)' \subseteq Followed(y) \cup {n}
      /\ Followed(n)' = {}
  <2>1. graph[n] \subseteq Owed(n)'  BY <1>7 DEF Owed
  <2>2. ASSUME NEW y \in Seen PROVE Owed(y) \subseteq Owed(y)' \cup {n}
    BY <1>7 DEF Owed
  <2>. QED  BY <1>1, <2>1, <2>2 DEF Followed
<1>9. \A y \in Seen : /\ y # n /\ index_of'[y] = index_of[y] /\ low'[y] = low[y]
                      /\ index_of[y] < counter
  BY <1>0, <1>2, <1>3 DEF TarjanInv, Numbered
<1>10. Numbered'
  <2>1. \A y \in Seen' : index_of'[y] \in 0..(counter' - 1)
    BY <1>0, <1>2, <1>3, <1>4, <1>9 DEF TarjanInv, Numbered
  <2>2. \A x, y \in Seen' : index_of'[x] = index_of'[y] => x = y
    BY <1>0, <1>2, <1>3, <1>9 DEF TarjanInv, Numbered
  <2>3. graph' \in [Sources -> SUBSET Sources] /\ comps' \in Seq(SUBSET Sources) /\ counter' \in Nat
    BY <1>1, <1>2, <1>4 DEF TarjanInv, Numbered
  <2>. QED  BY <1>2, <1>5, <1>7, <2>1, <2>2, <2>3 DEF Numbered
<1>11. Stacked'
  <2>1. Seen' = Emitted' \cup On' /\ Emitted' \cap On' = {}
    BY <1>1, <1>3, <1>6 DEF TarjanInv, Stacked
  <2>2. \A i, j \in DOMAIN stack' : i < j => index_of'[stack'[i]] < index_of'[stack'[j]]
    <3>1. \A i \in DOMAIN stack : stack[i] \in Seen  BY <1>0 DEF On, Range
    <3>2. SUFFICES ASSUME NEW i \in DOMAIN stack', NEW j \in DOMAIN stack', i < j
                   PROVE  index_of'[stack'[i]] < index_of'[stack'[j]]
      OBVIOUS
    <3>3. i \in DOMAIN stack  BY <1>0, <1>5, <3>2
    <3>4. index_of'[stack'[i]] = index_of[stack[i]] /\ index_of[stack[i]] < counter
      BY <1>5, <1>9, <3>1, <3>3
    <3>5. CASE j \in DOMAIN stack
      BY <1>5, <1>9, <3>1, <3>2, <3>3, <3>4, <3>5 DEF TarjanInv, Stacked
    <3>6. CASE j = Len(stack) + 1  BY <1>2, <1>5, <3>4, <3>6
    <3>. QED  BY <1>0, <1>5, <3>5, <3>6
  <2>3. \A i \in DOMAIN work' : work'[i].node \in On' /\ work'[i].rest \subseteq graph[work'[i].node]
    <3>1. n \in On'  BY <1>6
    <3>2. ASSUME NEW i \in DOMAIN work
          PROVE  work'[i].node \in On' /\ work'[i].rest \subseteq graph[work'[i].node]
      BY <1>6, <1>7, <3>2 DEF TarjanInv, Stacked
    <3>. QED  BY <1>7, <3>1, <3>2
  <2>4. \A i, j \in DOMAIN work' : i < j => index_of'[work'[i].node] < index_of'[work'[j].node]
    <3>1. SUFFICES ASSUME NEW i \in DOMAIN work', NEW j \in DOMAIN work', i < j
                   PROVE  index_of'[work'[i].node] < index_of'[work'[j].node]
      OBVIOUS
    <3>2. i \in DOMAIN work  BY <1>7, <3>1
    <3>3. /\ work'[i].node = work[i].node /\ work[i].node \in Seen
          /\ index_of'[work'[i].node] = index_of[work[i].node]
          /\ index_of[work[i].node] < counter
      BY <1>0, <1>7, <1>9, <3>2
    <3>4. CASE j \in DOMAIN work
      BY <1>0, <1>7, <1>9, <3>1, <3>2, <3>3, <3>4 DEF TarjanInv, Stacked
    <3>5. CASE j = k  BY <1>2, <1>7, <3>3, <3>5
    <3>. QED  BY <1>7, <3>4, <3>5
  <2>5. \A y \in Seen' : Followed(y)' \subseteq Seen'
    BY <1>3, <1>8 DEF TarjanInv, Stacked
  <2>. QED  BY <1>1, <2>1, <2>2, <2>3, <2>4, <2>5 DEF TarjanInv, Stacked
<1>12. Connected'
  <2>0. n \in R(n)  BY <1>1, ReachStep DEF R
  <2>1. ASSUME NEW i \in DOMAIN work', NEW y \in On',
               index_of'[work'[i].node] <= index_of'[y]
        PROVE  y \in R(work'[i].node)
    <3>1. CASE i = k
      BY <1>0, <1>2, <1>6, <1>7, <1>9, <2>0, <2>1, <3>1
    <3>2. CASE i \in DOMAIN work
      <4>1. work'[i].node = work[i].node /\ work[i].node \in Seen  BY <1>0, <1>7, <3>2
      <4>. QED  BY <1>0, <1>6, <1>9, <2>1, <3>2, <4>1 DEF TarjanInv, Connected
    <3>. QED  BY <1>7, <3>1, <3>2
  <2>2. ASSUME NEW y \in On'
        PROVE  \E i \in DOMAIN work' : index_of'[work'[i].node] <= index_of'[y] /\ work'[i].node \in R(y)
    <3>1. CASE y = n
      <4>1. k \in DOMAIN work' /\ work'[k].node = n  BY <1>7
      <4>2. index_of'[n] <= index_of'[n]  BY <1>2
      <4>. QED  BY <2>0, <3>1, <4>1, <4>2
    <3>2. CASE y \in On
      <4>1. PICK i \in DOMAIN work : index_of[work[i].node] <= index_of[y] /\ work[i].node \in R(y)
        BY <3>2 DEF TarjanInv, Connected
      <4>. QED  BY <1>0, <1>7, <1>9, <3>2, <4>1
    <3>. QED  BY <1>6, <3>1, <3>2
  <2>. QED  BY <1>1, <2>1, <2>2 DEF Connected
<1>13. Linked'
  <2>0. n \in R(n)  BY <1>1, ReachStep DEF R
  <2>1. ASSUME NEW i \in DOMAIN work'
        PROVE  \E m \in On' : /\ low'[work'[i].node] = index_of'[m] /\ m \in R(work'[i].node)
                              /\ index_of'[m] <= index_of'[work'[i].node]
    <3>1. CASE i = k
      <4>1. work'[i].node = n /\ n \in On'  BY <1>6, <1>7, <3>1
      <4>. QED  BY <1>2, <2>0, <4>1
    <3>2. CASE i \in DOMAIN work
      <4>1. PICK m \in On : /\ low[work[i].node] = index_of[m] /\ m \in R(work[i].node)
                            /\ index_of[m] <= index_of[work[i].node]
        BY <3>2 DEF TarjanInv, Linked
      <4>2. /\ work'[i].node = work[i].node /\ m \in On'
            /\ index_of'[m] = index_of[m] /\ low'[work[i].node] = low[work[i].node]
            /\ index_of'[work[i].node] = index_of[work[i].node]
        BY <1>0, <1>6, <1>7, <1>9, <3>2
      <4>. QED  BY <4>1, <4>2
    <3>3. i = k \/ i \in DOMAIN work  BY <1>7
    <3>. QED  BY <3>1, <3>2, <3>3
  <2>2. ASSUME NEW i \in DOMAIN work', NEW y \in On',
               index_of'[work'[i].node] <= index_of'[y],
               \A j \in DOMAIN work' : i < j => index_of'[y] < index_of'[work'[j].node],
               NEW z \in Followed(y)' \cap On'
        PROVE  low'[work'[i].node] <= index_of'[z]
    <3>1. CASE i = k
      <4>1. y = n  BY <1>0, <1>2, <1>6, <1>7, <1>9, <2>2, <3>1
      <4>. QED  BY <1>8, <2>2, <4>1
    <3>2. CASE i \in DOMAIN work
      <4>1. y # n /\ y \in On  BY <1>2, <1>6, <1>7, <2>2, <3>2
      <4>2. z = n \/ z \in Followed(y) \cap On  BY <1>0, <1>6, <1>8, <2>2, <4>1
      <4>3. /\ work'[i].node = work[i].node /\ work[i].node \in Seen
            /\ low'[work'[i].node] = low[work[i].node]
        BY <1>0, <1>7, <1>9, <3>2
      <4>4. CASE z = n
        <5>1. PICK m \in On : low[work[i].node] = index_of[m]
          BY <3>2 DEF TarjanInv, Linked
        <5>. QED  BY <1>0, <1>2, <1>9, <4>3, <4>4, <5>1
      <4>5. CASE z \in Followed(y) \cap On
        <5>1. index_of[work[i].node] <= index_of[y]  BY <1>0, <1>9, <2>2, <4>1, <4>3
        <5>2. \A j \in DOMAIN work : i < j => index_of[y] < index_of[work[j].node]
          BY <1>0, <1>7, <1>9, <2>2, <4>1
        <5>3. low[work[i].node] <= index_of[z]
          BY <3>2, <4>1, <4>5, <5>1, <5>2 DEF TarjanInv, Linked
        <5>. QED  BY <1>0, <1>9, <4>3, <4>5, <5>3
      <4>. QED  BY <4>2, <4>4, <4>5
    <3>. QED  BY <1>7, <3>1, <3>2
  <2>. QED  BY <1>1, <2>1, <2>2 DEF Linked
<1>. QED  BY <1>10, <1>11, <1>12, <1>13 DEF TarjanInv

LEMMA StartRootKeeps == TarjanInv /\ StartRoot => TarjanInv'
<1>. SUFFICES ASSUME TarjanInv, StartRoot PROVE TarjanInv'  OBVIOUS
<1>. DEFINE S == {n \in Sources : Unseen(n)}
            n == First(S)
<1>1. n \in S  BY FirstIn DEF StartRoot
<1>2. n \in Sources /\ Unseen(n)  BY <1>1
<1>3. /\ Number(n, work) /\ work = <<>> /\ work \in Seq(Call)
  BY DEF StartRoot, TarjanInv, Numbered
<1>. HIDE DEF n, S
<1>4. DOMAIN work = {}  BY <1>3
<1>. QED  BY <1>2, <1>3, <1>4, NumberKeeps

LEMMA DescendKeeps == TarjanInv /\ Descend => TarjanInv'
<1>. SUFFICES ASSUME TarjanInv, Descend PROVE TarjanInv'  OBVIOUS
<1>. DEFINE n == Neighbour
            k == Len(work)
<1>0. Numbered /\ work # <<>>  BY DEF TarjanInv, Descend
<1>1. /\ k \in DOMAIN work /\ Top = work[k] /\ Top \in Call
      /\ Consumed \in Seq(Call) /\ Len(Consumed) = Len(work) /\ DOMAIN work = 1..k
      /\ \A i \in DOMAIN work :
              /\ Consumed[i].node = work[i].node
              /\ Consumed[i].rest = IF i = k THEN work[i].rest \ {n} ELSE work[i].rest
  BY <1>0, ConsumedIs
<1>2. n \in Top.rest
  <2>1. Top.rest \in SUBSET Sources /\ Top.rest # {}  BY <1>1 DEF Call, Descend
  <2>. QED  BY <2>1, FirstIn DEF Neighbour
<1>3. /\ Number(n, Consumed) /\ Unseen(n)  BY DEF Descend
<1>. HIDE DEF n, k
<1>4. /\ graph \in [Sources -> SUBSET Sources] /\ On \subseteq Sources /\ work[k].node \in On
      /\ \A i \in DOMAIN work : work[i].node \in On
      /\ \A y \in On : index_of[y] \in Int
  BY <1>1, WorkFacts DEF TarjanInv, Numbered
<1>5. n \in graph[work[k].node] /\ n \in Sources
  BY <1>1, <1>2, <1>4 DEF TarjanInv, Stacked
<1>6. ASSUME NEW i \in DOMAIN work PROVE n \in R(work[i].node)
  <2>1. index_of[work[i].node] <= index_of[work[k].node]
    BY <1>1, <1>4 DEF TarjanInv, Stacked
  <2>2. work[k].node \in R(work[i].node)
    BY <1>4, <2>1 DEF TarjanInv, Connected
  <2>3. n \in R(work[k].node)  BY <1>4, <1>5, ReachStep DEF R
  <2>. QED  BY <1>4, <2>2, <2>3, ReachTrans DEF R
<1>7. \A i \in DOMAIN work : /\ Consumed[i].node = work[i].node
                             /\ Consumed[i].rest \subseteq work[i].rest
                             /\ work[i].rest \subseteq Consumed[i].rest \cup {n}
                             /\ n \in R(work[i].node)
  BY <1>1, <1>6
<1>. QED  BY <1>1, <1>3, <1>5, <1>7, NumberKeeps

\* The top call is the youngest, and no other is of the same package.
LEMMA TopIs ==
  ASSUME TarjanInv, work # <<>>
  PROVE  /\ Len(work) \in DOMAIN work /\ Top = work[Len(work)] /\ Top.node \in On
         /\ \A i \in DOMAIN work :
              /\ index_of[work[i].node] <= index_of[Top.node]
              /\ i # Len(work) => index_of[work[i].node] < index_of[Top.node]
              /\ work[i].node = Top.node => i = Len(work)
         /\ graph \in [Sources -> SUBSET Sources]
<1>1. /\ Len(work) \in DOMAIN work /\ DOMAIN work = 1..Len(work) /\ Top = work[Len(work)]
  BY ConsumedIs DEF TarjanInv
<1>2. /\ \A i \in DOMAIN work : work[i].node \in On /\ index_of[work[i].node] \in Int
      /\ graph \in [Sources -> SUBSET Sources]
  BY WorkFacts DEF TarjanInv, Numbered
<1>3. ASSUME NEW i \in DOMAIN work, i # Len(work)
      PROVE  index_of[work[i].node] < index_of[Top.node]
  BY <1>1, <1>3 DEF TarjanInv, Stacked
<1>. QED  BY <1>1, <1>2, <1>3

LEMMA CrossKeeps == TarjanInv /\ Cross => TarjanInv'
<1>. SUFFICES ASSUME TarjanInv, Cross PROVE TarjanInv'  OBVIOUS
<1>. PICK n, k, t : n = Neighbour /\ k = Len(work) /\ t = Top.node  OBVIOUS
<1>0. Numbered /\ work # <<>>  BY DEF TarjanInv, Cross
<1>1. /\ k \in DOMAIN work /\ Top = work[k] /\ t = work[k].node /\ Top \in Call
      /\ Consumed \in Seq(Call) /\ DOMAIN Consumed = DOMAIN work
      /\ \A i \in DOMAIN work :
              /\ Consumed[i].node = work[i].node
              /\ Consumed[i].rest = IF i = k THEN work[i].rest \ {n} ELSE work[i].rest
      /\ DOMAIN work = 1..k
  BY <1>0, ConsumedIs
<1>2. n \in work[k].rest
  <2>1. Top.rest \in SUBSET Sources /\ Top.rest # {}  BY <1>1 DEF Call, Cross
  <2>. QED  BY <1>1, <2>1, FirstIn DEF Neighbour
<1>3. /\ t \in On /\ t \in Sources /\ low[t] \in Int
      /\ \A i \in DOMAIN work : work[i].node = t => i = k
      /\ graph \in [Sources -> SUBSET Sources]
      /\ low \in [Sources -> Int] /\ index_of \in [Sources -> Int]
  BY <1>0, TopIs, WorkFacts DEF Numbered
<1>4. n \in graph[t] /\ n \in Seen
  <2>1. n \in graph[t]  BY <1>1, <1>2 DEF TarjanInv, Stacked
  <2>2. ~Unseen(n)  BY DEF Cross
  <2>. QED  BY <1>3, <2>1, <2>2 DEF Seen
<1>5. /\ graph' = graph /\ comps' = comps /\ index_of' = index_of /\ stack' = stack
      /\ work' = Consumed
      /\ Emitted' = Emitted /\ \A y : R(y)' = R(y)
  BY GraphStays DEF Cross
<1>6. Seen' = Seen /\ On' = On /\ counter' = counter
  BY <1>5 DEF Seen, On, counter, Unseen
<1>w. /\ work' \in Seq(Call) /\ DOMAIN work' = DOMAIN work
      /\ \A i \in DOMAIN work :
           /\ work'[i].node = work[i].node /\ work'[i].rest \subseteq work[i].rest
           /\ work[i].rest \subseteq work'[i].rest \cup {n}
           /\ i # k => work'[i].rest = work[i].rest
  BY <1>1, <1>5
<1>7. /\ low' \in [Sources -> Int]
      /\ \A y \in Sources : y # t => low'[y] = low[y]
      /\ low'[t] <= low[t]
      /\ low'[t] = low[t] \/ (low'[t] = index_of[n] /\ n \in On)
      /\ n \in On => low'[t] <= index_of[n]
  <2>1. index_of[n] \in Int /\ n \in Sources  BY <1>3, <1>4
  <2>2. low' = IF n \in On THEN [low EXCEPT ![t] = Least(@, index_of[n])] ELSE low
    BY DEF Cross, OnStack, On
  <2>3. CASE n \in On
    <3>1. low' = [low EXCEPT ![t] = IF low[t] < index_of[n] THEN low[t] ELSE index_of[n]]
      BY <2>2, <2>3 DEF Least
    <3>2. low'[t] = IF low[t] < index_of[n] THEN low[t] ELSE index_of[n]
      BY <1>3, <3>1
    <3>. QED  BY <1>3, <2>1, <2>3, <3>1, <3>2
  <2>4. CASE n \notin On  BY <1>3, <2>2, <2>4
  <2>. QED  BY <2>3, <2>4
<1>8. /\ \A y \in Seen : y # t => Followed(y)' \subseteq Followed(y)
      /\ Followed(t)' \subseteq Followed(t) \cup {n}
  <2>1. ASSUME NEW y \in Seen, y # t PROVE Owed(y) \subseteq Owed(y)'
    BY <1>1, <1>w, <2>1 DEF Owed
  <2>2. Owed(t) \subseteq Owed(t)' \cup {n}
    BY <1>w DEF Owed
  <2>. QED  BY <1>5, <2>1, <2>2 DEF Followed
<1>9. Numbered'
  BY <1>w, <1>5, <1>6, <1>7 DEF TarjanInv, Numbered
<1>10. Stacked'
  <2>1. \A i \in DOMAIN work' : work'[i].node \in On' /\ work'[i].rest \subseteq graph[work'[i].node]
    BY <1>w, <1>5, <1>6 DEF TarjanInv, Stacked
  <2>2. \A i, j \in DOMAIN work' : i < j => index_of'[work'[i].node] < index_of'[work'[j].node]
    <3>1. \A i \in DOMAIN work' : i \in DOMAIN work /\ work'[i].node = work[i].node  BY <1>w
    <3>. QED  BY <1>5, <3>1 DEF TarjanInv, Stacked
  <2>3. \A y \in Seen' : Followed(y)' \subseteq Seen'
    BY <1>3, <1>4, <1>6, <1>8 DEF TarjanInv, Stacked
  <2>. QED  BY <1>5, <1>6, <2>1, <2>2, <2>3 DEF TarjanInv, Stacked
<1>11. Connected'
  <2>1. \A i \in DOMAIN work : work'[i].node = work[i].node  BY <1>w
  <2>2. DOMAIN work' = DOMAIN work  BY <1>w
  <2>. QED  BY <1>5, <1>6, <2>1, <2>2 DEF TarjanInv, Connected
<1>12. Linked'
  <2>0. /\ DOMAIN work' = DOMAIN work
        /\ \A i \in DOMAIN work : /\ work'[i].node = work[i].node /\ work[i].node \in On
                                  /\ work[i].node \in Sources
    BY <1>w, WorkFacts
  <2>1. ASSUME NEW i \in DOMAIN work
        PROVE  \E m \in On : /\ low'[work[i].node] = index_of[m] /\ m \in R(work[i].node)
                             /\ index_of[m] <= index_of[work[i].node]
    <3>1. PICK m \in On : /\ low[work[i].node] = index_of[m] /\ m \in R(work[i].node)
                          /\ index_of[m] <= index_of[work[i].node]
      BY DEF TarjanInv, Linked
    <3>2. CASE low'[work[i].node] = low[work[i].node]  BY <3>1, <3>2
    <3>3. CASE low'[work[i].node] # low[work[i].node]
      <4>1. work[i].node = t /\ low'[t] = index_of[n] /\ n \in On
        BY <1>7, <2>0, <3>3
      <4>2. n \in R(t)  BY <1>3, <1>4, ReachStep DEF R
      <4>3. index_of[m] \in Int /\ index_of[t] \in Int /\ index_of[n] \in Int
        BY <1>3, <4>1, WorkFacts
      <4>4. low[t] = index_of[m] /\ low'[t] <= low[t] /\ index_of[m] <= index_of[t]
        BY <1>7, <3>1, <4>1
      <4>. QED  BY <4>1, <4>2, <4>3, <4>4
    <3>. QED  BY <3>2, <3>3
  <2>2. ASSUME NEW i \in DOMAIN work, NEW y \in On,
               index_of[work[i].node] <= index_of[y],
               \A j \in DOMAIN work : i < j => index_of[y] < index_of[work[j].node],
               NEW z \in Followed(y)' \cap On
        PROVE  low'[work[i].node] <= index_of[z]
    <3>0. /\ low'[work[i].node] <= low[work[i].node] /\ low[work[i].node] \in Int
          /\ low'[work[i].node] \in Int /\ index_of[z] \in Int /\ y \in Seen
      <4>1. y \in Seen /\ z \in Sources /\ index_of[z] \in Int  BY <1>3, WorkFacts
      <4>2. low[work[i].node] \in Int /\ low'[work[i].node] \in Int  BY <1>3, <1>7, <2>0
      <4>3. low'[work[i].node] <= low[work[i].node]  BY <1>7, <2>0, <4>2
      <4>. QED  BY <4>1, <4>2, <4>3
    <3>1. CASE z \in Followed(y)
      <4>1. low[work[i].node] <= index_of[z]  BY <2>2, <3>1 DEF TarjanInv, Linked
      <4>. QED  BY <3>0, <4>1
    <3>2. CASE z \notin Followed(y)
      <4>1. y = t /\ z = n  BY <1>8, <2>2, <3>0, <3>2
      <4>2. i = k
        <5>1. index_of[t] \in Int  BY <1>3
        <5>2. ~(i < k)  BY <1>1, <2>2, <4>1, <5>1
        <5>. QED  BY <1>1, <5>2
      <4>. QED  BY <1>1, <1>7, <2>2, <4>1, <4>2
    <3>. QED  BY <3>1, <3>2
  <2>. QED  BY <1>5, <1>6, <2>0, <2>1, <2>2 DEF Linked
<1>. QED  BY <1>9, <1>10, <1>11, <1>12 DEF TarjanInv

\* Whatever a closed set holds reaches nothing outside it.
LEMMA ReachWithin ==
  ASSUME NEW g \in [Sources -> SUBSET Sources], NEW S \in SUBSET Sources,
         \A x \in S : g[x] \subseteq S, NEW n \in S
  PROVE  Reach(g)[n] \subseteq S
BY DEF Reach, Closed

\* The part of the stack above a call that is its own root, all of whose
\* neighbours were visited, is a component, and all it requires is out.
LEMMA Segment ==
  ASSUME TarjanInv, work # <<>>, Top.rest = {}, IsRoot(Top.node),
         NEW C, C = {y \in On : index_of[Top.node] <= index_of[y]}
  PROVE  /\ Top.node \in Sources /\ Top.node \notin Emitted
         /\ C \subseteq Sources
         /\ \A y \in C : graph[y] \subseteq Emitted \cup C
         /\ R(Top.node) \subseteq Emitted \cup C
         /\ C = Component(Reach(graph), Top.node)
<1>. PICK t, k : t = Top.node /\ k = Len(work)  OBVIOUS
<1>0. /\ On \subseteq Seen /\ Seen \subseteq Sources /\ On \subseteq Sources
      /\ DOMAIN work = 1..k
      /\ \A i \in DOMAIN work : work[i].node \in On
      /\ \A y \in Seen : index_of[y] \in Int /\ low[y] \in Int /\ graph[y] \subseteq Sources
  BY WorkFacts
<1>1. /\ k \in DOMAIN work /\ t = work[k].node /\ t \in On /\ work[k].rest = {}
      /\ \A i \in DOMAIN work : /\ index_of[work[i].node] <= index_of[t]
                                /\ work[i].node = t => i = k
      /\ graph \in [Sources -> SUBSET Sources]
  BY TopIs
<1>2. t \in Sources /\ t \notin Emitted /\ t \in C /\ C \subseteq On /\ low[t] = index_of[t]
  BY <1>0, <1>1 DEF TarjanInv, Stacked, IsRoot
<1>3. ASSUME NEW y \in C, NEW z \in graph[y] PROVE z \in Emitted \cup C
  <2>1. Followed(y) = graph[y]
    <3>1. ASSUME NEW i \in DOMAIN work, work[i].node = y PROVE work[i].rest = {}
      <4>1. index_of[y] = index_of[t]  BY <1>0, <1>1, <1>2, <3>1
      <4>2. y = t  BY <1>0, <1>1, <1>2, <4>1 DEF TarjanInv, Numbered
      <4>. QED  BY <1>1, <3>1, <4>2
    <3>. QED  BY <3>1 DEF Followed, Owed
  <2>2. z \in Emitted \cup On  BY <1>0, <1>2, <2>1 DEF TarjanInv, Stacked
  <2>3. ASSUME z \in On PROVE index_of[t] <= index_of[z]
    <3>1. \A j \in DOMAIN work : ~(k < j)  BY <1>0, <1>1
    <3>2. y \in On /\ index_of[work[k].node] <= index_of[y]  BY <1>1
    <3>. QED  BY <1>1, <1>2, <2>1, <2>3, <3>1, <3>2 DEF TarjanInv, Linked
  <2>. QED  BY <2>2, <2>3
<1>4. R(t) \subseteq Emitted \cup C
  <2>1. Emitted \subseteq Sources  BY <1>0 DEF TarjanInv, Stacked
  <2>2. \A x \in Emitted \cup C : graph[x] \subseteq Emitted \cup C
    BY <1>3 DEF TarjanInv, Stacked
  <2>3. Emitted \cup C \in SUBSET Sources /\ t \in Emitted \cup C  BY <1>0, <1>2, <2>1
  <2>. QED  BY <1>1, <2>2, <2>3, ReachWithin DEF R
<1>5. ASSUME NEW y \in C PROVE y \in R(t) /\ t \in R(y)
  <2>1. y \in R(t)  BY <1>1, <1>2 DEF TarjanInv, Connected
  <2>2. PICK i \in DOMAIN work : index_of[work[i].node] <= index_of[y] /\ work[i].node \in R(y)
    BY <1>2 DEF TarjanInv, Connected
  <2>3. work[i].node \in R(t)  BY <1>0, <1>1, <1>2, <2>1, <2>2, ReachTrans DEF R
  <2>4. work[i].node \in C  BY <1>0, <1>4, <2>3 DEF TarjanInv, Stacked
  <2>5. index_of[work[i].node] = index_of[t]  BY <1>0, <1>1, <2>4
  <2>6. work[i].node = t  BY <1>0, <1>1, <2>5 DEF TarjanInv, Numbered
  <2>. QED  BY <2>1, <2>2, <2>6
<1>6. ASSUME NEW y \in R(t), t \in R(y) PROVE y \in C
  <2>1. CASE y \in Emitted
    <3>1. Emitted \in SUBSET Sources /\ \A x \in Emitted : graph[x] \subseteq Emitted
      BY <1>0 DEF TarjanInv, Stacked
    <3>2. R(y) \subseteq Emitted  BY <1>1, <2>1, <3>1, ReachWithin DEF R
    <3>. QED  BY <1>2, <1>6, <3>2
  <2>. QED  BY <1>4, <2>1
<1>7. C = Component(Reach(graph), t)
  BY <1>5, <1>6 DEF Component, R
<1>. QED  BY <1>0, <1>2, <1>3, <1>4, <1>7

\* With the top call gone the calls below are as they were, and no package
\* owes anything more.
LEMMA RetreatCalls ==
  ASSUME TarjanInv, Retreat, NEW k, k = Len(work), NEW t, t = Top.node
  PROVE  /\ k \in Nat /\ k >= 1 /\ DOMAIN work = 1..k /\ t = work[k].node /\ t \in On
         /\ work' \in Seq(Call) /\ DOMAIN work' = 1..(k - 1) /\ Len(work') = k - 1
         /\ \A i \in 1..(k - 1) : work'[i] = work[i] /\ i \in DOMAIN work
         /\ \A i \in 1..(k - 1) : index_of[work[i].node] < index_of[t]
         /\ work = <<>> => FALSE
         /\ graph' = graph /\ index_of' = index_of
         /\ Seen' = Seen /\ counter' = counter
         /\ \A y : Followed(y)' = Followed(y)
         /\ \A y : R(y)' = R(y)
         /\ low' \in [Sources -> Int]
<1>1. work # <<>> /\ Numbered /\ Top.rest = {}  BY DEF Retreat, TarjanInv
<1>2. /\ k \in DOMAIN work /\ t = work[k].node /\ t \in On /\ work[k].rest = {}
      /\ \A i \in DOMAIN work : i # k => index_of[work[i].node] < index_of[t]
      /\ k \in Nat /\ DOMAIN work = 1..k
  BY <1>1, TopIs, WorkFacts
<1>3. /\ work' = Front(work) /\ graph' = graph /\ index_of' = index_of
      /\ low' = Pulled(work', t)
  BY DEF Retreat
<1>4. /\ work' \in Seq(Call) /\ DOMAIN work' = 1..(k - 1) /\ Len(work') = k - 1
      /\ \A i \in 1..(k - 1) : work'[i] = work[i]
  BY <1>1, <1>3, FrontIs
<1>5. Seen' = Seen /\ counter' = counter  BY <1>3 DEF Seen, counter, Unseen
<1>6. \A y : Followed(y)' = Followed(y)
  <2>1. ASSUME NEW y PROVE Owed(y)' = Owed(y)
    <3>1. \A i \in DOMAIN work' : i \in DOMAIN work /\ work'[i] = work[i]  BY <1>2, <1>4
    <3>2. \A i \in DOMAIN work : i \in DOMAIN work' \/ work[i].rest = {}  BY <1>2, <1>4
    <3>. QED  BY <3>1, <3>2 DEF Owed
  <2>. QED  BY <1>3, <2>1 DEF Followed
<1>7. low' \in [Sources -> Int]
  <2>1. low \in [Sources -> Int] /\ t \in Sources  BY <1>2, WorkFacts DEF TarjanInv, Numbered
  <2>2. low[t] \in Int  BY <2>1
  <2>3. CASE work' = <<>>  BY <1>3, <2>1, <2>3 DEF Pulled
  <2>4. CASE work' # <<>>
    <3>1. PICK p : p = work'[Len(work')].node  OBVIOUS
    <3>2. low' = [low EXCEPT ![p] = IF low[p] < low[t] THEN low[p] ELSE low[t]]
      BY <1>3, <2>4, <3>1 DEF Pulled, Least
    <3>. QED  BY <2>1, <2>2, <3>2
  <2>. QED  BY <2>3, <2>4
<1>. QED  BY <1>1, <1>2, <1>3, <1>4, <1>5, <1>6, <1>7 DEF R

\* Only the parent's link moves, down to the child's at most.
LEMMA RetreatLinks ==
  ASSUME TarjanInv, Retreat, NEW k, k = Len(work), NEW t, t = Top.node,
         NEW i \in 1..(k - 1)
  PROVE  /\ low[work[i].node] \in Int /\ low'[work[i].node] \in Int /\ low[t] \in Int
         /\ low'[work[i].node] <= low[work[i].node]
         /\ \/ low'[work[i].node] = low[work[i].node]
            \/ i = k - 1 /\ low'[work[i].node] = low[t] /\ low[t] < low[work[i].node]
         /\ i = k - 1 => low'[work[i].node] <= low[t]
<1>1. /\ k \in Nat /\ k >= 1 /\ t \in On /\ DOMAIN work = 1..k
      /\ DOMAIN work' = 1..(k - 1) /\ Len(work') = k - 1
      /\ \A j \in 1..(k - 1) : work'[j] = work[j] /\ j \in DOMAIN work
  BY RetreatCalls
<1>2. /\ \A j \in DOMAIN work : work[j].node \in Sources /\ index_of[work[j].node] \in Int
      /\ t \in Sources /\ low \in [Sources -> Int]
  BY <1>1, WorkFacts DEF TarjanInv, Numbered
<1>3. PICK p : p = work[k - 1].node  OBVIOUS
<1>4. k - 1 \in 1..(k - 1) /\ k - 1 \in DOMAIN work /\ p \in Sources
  <2>1. k \in Nat /\ i \in Nat /\ 1 <= i /\ i <= k - 1  BY <1>1
  <2>2. k - 1 \in 1..(k - 1) /\ i \in Int  BY <2>1
  <2>3. k - 1 \in DOMAIN work  BY <1>1, <2>2
  <2>. QED  BY <1>2, <1>3, <2>2, <2>3
<1>5. low' = [low EXCEPT ![p] = IF low[p] < low[t] THEN low[p] ELSE low[t]]
  <2>1. work' = Front(work) /\ low' = Pulled(work', t)  BY DEF Retreat
  <2>2. work' # <<>>  BY <1>1
  <2>3. work'[Len(work')].node = p  BY <1>1, <1>3, <1>4
  <2>. QED  BY <2>1, <2>2, <2>3 DEF Pulled, Least
<1>6. i = k - 1 \/ work[i].node # p
  <2>1. ASSUME i < k - 1 PROVE index_of[work[i].node] < index_of[p]
    BY <1>1, <1>3, <1>4, <2>1 DEF TarjanInv, Stacked
  <2>2. i \in Int /\ k \in Int /\ i <= k - 1 /\ i \in DOMAIN work  BY <1>1
  <2>3. index_of[p] \in Int  BY <1>2, <1>3, <1>4
  <2>4. ~(i < k - 1) => i = k - 1  BY <2>2
  <2>. QED  BY <2>1, <2>3, <2>4
<1>7. CASE i = k - 1
  <2>1. work[i].node = p  BY <1>3, <1>7
  <2>2. low'[p] = IF low[p] < low[t] THEN low[p] ELSE low[t]  BY <1>2, <1>4, <1>5
  <2>. QED  BY <1>2, <1>4, <1>7, <2>1, <2>2
<1>8. CASE i # k - 1 /\ work[i].node # p
  <2>1. work[i].node \in Sources  BY <1>1, <1>2
  <2>2. low'[work[i].node] = low[work[i].node]  BY <1>2, <1>5, <1>8, <2>1
  <2>. QED  BY <1>2, <1>8, <2>1, <2>2
<1>. QED  BY <1>6, <1>7, <1>8

LEMMA CloseKeeps ==
  ASSUME TarjanInv, Retreat, IsRoot(Top.node)
  PROVE  TarjanInv' /\ Emit(Top.node, Reach(graph))
<1>. PICK t, k : t = Top.node /\ k = Len(work)  OBVIOUS
<1>. DEFINE C == {y \in On : index_of[t] <= index_of[y]}
<1>0. /\ k \in Nat /\ k >= 1 /\ DOMAIN work = 1..k /\ t = work[k].node /\ t \in On
      /\ work' \in Seq(Call) /\ DOMAIN work' = 1..(k - 1)
      /\ \A i \in 1..(k - 1) : work'[i] = work[i] /\ i \in DOMAIN work
      /\ \A i \in 1..(k - 1) : index_of[work[i].node] < index_of[t]
      /\ work # <<>>
      /\ graph' = graph /\ index_of' = index_of /\ Seen' = Seen /\ counter' = counter
      /\ \A y : Followed(y)' = Followed(y)
      /\ \A y : R(y)' = R(y)
      /\ low' \in [Sources -> Int]
  BY RetreatCalls
<1>1. /\ On \subseteq Seen /\ Seen \subseteq Sources
      /\ \A i \in DOMAIN work : work[i].node \in On
      /\ \A y \in Seen : index_of[y] \in Int
      /\ low[t] = index_of[t]
  BY WorkFacts DEF IsRoot
<1>2. PICK rest : rest = SubSeq(stack, 1, Len(stack) - Cardinality(Above(t)))  OBVIOUS
<1>3. /\ {stack[i] : i \in Above(t)} = C
      /\ rest \in Seq(Sources) /\ DOMAIN rest \subseteq DOMAIN stack
      /\ \A i \in DOMAIN rest : rest[i] = stack[i]
      /\ Range(rest) = {y \in On : index_of[y] < index_of[t]}
  BY <1>0, <1>2, Cut DEF TarjanInv
<1>4. comps' = Append(comps, C) /\ stack' = rest
  BY <1>2, <1>3 DEF Retreat
<1>5. On' = {y \in On : index_of[y] < index_of[t]}  BY <1>3, <1>4 DEF On
<1>6. /\ t \in Sources /\ t \notin Emitted /\ C \subseteq Sources
      /\ \A y \in C : graph[y] \subseteq Emitted \cup C
      /\ R(t) \subseteq Emitted \cup C
      /\ C = Component(Reach(graph), t)
  BY <1>0, Segment DEF Retreat
<1>7. comps' \in Seq(SUBSET Sources) /\ Emitted' = Emitted \cup C
  <2>1. comps \in Seq(SUBSET Sources) /\ C \in SUBSET Sources  BY <1>6 DEF TarjanInv, Numbered
  <2>. HIDE DEF C
  <2>2. /\ comps' \in Seq(SUBSET Sources) /\ Len(comps') = Len(comps) + 1
        /\ \A i \in 1..Len(comps) : comps'[i] = comps[i]
        /\ comps'[Len(comps) + 1] = C
        /\ DOMAIN comps = 1..Len(comps) /\ DOMAIN comps' = 1..(Len(comps) + 1) /\ Len(comps) \in Nat
    BY <1>4, <2>1
  <2>. QED  BY <2>2 DEF Emitted
<1>8. Emit(t, Reach(graph))
  BY <1>0, <1>4, <1>6 DEF Emit, R
<1>9. Numbered'
  BY <1>0, <1>3, <1>4, <1>7 DEF TarjanInv, Numbered
<1>10. Stacked'
  <2>1. Seen' = Emitted' \cup On' /\ Emitted' \cap On' = {}
    <3>1. \A y \in On : index_of[y] < index_of[t] <=> ~(index_of[t] <= index_of[y])
      BY <1>0, <1>1
    <3>. QED  BY <1>0, <1>5, <1>7, <3>1 DEF TarjanInv, Stacked
  <2>2. \A i, j \in DOMAIN stack' : i < j => index_of'[stack'[i]] < index_of'[stack'[j]]
    BY <1>0, <1>3, <1>4 DEF TarjanInv, Stacked
  <2>3. \A i \in DOMAIN work' : work'[i].node \in On' /\ work'[i].rest \subseteq graph[work'[i].node]
    BY <1>0, <1>5 DEF TarjanInv, Stacked
  <2>4. \A i, j \in DOMAIN work' : i < j => index_of[work'[i].node] < index_of[work'[j].node]
    <3>1. \A i \in DOMAIN work' : i \in DOMAIN work /\ work'[i] = work[i]  BY <1>0
    <3>. QED  BY <3>1 DEF TarjanInv, Stacked
  <2>5. \A y \in Seen : Followed(y) \subseteq Seen  BY DEF TarjanInv, Stacked
  <2>6. \A y \in Emitted' : graph[y] \subseteq Emitted'
    BY <1>6, <1>7 DEF TarjanInv, Stacked
  <2>. QED  BY <1>0, <2>1, <2>2, <2>3, <2>4, <2>5, <2>6 DEF Stacked
<1>11. Connected'
  <2>1. \A i \in DOMAIN work' : i \in DOMAIN work /\ work'[i] = work[i]  BY <1>0
  <2>2. ASSUME NEW y \in On'
        PROVE  \E i \in DOMAIN work' : index_of[work'[i].node] <= index_of[y] /\ work'[i].node \in R(y)
    <3>1. PICK i \in DOMAIN work : index_of[work[i].node] <= index_of[y] /\ work[i].node \in R(y)
      BY <1>5 DEF TarjanInv, Connected
    <3>2. i # k  BY <1>0, <1>1, <1>5, <3>1
    <3>3. i \in DOMAIN work'  BY <1>0, <3>2
    <3>. QED  BY <2>1, <3>1, <3>3
  <2>3. \A i \in DOMAIN work', y \in On' :
          index_of[work'[i].node] <= index_of[y] => y \in R(work'[i].node)
    BY <1>5, <2>1 DEF TarjanInv, Connected
  <2>. QED  BY <1>0, <2>2, <2>3 DEF Connected
<1>12. Linked'
  <2>1. ASSUME NEW i \in DOMAIN work'
        PROVE  /\ i \in DOMAIN work /\ work'[i] = work[i] /\ i \in 1..(k - 1)
               /\ low'[work[i].node] = low[work[i].node] /\ work[i].node \in On
               /\ \E m \in On' : /\ low'[work[i].node] = index_of[m] /\ m \in R(work[i].node)
                                 /\ index_of[m] <= index_of[work[i].node]
    <3>1. i \in DOMAIN work /\ work'[i] = work[i] /\ i \in 1..(k - 1)  BY <1>0
    <3>2. PICK m \in On : /\ low[work[i].node] = index_of[m] /\ m \in R(work[i].node)
                          /\ index_of[m] <= index_of[work[i].node]
      BY <3>1 DEF TarjanInv, Linked
    <3>3. index_of[work[i].node] < index_of[t]  BY <1>0, <3>1
    <3>4. /\ index_of[m] \in Int /\ index_of[t] \in Int /\ index_of[work[i].node] \in Int
          /\ work[i].node \in On
      BY <1>0, <1>1, <3>1
    <3>5. m \in On'  BY <1>5, <3>2, <3>3, <3>4
    <3>6. low'[work[i].node] = low[work[i].node]
      BY <1>1, <3>1, <3>2, <3>3, <3>4, RetreatLinks
    <3>. QED  BY <3>1, <3>2, <3>4, <3>5, <3>6
  <2>2. ASSUME NEW i \in DOMAIN work', NEW y \in On',
               index_of[work'[i].node] <= index_of[y],
               \A j \in DOMAIN work' : i < j => index_of[y] < index_of[work'[j].node],
               NEW z \in Followed(y) \cap On'
        PROVE  low'[work'[i].node] <= index_of[z]
    <3>1. y \in On /\ z \in On /\ index_of[y] < index_of[t]  BY <1>5
    <3>2. \A j \in DOMAIN work : i < j => index_of[y] < index_of[work[j].node]
      <4>1. \A j \in DOMAIN work : j = k \/ j \in DOMAIN work'  BY <1>0
      <4>. QED  BY <1>0, <2>1, <2>2, <3>1, <4>1
    <3>. QED  BY <2>1, <2>2, <3>1, <3>2 DEF TarjanInv, Linked
  <2>. QED  BY <1>0, <2>1, <2>2 DEF Linked
<1>. QED  BY <1>8, <1>9, <1>10, <1>11, <1>12 DEF TarjanInv

LEMMA ReturnKeeps ==
  ASSUME TarjanInv, Retreat, ~IsRoot(Top.node)
  PROVE  TarjanInv'
<1>. PICK t, k : t = Top.node /\ k = Len(work)  OBVIOUS
<1>0. /\ k \in Nat /\ k >= 1 /\ DOMAIN work = 1..k /\ t = work[k].node /\ t \in On
      /\ work' \in Seq(Call) /\ DOMAIN work' = 1..(k - 1)
      /\ \A i \in 1..(k - 1) : work'[i] = work[i] /\ i \in DOMAIN work
      /\ \A i \in 1..(k - 1) : index_of[work[i].node] < index_of[t]
      /\ graph' = graph /\ index_of' = index_of /\ Seen' = Seen /\ counter' = counter
      /\ \A y : Followed(y)' = Followed(y)
      /\ \A y : R(y)' = R(y)
      /\ low' \in [Sources -> Int]
  BY RetreatCalls
<1>1. /\ On \subseteq Seen /\ Seen \subseteq Sources /\ graph \in [Sources -> SUBSET Sources]
      /\ \A i \in DOMAIN work : work[i].node \in On
      /\ \A y \in Seen : index_of[y] \in Int
      /\ low[t] # index_of[t]
  BY WorkFacts DEF IsRoot, TarjanInv, Numbered
<1>2. comps' = comps /\ stack' = stack  BY DEF Retreat
<1>3. Emitted' = Emitted /\ On' = On  BY <1>2 DEF Emitted, On
<1>4. PICK m \in On : low[t] = index_of[m] /\ m \in R(t) /\ index_of[m] < index_of[t]
  <2>1. PICK m \in On : low[t] = index_of[m] /\ m \in R(t) /\ index_of[m] <= index_of[t]
    BY <1>0 DEF TarjanInv, Linked
  <2>. QED  BY <1>0, <1>1, <2>1
<1>5. PICK o \in 1..(k - 1) : index_of[work[o].node] <= index_of[m] /\ work[o].node \in R(m)
  <2>1. PICK o \in DOMAIN work : index_of[work[o].node] <= index_of[m] /\ work[o].node \in R(m)
    BY DEF TarjanInv, Connected
  <2>2. o # k  BY <1>0, <1>1, <1>4, <2>1
  <2>3. o \in 1..(k - 1)  BY <1>0, <2>2
  <2>. QED  BY <2>1, <2>3
<1>6. \A i \in DOMAIN work' : i \in DOMAIN work /\ work'[i] = work[i] /\ i \in 1..(k - 1)
  BY <1>0
<1>7. Numbered'
  BY <1>0, <1>2 DEF TarjanInv, Numbered
<1>8. Stacked'
  <2>1. \A i \in DOMAIN work' : work'[i].node \in On /\ work'[i].rest \subseteq graph[work'[i].node]
    BY <1>6 DEF TarjanInv, Stacked
  <2>2. \A i, j \in DOMAIN work' : i < j => index_of[work'[i].node] < index_of[work'[j].node]
    BY <1>6 DEF TarjanInv, Stacked
  <2>3. \A y \in Seen : Followed(y) \subseteq Seen  BY DEF TarjanInv, Stacked
  <2>. QED  BY <1>0, <1>2, <1>3, <2>1, <2>2, <2>3 DEF TarjanInv, Stacked
<1>9. Connected'
  <2>1. ASSUME NEW y \in On
        PROVE  \E i \in DOMAIN work' : index_of[work'[i].node] <= index_of[y] /\ work'[i].node \in R(y)
    <3>1. PICK i \in DOMAIN work : index_of[work[i].node] <= index_of[y] /\ work[i].node \in R(y)
      BY DEF TarjanInv, Connected
    <3>2. CASE i # k
      <4>1. i \in DOMAIN work'  BY <1>0, <3>2
      <4>. QED  BY <1>6, <3>1, <4>1
    <3>3. CASE i = k
      <4>1. o \in DOMAIN work' /\ o \in DOMAIN work /\ work'[o] = work[o]  BY <1>0
      <4>2. index_of[work[o].node] <= index_of[y]
        <5>1. work[o].node \in On  BY <1>1, <4>1
        <5>. QED  BY <1>0, <1>1, <1>4, <1>5, <3>1, <3>3, <5>1
      <4>3. work[o].node \in R(t)  BY <1>0, <1>1, <1>4, <1>5, ReachTrans DEF R
      <4>4. work[o].node \in R(y)  BY <1>0, <1>1, <3>1, <3>3, <4>3, ReachTrans DEF R
      <4>. QED  BY <4>1, <4>2, <4>4
    <3>. QED  BY <3>2, <3>3
  <2>2. \A i \in DOMAIN work', y \in On :
          index_of[work'[i].node] <= index_of[y] => y \in R(work'[i].node)
    BY <1>6 DEF TarjanInv, Connected
  <2>. QED  BY <1>0, <1>3, <2>1, <2>2 DEF Connected
<1>10. Linked'
  <2>1. ASSUME NEW i \in DOMAIN work'
        PROVE  \E q \in On : /\ low'[work'[i].node] = index_of[q] /\ q \in R(work'[i].node)
                             /\ index_of[q] <= index_of[work'[i].node]
    <3>0. /\ i \in DOMAIN work /\ work'[i] = work[i] /\ i \in 1..(k - 1) /\ work[i].node \in On
          /\ index_of[work[i].node] \in Int /\ index_of[t] \in Int /\ index_of[m] \in Int
      BY <1>0, <1>1, <1>6
    <3>1. PICK q \in On : /\ low[work[i].node] = index_of[q] /\ q \in R(work[i].node)
                          /\ index_of[q] <= index_of[work[i].node]
      BY <3>0 DEF TarjanInv, Linked
    <3>2. CASE low'[work[i].node] = low[work[i].node]  BY <3>0, <3>1, <3>2
    <3>3. CASE low'[work[i].node] = low[t] /\ low[t] < low[work[i].node]
      <4>0. index_of[work[i].node] < index_of[t]  BY <1>0, <3>0
      <4>1. index_of[work[i].node] <= index_of[t]  BY <3>0, <4>0
      <4>2. t \in R(work[i].node)  BY <1>0, <3>0, <4>1 DEF TarjanInv, Connected
      <4>3. m \in R(work[i].node)  BY <1>1, <1>4, <3>0, <4>2, ReachTrans DEF R
      <4>4. index_of[m] <= index_of[work[i].node]
        <5>1. index_of[q] \in Int  BY <1>1
        <5>. QED  BY <1>4, <3>0, <3>1, <3>3, <5>1
      <4>. QED  BY <1>4, <3>0, <3>3, <4>3, <4>4
    <3>. QED  BY <3>0, <3>2, <3>3, RetreatLinks
  <2>2. ASSUME NEW i \in DOMAIN work', NEW y \in On,
               index_of[work'[i].node] <= index_of[y],
               \A j \in DOMAIN work' : i < j => index_of[y] < index_of[work'[j].node],
               NEW z \in Followed(y) \cap On
        PROVE  low'[work'[i].node] <= index_of[z]
    <3>0. /\ i \in DOMAIN work /\ work'[i] = work[i] /\ i \in 1..(k - 1) /\ work[i].node \in On
          /\ index_of[t] \in Int /\ index_of[y] \in Int /\ index_of[z] \in Int
      BY <1>0, <1>1, <1>6
    <3>1. /\ low'[work[i].node] \in Int /\ low[work[i].node] \in Int /\ low[t] \in Int
          /\ low'[work[i].node] <= low[work[i].node]
          /\ i = k - 1 => low'[work[i].node] <= low[t]
      BY <3>0, RetreatLinks
    <3>2. CASE index_of[y] < index_of[t]
      <4>1. \A j \in DOMAIN work : j = k \/ j \in DOMAIN work'  BY <1>0
      <4>2. \A j \in DOMAIN work : i < j => index_of[y] < index_of[work[j].node]
        BY <1>0, <1>6, <2>2, <3>2, <4>1
      <4>3. low[work[i].node] <= index_of[z]
        BY <2>2, <3>0, <4>2 DEF TarjanInv, Linked
      <4>. QED  BY <3>0, <3>1, <4>3
    <3>3. CASE index_of[t] <= index_of[y]
      <4>1. i = k - 1
        <5>1. ASSUME i < k - 1 PROVE FALSE
          <6>1. k - 1 \in DOMAIN work' /\ k - 1 \in 1..(k - 1)  BY <1>0, <3>0
          <6>2. /\ index_of[y] < index_of[work[k - 1].node] /\ index_of[work[k - 1].node] < index_of[t]
                /\ index_of[work[k - 1].node] \in Int
            BY <1>0, <1>1, <1>6, <2>2, <5>1, <6>1
          <6>. QED  BY <3>0, <3>3, <6>2
        <5>. QED  BY <1>0, <3>0, <5>1
      <4>2. k \in DOMAIN work /\ \A j \in DOMAIN work : ~(k < j)  BY <1>0
      <4>3. low[t] <= index_of[z]
        BY <1>0, <3>3, <4>2 DEF TarjanInv, Linked
      <4>. QED  BY <3>0, <3>1, <4>1, <4>3
    <3>. QED  BY <3>0, <3>2, <3>3
  <2>. QED  BY <1>0, <1>3, <2>1, <2>2 DEF Linked
<1>. QED  BY <1>7, <1>8, <1>9, <1>10 DEF TarjanInv

-----------------------------------------------------------------------------
(* The theorems *)

LEMMA TarjanInit == SccInit => TarjanInv
<1>. SUFFICES ASSUME SccInit PROVE TarjanInv  OBVIOUS
<1>1. /\ graph \in [Sources -> SUBSET Sources] /\ comps = <<>> /\ stack = <<>> /\ work = <<>>
      /\ index_of = [n \in Sources |-> -1] /\ low = [n \in Sources |-> -1]
  BY GraphsAssumption DEF SccInit, CInit
<1>2. /\ comps \in Seq(SUBSET Sources) /\ stack \in Seq(Sources) /\ work \in Seq(Call)
      /\ DOMAIN comps = {} /\ DOMAIN stack = {} /\ DOMAIN work = {}
  BY <1>1
<1>3. Seen = {} /\ On = {} /\ Emitted = {}
  BY <1>1, <1>2 DEF Seen, Unseen, On, Range, Emitted
<1>4. counter = 0  BY <1>3, CounterIs, FS_EmptySet
<1>. QED
  BY <1>1, <1>2, <1>3, <1>4 DEF TarjanInv, Numbered, Stacked, Connected, Linked

\* A step of the loop keeps the invariant, and a component that comes out is
\* one that the promise allows.
LEMMA TarjanStep ==
  ASSUME TarjanInv, SccStep
  PROVE  TarjanInv' /\ (CNext \/ UNCHANGED <<graph, comps>>)
<1>1. CASE StartRoot  BY <1>1, StartRootKeeps DEF StartRoot, Number
<1>2. CASE Descend    BY <1>2, DescendKeeps DEF Descend, Number
<1>3. CASE Cross      BY <1>3, CrossKeeps DEF Cross
<1>4. CASE Retreat /\ IsRoot(Top.node)
  <2>1. work # <<>>  BY <1>4 DEF Retreat
  <2>2. Top.node \in Sources  BY <2>1, TopIs, WorkFacts
  <2>3. TarjanInv' /\ Emit(Top.node, Reach(graph))  BY <1>4, CloseKeeps
  <2>. QED  BY <2>2, <2>3 DEF CNext
<1>5. CASE Retreat /\ ~IsRoot(Top.node)
  BY <1>5, ReturnKeeps DEF Retreat
<1>. QED  BY <1>1, <1>2, <1>3, <1>4, <1>5 DEF SccStep

\* The invariant depends on the graph and the loop's own variables only.
LEMMA TarjanStays ==
  ASSUME TarjanInv, UNCHANGED <<graph, comps, scc>>
  PROVE  TarjanInv'
<1>1. /\ graph' = graph /\ comps' = comps /\ index_of' = index_of /\ low' = low
      /\ stack' = stack /\ work' = work
  BY DEF scc
<1>2. /\ Seen' = Seen /\ On' = On /\ Emitted' = Emitted /\ counter' = counter
      /\ \A y : R(y)' = R(y)
      /\ \A y : Followed(y)' = Followed(y)
  BY <1>1 DEF Seen, Unseen, On, Emitted, counter, R, Followed, Owed
<1>. QED
  BY <1>1, <1>2 DEF TarjanInv, Numbered, Stacked, Connected, Linked

\* With no call left nothing is on the stack.
LEMMA AllAreOut == TarjanInv /\ Finished => Emitted = Sources
<1>. SUFFICES ASSUME TarjanInv, Finished PROVE Emitted = Sources  OBVIOUS
<1>1. DOMAIN work = {}  BY DEF Finished
<1>2. On = {}  BY <1>1 DEF TarjanInv, Connected
<1>3. Seen = Sources  BY DEF Finished, Seen
<1>. QED  BY <1>2, <1>3 DEF TarjanInv, Stacked

LEMMA PlanStep ==
  TarjanInv /\ [SNext]_planvars =>
    /\ TarjanInv' /\ [Next]_vars /\ [CNext]_<<graph, comps>>
<1>. SUFFICES ASSUME TarjanInv, [SNext]_planvars
              PROVE  TarjanInv' /\ [Next]_vars /\ [CNext]_<<graph, comps>>
  OBVIOUS
<1>1. CASE FindCycles
  <2>1. TarjanInv' /\ (CNext \/ UNCHANGED <<graph, comps>>)  BY <1>1, TarjanStep DEF FindCycles
  <2>2. Condense \/ UNCHANGED vars  BY <1>1, <2>1 DEF FindCycles, Condense, vars
  <2>. QED  BY <2>1, <2>2 DEF Next
<1>2. CASE Stage
  BY <1>2, TarjanStays DEF Stage, Plan, Next
<1>3. CASE DefineCalls
  BY <1>3, TarjanStays DEF DefineCalls, Define, Next
<1>4. CASE Evaluated /\ UNCHANGED scc
  BY <1>4, TarjanStays DEF Evaluated, vars, Next
<1>5. CASE UNCHANGED planvars
  BY <1>5, TarjanStays DEF planvars, vars
<1>. QED  BY <1>1, <1>2, <1>3, <1>4, <1>5 DEF SNext

LEMMA PlanInvariant == SSpec => []TarjanInv
<1>1. SInit => TarjanInv  BY TarjanInit DEF SInit
<1>. QED  BY <1>1, PlanStep, PTL DEF SSpec

\* What strongly_connected_components promises, for any graph: only classes of
\* mutually dependent packages come out, each once and after everything it
\* depends on. (strongly_connected_components)
THEOREM ComponentsAsPromised ==
  SSpec => Promise!CInit /\ [][Promise!CNext]_<<graph, comps>>
<1>1. SInit => Promise!CInit  BY DEF SInit, SccInit, CInit, Promise!CInit
<1>2. CNext => Promise!CNext
  BY DEF CNext, Emit, Reach, Closed, Component, Emitted, Promise!CNext, Promise!Emit,
         Promise!Reach, Promise!Closed, Promise!Component, Promise!Emitted
<1>3. TarjanInv /\ [SNext]_planvars => [Promise!CNext]_<<graph, comps>>
  BY <1>2, PlanStep
<1>. QED  BY <1>1, <1>3, PlanInvariant, PTL DEF SSpec

\* When the loop has ended nothing is missing from the plan: the planner is
\* never stopped by a package that is in no component. (plan_build_order)
THEOREM NothingLeftOut == SSpec => [](Finished => Emitted = Sources)
BY PlanInvariant, AllAreOut, PTL

\* The planner with Tarjan's algorithm does only what BuildGraph allows.
\* (plan_build_order, find_cycles)
THEOREM PlanImplementsBuildGraph == SSpec => Spec
<1>1. SInit => Init  BY DEF SInit
<1>. QED  BY <1>1, PlanInvariant, PlanStep, PTL DEF SSpec, Spec

\* The three properties of the targets, of the planner itself.
\* (plan_build_order, rpm_packages)
THEOREM PlannedTargetsHold ==
  SSpec => /\ []Descends
           /\ RoutedBasesAreBuilt => []Delivered
           /\ Stages > 1 => []ShipsSelfHosted
BY PlanImplementsBuildGraph, TargetGraphDescends, EveryBuildIsDelivered,
   WhatShipsIsSelfHosted, PTL

-----------------------------------------------------------------------------
(***************************************************************************)
(* LockStore.  For every set of contents and any number of commands.       *)
(***************************************************************************)
Inv == TypeOK /\ LockInv

\* The start: one encoding of one content, and no command.
LEMMA InitInv == StoreInit => Inv
<1>. SUFFICES ASSUME StoreInit PROVE Inv  OBVIOUS
<1>1. PICK e \in Encodings, v \in Values :
        file = [x \in Encodings |-> IF x = e THEN v ELSE Absent] /\ gen = v
  BY DEF StoreInit
<1>2. PICK u \in Values :
        cmd = [step |-> "idle", tool |-> "check", from |-> "plain",
               to |-> "plain", regen |-> FALSE, old |-> u, new |-> u]
  BY DEF StoreInit
<1>3. TypeOK
  <2>1. file \in [Encodings -> Contents]  BY <1>1 DEF Contents
  <2>2. cmd \in Command  BY <1>2 DEF Command, Tools, Encodings
  <2>3. cmd.step = "idle"  BY <1>2
  <2>4. temp = FALSE /\ commands \in 0..MaxCommands /\ gen \in Values
    BY <1>1, BoundAssumption DEF StoreInit
  <2>. QED  BY <2>1, <2>2, <2>3, <2>4 DEF TypeOK
<1>4. LockInv
  BY <1>1, <1>2, ValuesAssumption
     DEF LockInv, At, EncodingsAgree, Found, Encodings
<1>. QED  BY <1>3, <1>4 DEF Inv

\* A command that starts finds a single lock and notes what it says.
LEMMA BeginInv ==
  ASSUME Inv, NEW tool \in Tools, NEW to \in Encodings, NEW regen \in BOOLEAN,
         Begin(tool, to, regen)
  PROVE  Inv'
<1>0. /\ cmd.step = "idle" /\ EncodingsAgree
      /\ file' = file /\ temp' = temp /\ gen' = gen
      /\ commands' \in 0..MaxCommands
  BY BoundAssumption DEF Inv, TypeOK, LockInv, Begin, At
<1>1. CASE cmd' = [cmd EXCEPT !.step = "idle"]
  <2>1. cmd' \in Command /\ cmd'.step = "idle"
    BY <1>1 DEF Inv, TypeOK, Command
  <2>2. EncodingsAgree'
    BY <1>0 DEF EncodingsAgree, Found
  <2>. QED  BY <1>0, <2>1, <2>2 DEF Inv, TypeOK, LockInv, At
<1>2. CASE discover(tool) = "found" /\
           \E from \in Found, new \in Values :
             /\ tool \in {"edit", "convert", "check", "relock"} => file[from] # Torn
             /\ cmd' = [step |-> first_step(tool), tool |-> tool, from |-> from,
                        to |-> IF tool = "convert" THEN to ELSE from,
                        regen |-> regen \/ tool = "generate", old |-> file[from],
                        new |-> IF tool \in {"convert", "check", "generate"}
                                THEN file[from] ELSE new]
             /\ outcome' = "none"
  <2>1. PICK from \in Found, new \in Values :
             /\ tool \in {"edit", "convert", "check", "relock"} => file[from] # Torn
             /\ cmd' = [step |-> first_step(tool), tool |-> tool, from |-> from,
                        to |-> IF tool = "convert" THEN to ELSE from,
                        regen |-> regen \/ tool = "generate", old |-> file[from],
                        new |-> IF tool \in {"convert", "check", "generate"}
                                THEN file[from] ELSE new]
             /\ outcome' = "none"
    BY <1>2
  <2>2. Found # Encodings /\ from \in Encodings
    BY <1>2, <2>1 DEF discover, Found
  <2>3. \A x \in Encodings : file[x] # Absent <=> x = from
    BY <2>1, <2>2 DEF Found, Encodings
  <2>4. file[from] \in Values \cup {Torn}
    BY <2>2, <2>3 DEF Inv, TypeOK, Contents
  <2>5. /\ cmd'.step = first_step(tool) /\ cmd'.tool = tool /\ cmd'.from = from
        /\ cmd'.to = (IF tool = "convert" THEN to ELSE from)
        /\ cmd'.old = file[from]
        /\ cmd'.new = (IF tool \in {"convert", "check", "generate"}
                       THEN file[from] ELSE new)
    BY <2>1
  <2>6. cmd' \in Command
    BY <2>1, <2>2, <2>4 DEF Command, first_step, Tools
  <2>7. cmd'.step # "idle" /\ cmd'.step # "unlink" /\ cmd'.step # "dumped"
        /\ cmd'.step # "rename" /\ cmd'.step # "generating"
    BY <2>5 DEF first_step, Tools
  <2>8. TypeOK'
    BY <1>0, <2>1, <2>4, <2>5, <2>6, <2>7, ValuesAssumption
       DEF Inv, TypeOK, first_step, Tools
  <2>9. LockInv'
    BY <1>0, <2>1, <2>2, <2>3, <2>4, <2>5, <2>7, ValuesAssumption
       DEF LockInv, At, Only, first_step, Tools
  <2>. QED  BY <2>8, <2>9 DEF Inv
<1>. QED  BY <1>1, <1>2 DEF Begin, End

\* A step of the command in progress, or its end wherever it is stopped.
LEMMA StepInv == ASSUME Inv, Step PROVE Inv'
<1>. USE DEF Encodings
<1>0. /\ file \in [Encodings -> Contents] /\ cmd \in Command
      /\ cmd.from \in Encodings /\ cmd.to \in Encodings
      /\ cmd.new \in Contents /\ cmd.old \in Contents
  BY DEF Inv, TypeOK, Command, Contents
<1>1. ASSUME NEW s \in {"idle", "edit", "write", "rename", "unlink", "dump",
                       "dumped", "generate", "generating", "compare"},
             cmd' = [cmd EXCEPT !.step = s]
      PROVE  /\ cmd' \in Command /\ cmd'.step = s /\ cmd'.tool = cmd.tool
             /\ cmd'.from = cmd.from /\ cmd'.to = cmd.to
             /\ cmd'.old = cmd.old /\ cmd'.new = cmd.new
  BY <1>0, <1>1 DEF Command
<1>2. CASE Edit
  <2>1. /\ cmd.step = "edit" /\ file' = file /\ temp' = temp /\ gen' = gen
        /\ commands' = commands /\ outcome' # "ok"
    BY <1>2 DEF Edit, At, End, GoTo, Inv, LockInv
  <2>2. CASE cmd' = [cmd EXCEPT !.step = "idle"]
    <3>1. EncodingsAgree'
      BY <2>1 DEF EncodingsAgree, Found, Inv, LockInv, Only
    <3>. QED  BY <1>0, <1>1, <2>1, <2>2, <3>1 DEF Inv, TypeOK, LockInv, At
  <2>3. CASE cmd' = [cmd EXCEPT !.step = "write"]
    BY <1>0, <1>1, <2>1, <2>3 DEF Inv, TypeOK, LockInv, At, Only
  <2>. QED  BY <1>2, <2>2, <2>3 DEF Edit, End, GoTo
<1>3. CASE WriteTemp
  BY <1>0, <1>1, <1>3 DEF WriteTemp, GoTo, Inv, TypeOK, LockInv, At, Only
<1>4. CASE Rename
  <2>1. /\ cmd.step = "rename" /\ file' = [file EXCEPT ![cmd.to] = cmd.new]
        /\ temp' = FALSE /\ gen' = gen /\ commands' = commands
        /\ cmd.tool # "relock" /\ cmd.tool # "check" /\ cmd.tool # "generate"
        /\ cmd.new \in Values /\ Only(cmd.from) /\ file[cmd.from] = cmd.old
        /\ cmd.from # cmd.to => cmd.new = cmd.old
    BY <1>4 DEF Rename, At, Inv, LockInv
  <2>2. file' \in [Encodings -> Contents] /\ file'[cmd.to] = cmd.new
        /\ \A x \in Encodings : x # cmd.to => file'[x] = file[x]
    BY <1>0, <2>1
  <2>3. CASE cmd.from # cmd.to
    <3>1. cmd' = [cmd EXCEPT !.step = "unlink"] /\ outcome' = outcome
      BY <1>4, <2>3 DEF Rename, GoTo
    <3>2. \A x \in Encodings : file'[x] = file'[cmd.to] /\ file'[x] \in Values
      BY <1>0, <2>1, <2>2, <2>3
    <3>. QED  BY <1>0, <1>1, <2>1, <2>2, <2>3, <3>1, <3>2
                 DEF Inv, TypeOK, LockInv, At
  <2>4. CASE cmd.from = cmd.to
    <3>1. \A x \in Encodings : file'[x] # Absent <=> x = cmd.to
      BY <1>0, <2>1, <2>2, <2>4, ValuesAssumption DEF Only
    <3>2. CASE cmd' = [cmd EXCEPT !.step = "generate"] /\ outcome' = outcome
      BY <1>0, <1>1, <2>1, <2>2, <3>1, <3>2, ValuesAssumption
         DEF Inv, TypeOK, LockInv, At, Only
    <3>3. CASE cmd' = [cmd EXCEPT !.step = "idle"]
      <4>1. EncodingsAgree'  BY <3>1 DEF EncodingsAgree, Found
      <4>. QED  BY <1>0, <1>1, <2>1, <2>2, <3>3, <4>1 DEF Inv, TypeOK, LockInv, At
    <3>. QED  BY <1>4, <2>4, <3>2, <3>3 DEF Rename, Written, GoTo, End
  <2>. QED  BY <2>3, <2>4
<1>5. CASE Unlink
  <2>1. /\ cmd.step = "unlink" /\ file' = [file EXCEPT ![cmd.from] = Absent]
        /\ temp' = temp /\ gen' = gen /\ commands' = commands
        /\ cmd.tool # "relock" /\ cmd.tool # "check" /\ cmd.tool # "generate"
        /\ cmd.from # cmd.to
        /\ \A x \in Encodings : file[x] = file[cmd.to] /\ file[x] \in Values
    BY <1>5 DEF Unlink, At, Inv, LockInv, TypeOK
  <2>2. /\ file' \in [Encodings -> Contents]
        /\ file'[cmd.from] = Absent /\ file'[cmd.to] = file[cmd.to]
    BY <1>0, <2>1 DEF Contents
  <2>3. \A x \in Encodings : file'[x] # Absent <=> x = cmd.to
    BY <1>0, <2>1, <2>2, ValuesAssumption
  <2>4. CASE cmd' = [cmd EXCEPT !.step = "generate"] /\ outcome' = outcome
    BY <1>0, <1>1, <2>1, <2>2, <2>3, <2>4, ValuesAssumption
       DEF Inv, TypeOK, LockInv, At, Only
  <2>5. CASE cmd' = [cmd EXCEPT !.step = "idle"]
    <3>1. EncodingsAgree'  BY <2>3 DEF EncodingsAgree, Found
    <3>. QED  BY <1>0, <1>1, <2>1, <2>2, <2>5, <3>1 DEF Inv, TypeOK, LockInv, At
  <2>. QED  BY <1>5, <2>4, <2>5 DEF Unlink, Written, GoTo, End
<1>6. CASE Truncate
  <2>1. /\ cmd.step = "dump" /\ file' = [file EXCEPT ![cmd.to] = Torn]
        /\ cmd' = [cmd EXCEPT !.step = "dumped"] /\ outcome' = outcome
        /\ temp' = temp /\ gen' = gen /\ commands' = commands
        /\ cmd.tool = "relock" /\ cmd.from = cmd.to /\ Only(cmd.from)
        /\ outcome # "ok" /\ cmd.new \in Values
    BY <1>6 DEF Truncate, GoTo, At, Inv, LockInv
  <2>2. file' \in [Encodings -> Contents] /\ file'[cmd.to] = Torn
        /\ \A x \in Encodings : x # cmd.to => file'[x] = file[x]
    BY <1>0, <2>1 DEF Contents
  <2>3. \A x \in Encodings : file'[x] # Absent <=> x = cmd.to
    BY <1>0, <2>1, <2>2, ValuesAssumption DEF Only
  <2>. QED  BY <1>0, <1>1, <2>1, <2>2, <2>3 DEF Inv, TypeOK, LockInv, At, Only
<1>7. CASE Dumped
  <2>1. /\ cmd.step = "dumped" /\ file' = [file EXCEPT ![cmd.to] = cmd.new]
        /\ temp' = temp /\ gen' = gen /\ commands' = commands
        /\ cmd.tool = "relock" /\ Only(cmd.to) /\ cmd.new \in Values
        /\ cmd.from # cmd.to => cmd.tool = "convert"
        /\ outcome # "ok"
    BY <1>7 DEF Dumped, At, Inv, LockInv
  <2>2. file' \in [Encodings -> Contents] /\ file'[cmd.to] = cmd.new
        /\ \A x \in Encodings : x # cmd.to => file'[x] = file[x]
    BY <1>0, <2>1
  <2>3. \A x \in Encodings : file'[x] # Absent <=> x = cmd.to
    BY <1>0, <2>1, <2>2, ValuesAssumption DEF Only
  <2>4. CASE cmd' = [cmd EXCEPT !.step = "generate"] /\ outcome' = outcome
    BY <1>0, <1>1, <2>1, <2>2, <2>3, <2>4, ValuesAssumption
       DEF Inv, TypeOK, LockInv, At, Only
  <2>5. CASE cmd' = [cmd EXCEPT !.step = "idle"]
    <3>1. EncodingsAgree'  BY <2>3 DEF EncodingsAgree, Found
    <3>. QED  BY <1>0, <1>1, <2>1, <2>2, <2>5, <3>1 DEF Inv, TypeOK, LockInv, At
  <2>. QED  BY <1>7, <2>4, <2>5 DEF Dumped, Written, GoTo, End
<1>8. CASE Generate
  <2>1. /\ cmd.step = "generate" /\ file' = file /\ temp' = temp
        /\ commands' = commands /\ gen' \in Values \cup {Torn}
        /\ Only(cmd.to) /\ outcome # "ok"
    BY <1>8 DEF Generate, At, Inv, LockInv, TypeOK
  <2>2. CASE cmd' = [cmd EXCEPT !.step = "idle"]
    <3>1. EncodingsAgree'  BY <2>1 DEF EncodingsAgree, Found, Only
    <3>. QED  BY <1>0, <1>1, <2>1, <2>2, <3>1 DEF Inv, TypeOK, LockInv, At
  <2>3. CASE /\ file[cmd.to] # Torn
             /\ cmd' = [cmd EXCEPT !.step = "generating"] /\ outcome' = outcome
    <3>1. file[cmd.to] \in Values
      BY <1>0, <2>1, <2>3 DEF Only, Contents
    <3>. QED  BY <1>0, <1>1, <2>1, <2>3, <3>1, ValuesAssumption
                 DEF Inv, TypeOK, LockInv, At, Only
  <2>. QED  BY <1>8, <2>2, <2>3 DEF Generate, GoTo, End
<1>9. CASE Generated
  <2>1. /\ cmd.step = "generating" /\ file' = file /\ temp' = temp
        /\ commands' = commands /\ gen' \in Values /\ Only(cmd.to)
        /\ cmd' = [cmd EXCEPT !.step = "idle"]
    BY <1>9 DEF Generated, End, At, Inv, LockInv
  <2>2. EncodingsAgree'  BY <2>1 DEF EncodingsAgree, Found, Only
  <2>. QED  BY <1>0, <1>1, <2>1, <2>2 DEF Inv, TypeOK, LockInv, At
<1>10. CASE Compare
  <2>1. /\ cmd.step = "compare" /\ file' = file /\ temp' = temp
        /\ commands' = commands /\ gen' = gen /\ Only(cmd.from)
        /\ cmd' = [cmd EXCEPT !.step = "idle"]
    BY <1>10 DEF Compare, End, At, Inv, LockInv
  <2>2. EncodingsAgree'  BY <2>1 DEF EncodingsAgree, Found, Only
  <2>. QED  BY <1>0, <1>1, <2>1, <2>2 DEF Inv, TypeOK, LockInv, At
<1>. QED
  BY <1>2, <1>3, <1>4, <1>5, <1>6, <1>7, <1>8, <1>9, <1>10 DEF Step

\* A command killed or interrupted anywhere, conversions with both encodings
\* in place included.
LEMMA StopInv == ASSUME Inv, NEW cleanly \in BOOLEAN, Stop(cleanly) PROVE Inv'
<1>1. /\ cmd.step # "idle" /\ file' = file /\ gen' = gen /\ commands' = commands
      /\ cmd' = [cmd EXCEPT !.step = "idle"] /\ temp' \in BOOLEAN
  BY DEF Stop, End, At
<1>2. cmd' \in Command /\ cmd'.step = "idle"
  BY <1>1 DEF Inv, TypeOK, Command
<1>3. cmd.step \in {"edit", "write", "rename", "unlink", "dump", "dumped",
                   "generate", "generating", "compare"}
  BY <1>1 DEF Inv, TypeOK, Command
<1>4. ASSUME cmd.step = "unlink" PROVE EncodingsAgree
  BY <1>4 DEF Inv, LockInv, EncodingsAgree, Encodings
<1>5. ASSUME cmd.step # "unlink" PROVE EncodingsAgree
  <2>1. Only(cmd.from) \/ Only(cmd.to)
    BY <1>3, <1>5 DEF Inv, LockInv
  <2>. QED  BY <2>1 DEF EncodingsAgree, Found, Only, Encodings
<1>6. EncodingsAgree'
  BY <1>1, <1>4, <1>5 DEF EncodingsAgree, Found
<1>. QED  BY <1>1, <1>2, <1>6 DEF Inv, TypeOK, LockInv, At

\* What every step keeps: a command between two of its operations holds the
\* only lock, and a command that has ended leaves no disagreement behind.
LEMMA NextInv == ASSUME Inv, [StoreNext]_storeVars PROVE Inv'
<1>1. CASE UNCHANGED storeVars
  BY <1>1 DEF storeVars, Inv, TypeOK, LockInv, At, Only, EncodingsAgree, Found
<1>. QED  BY <1>1, BeginInv, StepInv, StopInv DEF StoreNext

\* At every step of every command LockInv says what is on disk: which encoding
\* is the lock, what the command read of it, and what it is about to write.
THEOREM LockInvariant == StoreSpec => []Inv
<1>. QED  BY InitInv, NextInv, PTL DEF StoreSpec

\* The files, the command that runs and its outcome stay what they are
\* declared to be, for any contents and any number of commands.
THEOREM TypeCorrect == StoreSpec => []TypeOK
<1>. QED  BY LockInvariant, PTL DEF Inv

\* In no reachable state, killed commands included, do the two encodings of a
\* lock say different things (convert_lockfile, atomic_dump_lockfile).
THEOREM EncodingsNeverDisagree == StoreSpec => []EncodingsAgree
<1>1. Inv => EncodingsAgree
  <2>. SUFFICES ASSUME Inv PROVE EncodingsAgree  OBVIOUS
  <2>1. cmd.step \in {"idle", "edit", "write", "rename", "unlink", "dump", "dumped",
                     "generate", "generating", "compare"}
    BY DEF Inv, TypeOK, Command
  <2>2. \/ cmd.step = "idle" \/ Only(cmd.from) \/ Only(cmd.to)
        \/ \A x \in Encodings : file[x] = file[cmd.to]
    BY <2>1 DEF Inv, LockInv
  <2>3. cmd.step = "idle" => EncodingsAgree  BY DEF Inv, LockInv, At
  <2>. QED  BY <2>2, <2>3 DEF EncodingsAgree, Found, Only, Encodings
<1>. QED  BY <1>1, LockInvariant, PTL

\* No lockfile command, wherever it is killed, takes away a lock that could
\* be read: only a refresh truncates one.
THEOREM LockIsKept == StoreSpec => KeepsALock
<1>1. Inv /\ [StoreNext]_storeVars => (cmd'.tool # "relock" /\ Readable => Readable')
  <2>. SUFFICES ASSUME Inv, [StoreNext]_storeVars, cmd'.tool # "relock", Readable
                PROVE  Readable'
    OBVIOUS
  <2>0. /\ file \in [Encodings -> Contents] /\ cmd \in Command
        /\ cmd.from \in Encodings /\ cmd.to \in Encodings
    BY DEF Inv, TypeOK, Command
  <2>1. CASE Rename
    <3>1. cmd.new \in Values /\ file' = [file EXCEPT ![cmd.to] = cmd.new]
      BY <2>1 DEF Rename, At, Inv, LockInv
    <3>. QED  BY <2>0, <3>1 DEF Readable
  <2>2. CASE Unlink
    <3>1. /\ cmd.from # cmd.to /\ file[cmd.to] \in Values
          /\ file' = [file EXCEPT ![cmd.from] = Absent]
      BY <2>0, <2>2 DEF Unlink, At, Inv, TypeOK, LockInv
    <3>. QED  BY <2>0, <3>1 DEF Readable
  <2>3. CASE Truncate
    <3>1. cmd.tool = "relock" /\ cmd' = [cmd EXCEPT !.step = "dumped"]
      BY <2>3 DEF Truncate, GoTo, At, Inv, LockInv
    <3>. QED  BY <2>0, <3>1 DEF Command
  <2>4. CASE Dumped
    <3>1. cmd.new \in Values /\ file' = [file EXCEPT ![cmd.to] = cmd.new]
      BY <2>4 DEF Dumped, At, Inv, LockInv
    <3>. QED  BY <2>0, <3>1 DEF Readable
  <2>5. CASE file' = file
    BY <2>5 DEF Readable
  <2>. QED
    BY <2>1, <2>2, <2>3, <2>4, <2>5
       DEF StoreNext, Step, storeVars, Begin, Edit, WriteTemp, Generate, Generated, Compare, Stop
<1>. QED  BY <1>1, LockInvariant, PTL DEF StoreSpec, KeepsALock

\* What reports success, regenerating or checking, leaves one encoding and
\* Starlark generated from it, whatever was killed before it.
THEOREM SuccessMeansConsistent == StoreSpec => []SuccessIsConsistent
<1>1. StoreInit => SuccessIsConsistent  BY DEF StoreInit, SuccessIsConsistent
<1>2. ASSUME Inv, SuccessIsConsistent, [StoreNext]_storeVars PROVE SuccessIsConsistent'
  <2>0. /\ file \in [Encodings -> Contents] /\ cmd \in Command
        /\ cmd.from \in Encodings /\ cmd.to \in Encodings
    BY <1>2 DEF Inv, TypeOK, Command
  <2>1. CASE Generated
    <3>1. /\ Only(cmd.to) /\ file[cmd.to] \in Values
          /\ file' = file /\ gen' = file[cmd.to]
      BY <1>2, <2>1 DEF Generated, At, Inv, LockInv
    <3>2. Found' = {cmd.to}
      BY <2>0, <3>1 DEF Found, Only
    <3>. QED  BY <2>0, <3>1, <3>2 DEF SuccessIsConsistent
  <2>2. CASE Compare
    <3>1. /\ Only(cmd.from) /\ file[cmd.from] \in Values
          /\ file' = file /\ gen' = gen
      BY <1>2, <2>2 DEF Compare, At, Inv, LockInv
    <3>2. Found' = {cmd.from}
      BY <2>0, <3>1 DEF Found, Only
    <3>3. outcome' = "ok" => gen = file[cmd.from]
      BY <2>2 DEF Compare, End
    <3>. QED  BY <2>0, <3>1, <3>2, <3>3 DEF SuccessIsConsistent
  <2>3. CASE Rename \/ Unlink \/ Dumped
    <3>1. /\ cmd.tool # "check" /\ outcome # "ok"
          /\ cmd'.tool = cmd.tool /\ cmd'.regen = cmd.regen
      BY <1>2, <2>0, <2>3
         DEF Rename, Unlink, Dumped, Written, GoTo, End, At, Inv, LockInv, Command
    <3>2. cmd.regen => outcome' # "ok"
      BY <2>3, <3>1 DEF Rename, Unlink, Dumped, Written, GoTo
    <3>. QED  BY <3>1, <3>2 DEF SuccessIsConsistent
  <2>4. CASE Edit \/ WriteTemp \/ Truncate \/ Generate
    BY <1>2, <2>4
       DEF Edit, WriteTemp, Truncate, Generate, GoTo, End, At, Inv, LockInv, SuccessIsConsistent
  <2>5. ASSUME NEW cleanly \in BOOLEAN, Stop(cleanly) PROVE SuccessIsConsistent'
    BY <2>5 DEF Stop, End, SuccessIsConsistent
  <2>6. ASSUME NEW tool \in Tools, NEW to \in Encodings, NEW regen \in BOOLEAN,
               Begin(tool, to, regen)
        PROVE  SuccessIsConsistent'
    BY <2>6 DEF Begin, End, discover, SuccessIsConsistent
  <2>7. CASE UNCHANGED storeVars
    BY <1>2, <2>7 DEF storeVars, SuccessIsConsistent, Found
  <2>. QED  BY <1>2, <2>1, <2>2, <2>3, <2>4, <2>5, <2>6, <2>7 DEF StoreNext, Step
<1>. QED  BY <1>1, <1>2, LockInvariant, PTL DEF StoreSpec
=============================================================================
